----------------------------- MODULE SmtpProofs -----------------------------
(***************************************************************************)
(* That what send reports as sent was spooled, once and whole, by a server *)
(* whose replies have one line, as the client expects of it.               *)
(*                                                                         *)
(* The client may be out of step: after a time out, the reply to an        *)
(* earlier command is taken for the reply to a later one.  What keeps this *)
(* from doing harm is that a server accepts a message only after three     *)
(* commands that it has accepted, one after the other.  The proof counts   *)
(* the replies that say so.                                                *)
(***************************************************************************)
EXTENDS Smtp, FiniteSetTheorems, SequenceTheorems, TLAPS

\* Replies have one line; a text has pieces, and does not start with a dot,
\* because its headers come first.
Proper ==
  /\ MaxLines = 1 /\ MaxSends \in Nat
  /\ Nobody \notin Messages
  /\ NoPiece \notin Dots
  /\ \A given \in Outboxes : \A m \in Messages :
       given[m] \in Seq(Range(given[m])) /\ given[m] # <<>> /\ given[m][1] \notin Dots

-----------------------------------------------------------------------------
(***************************************************************************)
(* The parts of the inductive invariant.                                   *)
(***************************************************************************)

Pieces == {NoPiece} \cup UNION {Range(given[m]) : given \in Outboxes, m \in Messages}
Lines == [word : Words, piece : Pieces, of : Messages \cup {Nobody}]

\* The line after which the server takes no more text.
Ends(line) == line.word = "end" \/ line.piece \in Dots

\* Such a line, or DATA, is on its way; so is the answer to DATA.
Ending == \E i \in DOMAIN commands : Ends(commands[i])
Asked == \E i \in DOMAIN commands : commands[i].word = "DATA"
Ready == \E i \in DOMAIN replies : replies[i] = 354

\* What has arrived of a text and what is on its way.
Flow == text \o commands

InSpool(m) == \E i \in DOMAIN spooled : spooled[i] = Text(m)

Types ==
  /\ TypeOK
  /\ commands \in Seq(Lines)
  /\ text \in Seq(Lines)
  /\ spooled \in Seq(Seq(Lines))

\* Which lines there are, and in which order.
Sent ==
  /\ \A i \in DOMAIN commands : commands[i].word # "text" => commands[i].piece = NoPiece
  /\ \A i, j \in DOMAIN commands :
       i < j /\ commands[i].word = "DATA" => commands[j].word \notin {"text", "end"}
  /\ server = "closed" => commands = <<>>

\* Whom the client sends for.
Calls ==
  /\ at = "MAIL" /\ commands # <<>> => commands[Len(commands)].word = "MAIL"
  /\ email = Nobody => ~Asked /\ server # "data" /\ spooled = <<>>
  /\ at \in {"greeting", "HELO"} => email = Nobody
  /\ at \in {"MAIL", "RCPT", "DATA", "text", "end"} =>
       email \in Messages /\ email \notin delivered

\* The client says nothing after QUIT.
QuitLast ==
  \A i \in DOMAIN commands : commands[i].word = "QUIT" =>
    i = Len(commands) /\ at \in {"QUIT", "gone", "terminated"}

\* How many replies on their way accept a command other than DATA, and how many
\* more can come before the client begins another text.
Count(codes) == Cardinality({i \in DOMAIN codes : codes[i] = 250})
Future ==
  IF server = "new" THEN 3
  ELSE IF server = "idle" THEN 2
  ELSE IF server = "mail" THEN 1
  ELSE IF server = "data" /\ Ending THEN 3
  ELSE 0
Budget == Count(replies) + Future

\* The server takes text, or will, that the client does not know it asked for.
Open == Asked \/ Ready \/ (server = "data" /\ ~Ending)

\* A client that has one text open cannot come to ask for another.
Budgeted ==
  /\ Budget <= 3
  /\ at = "RCPT" => Budget <= 2
  /\ at = "DATA" => Budget <= 1
  /\ at \notin {"text", "DATA"} /\ Open => Budget <= 1
  /\ at = "RCPT" /\ Open => Budget <= 0

\* The answer to DATA, if it comes, is the last one.
AtData ==
  at = "DATA" =>
    /\ \A i \in DOMAIN replies : replies[i] = 354 =>
         /\ i = Len(replies)
         /\ commands = <<>> /\ server \in {"data", "closed"} /\ text = <<>>
    /\ \A i \in DOMAIN commands : commands[i].word = "DATA" =>
         i = Len(commands) /\ ~Ready /\ server # "data"
    /\ server = "data" => Ready

\* What the server has of the text, and will have, is what has been written; but
\* it may have ended a text with a dot in it.
AtText ==
  at = "text" =>
    /\ written \in 0..Len(outbox[email])
    /\ ~Ready /\ ~Asked
    /\ \/ server = "closed" /\ (email \notin Dotted => replies = <<>>)
       \/ /\ server = "data" /\ replies = <<>>
          /\ Flow = SubSeq(Text(email), 1, written)
          /\ email \notin Dotted => ~InSpool(email)
       \/ /\ server = "idle" /\ email \in Dotted
          /\ \A i \in DOMAIN commands : commands[i].word = "text"

\* The next reply is the one to the text, unless a dot has ended it before.
Replied ==
  /\ commands = <<>>
  /\ \/ replies = <<250>> /\ InSpool(email)
     \/ replies = <<500>> /\ ~InSpool(email)
AtEnd ==
  at = "end" =>
    /\ ~Ready /\ ~Asked
    /\ \A i \in DOMAIN commands : commands[i].word \in {"text", "end"}
    /\ \/ /\ server = "data" /\ Ending /\ replies = <<>>
          /\ Flow = Append(Text(email), Command("end"))
       \/ server = "idle" /\ (email \notin Dotted => Replied)
       \/ /\ server = "closed"
          /\ email \notin Dotted /\ (\E i \in DOMAIN replies : replies[i] = 250) => InSpool(email)

\* The server's text is the text of a message that is not spooled, as far as it
\* has been written, and only lines of other calls follow it.
Begun(m, k) ==
  /\ k \in 0..Len(outbox[m]) /\ k <= Len(Flow)
  /\ \A i \in 1..k : Flow[i] = Text(m)[i]
  /\ \A i \in (k + 1)..Len(Flow) :
       /\ Flow[i].word # "text"
       /\ Flow[i].word = "end" => i = k + 1 /\ k = Len(outbox[m])
  /\ k > 0 /\ m \notin Dotted => ~InSpool(m)
Stream ==
  server = "data" =>
    /\ \A i \in DOMAIN text : ~Ends(text[i])
    /\ \E m \in Messages : \E k \in 0..Len(outbox[m]) : Begun(m, k)

\* A message that is spooled although its call of send has thrown: the client is
\* behind by a reply, and stays so.
Pending == Len(replies) + Len(commands)
Behind(m) ==
  \/ at = "end" /\ email = m /\ server = "idle" /\ commands = <<>> /\ replies = <<250>>
  \/ at \in {"QUIT", "gone", "terminated"}
  \/ /\ ~(server = "data" /\ Ending)
     /\ \/ server = "data" /\ at \in {"MAIL", "RCPT", "idle", "failed"}
        \/ at \in {"MAIL", "RCPT", "DATA"} /\ Pending >= 2
        \/ at \in {"idle", "failed"} /\ Pending >= 1
Late ==
  \A m \in Messages \ Dotted :
    m \notin delivered /\ InSpool(m) /\ server # "closed" => Behind(m)

IInv ==
  /\ Types /\ Sent /\ Calls /\ QuitLast /\ Budgeted /\ AtData /\ AtText /\ AtEnd /\ Stream /\ Late
  /\ ReturnedMeansSpooled /\ SpooledOnce /\ NothingPartial

-----------------------------------------------------------------------------
(***************************************************************************)
(* Sequences and counting.                                                 *)
(***************************************************************************)

\* One reply is appended or taken, and the count follows.
LEMMA CountEmpty == Count(<<>>) = 0
<1>1. {i \in DOMAIN <<>> : <<>>[i] = 250} = {}
  OBVIOUS
<1> QED BY <1>1, FS_EmptySet DEF Count

LEMMA CountNat ==
  ASSUME NEW s \in Seq(Codes)
  PROVE  Count(s) \in Nat /\ IsFiniteSet({i \in DOMAIN s : s[i] = 250})
<1>1. IsFiniteSet(1..Len(s))
  BY FS_Interval, LenProperties
<1>2. {i \in DOMAIN s : s[i] = 250} \subseteq 1..Len(s)
  OBVIOUS
<1>3. IsFiniteSet({i \in DOMAIN s : s[i] = 250})
  BY <1>1, <1>2, FS_Subset
<1> QED BY <1>3, FS_CardinalityType DEF Count

LEMMA CountAppend ==
  ASSUME NEW s \in Seq(Codes), NEW c \in Codes
  PROVE  Count(Append(s, c)) = IF c = 250 THEN Count(s) + 1 ELSE Count(s)
<1> DEFINE S == {i \in DOMAIN s : s[i] = 250}
           T == {i \in DOMAIN Append(s, c) : Append(s, c)[i] = 250}
           n == Len(s) + 1
<1>1. n \notin S /\ IsFiniteSet(S)
  <2>1. n \notin S
    OBVIOUS
  <2> QED BY <2>1, CountNat
<1>2. CASE c = 250
  <2>1. T = S \cup {n}
    BY <1>2
  <2>2. Cardinality(S \cup {n}) = Cardinality(S) + 1
    <3> HIDE DEF S, n
    <3> QED BY <1>1, FS_AddElement
  <2> QED BY <1>2, <2>1, <2>2 DEF Count
<1>3. CASE c # 250
  <2>1. T = S
    BY <1>3
  <2> QED BY <1>3, <2>1 DEF Count
<1> QED BY <1>2, <1>3

LEMMA CountTail ==
  ASSUME NEW s \in Seq(Codes), s # <<>>
  PROVE  /\ Head(s) \in Codes /\ Tail(s) \in Seq(Codes)
         /\ Count(s) = IF Head(s) = 250 THEN Count(Tail(s)) + 1 ELSE Count(Tail(s))
<1> DEFINE S == {i \in DOMAIN s : s[i] = 250}
           T == {i \in DOMAIN Tail(s) : Tail(s)[i] = 250}
           R == S \ {1}
           f == [i \in T |-> i + 1]
<1>1. Head(s) \in Codes /\ Tail(s) \in Seq(Codes)
  OBVIOUS
<1>2. f \in Bijection(T, R)
  <2>1. \A i \in T : i + 1 \in R
    OBVIOUS
  <2>2. \A j \in R : j - 1 \in T /\ (j - 1) + 1 = j
    OBVIOUS
  <2>3. T \subseteq Int
    OBVIOUS
  <2>4. f \in Injection(T, R)
    BY <2>1, <2>3 DEF Injection, IsInjective
  <2>5. f \in Surjection(T, R)
    BY <2>1, <2>2 DEF Surjection
  <2> QED BY <2>4, <2>5 DEF Bijection
<1>3. IsFiniteSet(S) /\ IsFiniteSet(T)
  BY <1>1, CountNat
<1>4. Cardinality(T) = Cardinality(R)
  <2> HIDE DEF T, R, f
  <2>1. ExistsBijection(T, R)
    BY <1>2 DEF ExistsBijection
  <2> QED BY <1>3, <2>1, FS_Bijection
<1>5. Cardinality(R) = IF 1 \in S THEN Cardinality(S) - 1 ELSE Cardinality(S)
  BY <1>3, FS_RemoveElement
<1>6. 1 \in S <=> Head(s) = 250
  OBVIOUS
<1>7. Cardinality(S) \in Nat
  BY <1>3, FS_CardinalityType
<1>8. Count(s) = Cardinality(S) /\ Count(Tail(s)) = Cardinality(T)
  BY DEF Count
<1> HIDE DEF S, T, R
<1> QED BY <1>1, <1>4, <1>5, <1>6, <1>7, <1>8

-----------------------------------------------------------------------------
(***************************************************************************)
(* Types.                                                                  *)
(***************************************************************************)

\* A sequence of lines has lines in it.
LEMMA LinesOK ==
  /\ \A s \in Seq(Lines) : \A i \in DOMAIN s : LineOK(s[i])
  /\ \A s \in Seq(Seq(Lines)) : \A i \in DOMAIN s : \A j \in DOMAIN s[i] : LineOK(s[i][j])
<1>1. \A line \in Lines : LineOK(line)
  BY DEF Lines, LineOK
<1>2. \A s \in Seq(Lines) : \A i \in DOMAIN s : LineOK(s[i])
  BY <1>1
<1>3. \A s \in Seq(Seq(Lines)) : \A i \in DOMAIN s : s[i] \in Seq(Lines)
  OBVIOUS
<1> QED BY <1>2, <1>3

\* What the client writes are lines.
LEMMA CommandLines ==
  ASSUME NEW word \in Words
  PROVE  Command(word) \in Lines /\ Command(word).word = word /\ Command(word).piece = NoPiece
BY DEF Command, Line, Lines, Pieces

\* A message's text is a sequence of pieces, the first of which is no dot.
LEMMA TextProps ==
  ASSUME Proper, outbox \in Outboxes, NEW m \in Messages
  PROVE  /\ outbox[m] \in Seq(Pieces) /\ Len(outbox[m]) \in Nat \ {0}
         /\ Text(m) \in Seq(Lines) /\ Len(Text(m)) = Len(outbox[m])
         /\ \A i \in 1..Len(outbox[m]) :
              /\ Text(m)[i] = Line("text", outbox[m][i], m)
              /\ Text(m)[i].word = "text" /\ Text(m)[i].of = m
              /\ Text(m)[i].piece = outbox[m][i]
              /\ Ends(Text(m)[i]) => m \in Dotted
         /\ ~Ends(Text(m)[1])
<1>1. outbox[m] \in Seq(Range(outbox[m])) /\ outbox[m] # <<>> /\ outbox[m][1] \notin Dots
  BY DEF Proper
<1>2. Range(outbox[m]) \subseteq Pieces
  BY DEF Pieces
<1>3. outbox[m] \in Seq(Pieces) /\ Len(outbox[m]) \in Nat \ {0}
  BY <1>1, <1>2
<1>4. \A i \in 1..Len(outbox[m]) : Line("text", outbox[m][i], m) \in Lines
  BY <1>3 DEF Line, Lines, Words
<1>5. DOMAIN outbox[m] = 1..Len(outbox[m])
  BY <1>3
<1>6. Text(m) \in Seq(Lines) /\ Len(Text(m)) = Len(outbox[m])
  BY <1>3, <1>4, <1>5 DEF Text
<1>7. \A i \in 1..Len(outbox[m]) : Text(m)[i] = Line("text", outbox[m][i], m)
  BY <1>5 DEF Text
<1>8. \A i \in 1..Len(outbox[m]) : outbox[m][i] \in Dots => m \in Dotted
  BY <1>5 DEF Dotted, Range
<1>9. \A i \in 1..Len(outbox[m]) :
        /\ Text(m)[i].word = "text" /\ Text(m)[i].of = m
        /\ Text(m)[i].piece = outbox[m][i]
        /\ Ends(Text(m)[i]) <=> outbox[m][i] \in Dots
  <2> SUFFICES ASSUME NEW i \in 1..Len(outbox[m])
               PROVE  /\ Text(m)[i].word = "text" /\ Text(m)[i].of = m
                      /\ Text(m)[i].piece = outbox[m][i]
                      /\ Ends(Text(m)[i]) <=> outbox[m][i] \in Dots
    OBVIOUS
  <2>0. Text(m)[i] = [word |-> "text", piece |-> outbox[m][i], of |-> m]
    BY <1>7, Zenon DEF Line
  <2>1. /\ Text(m)[i].word = "text" /\ Text(m)[i].of = m
        /\ Text(m)[i].piece = outbox[m][i]
    BY <2>0
  <2> QED BY <2>1 DEF Ends
<1>10. ~Ends(Text(m)[1])
  BY <1>1, <1>3, <1>9
<1> QED BY <1>3, <1>6, <1>7, <1>8, <1>9, <1>10

LEMMA TextFirst ==
  ASSUME Proper, Types, NEW m \in Messages
  PROVE  1 \in 1..Len(outbox[m]) /\ Text(m)[1].of = m
<1>1. outbox \in Outboxes
  BY DEF Types, TypeOK
<1>2. /\ Len(outbox[m]) \in Nat \ {0}
      /\ \A i \in 1..Len(outbox[m]) : Text(m)[i].of = m
  BY <1>1, TextProps
<1>3. 1 \in 1..Len(outbox[m])
  BY <1>2
<1> QED BY <1>2, <1>3

LEMMA TextKept ==
  ASSUME UNCHANGED outbox
  PROVE  /\ \A m \in Messages : Text(m)' = Text(m)
         /\ Dotted' = Dotted
BY DEF Text, Dotted

\* The server's reply to a line.
LEMMA OneLine ==
  ASSUME Proper, replies \in Seq(Codes), NEW code \in Codes, Answer(code)
  PROVE  replies' = Append(replies, code) /\ replies' \in Seq(Codes)
<1>1. PICK n \in 1..MaxLines : replies' = replies \o [i \in 1..n |-> code]
  BY DEF Answer
<1>2. n = 1
  BY DEF Proper
<1>3. [i \in 1..1 |-> code] = <<code>>
  OBVIOUS
<1> QED BY <1>1, <1>2, <1>3

\* Which command the server accepts, with what code, and what comes of it.
Accepts(word, code) ==
  \/ word = "HELO" /\ server = "new" /\ code = 250 /\ server' = "idle"
  \/ word = "MAIL" /\ server = "idle" /\ code = 250 /\ server' = "mail"
  \/ word = "RCPT" /\ server = "mail" /\ code = 250 /\ server' = "rcpt"
  \/ word = "DATA" /\ server = "rcpt" /\ code = 354 /\ server' = "data"
  \/ word = "QUIT" /\ server = "idle" /\ code = 221 /\ server' = "closed"

LEMMA ServeEffect ==
  ASSUME Proper, Types, Serve
  PROVE  \E code \in Codes :
           /\ replies' = Append(replies, code) /\ replies' \in Seq(Codes)
           /\ \/ Accepts(Head(commands).word, code) /\ text' = <<>>
              \/ code = 500 /\ UNCHANGED <<server, text>>
<1>0. replies \in Seq(Codes)
  BY DEF Types, TypeOK
<1>1. CASE Answer(500) /\ UNCHANGED <<server, text>>
  <2>1. 500 \in Codes
    BY DEF Codes
  <2> QED BY <1>0, <1>1, <2>1, OneLine
<1>2. CASE /\ \E next \in Transitions :
                /\ next[1] = Head(commands).word
                /\ next[2] = server
                /\ Answer(next[3])
                /\ server' = next[4]
           /\ text' = <<>>
  <2>1. PICK next \in Transitions :
                /\ next[1] = Head(commands).word
                /\ next[2] = server
                /\ Answer(next[3])
                /\ server' = next[4]
    BY <1>2
  <2>2. next[3] \in Codes /\ Accepts(Head(commands).word, next[3])
    BY <2>1 DEF Transitions, Accepts, Codes
  <2>3. replies' = Append(replies, next[3]) /\ replies' \in Seq(Codes)
    BY <1>0, <2>1, <2>2, OneLine
  <2> QED BY <1>2, <2>2, <2>3
<1> QED BY <1>1, <1>2 DEF Serve

\* What the client writes goes to the end of what is on its way.
LEMMA WriteEffect ==
  ASSUME Types, NEW line \in Lines, Write(<<line>>)
  PROVE  /\ commands' \in Seq(Lines)
         /\ server = "closed" => commands' = commands
         /\ server # "closed" => commands' = Append(commands, line)
BY DEF Types, Write

LEMMA TypesFollow ==
  ASSUME Types,
         outbox' = outbox,
         at' \in Waits \cup {"text", "idle", "failed", "gone", "terminated"},
         canSend' \in BOOLEAN,
         canSend' => at' \in {"idle", "QUIT", "gone", "terminated"},
         email' \in Messages \cup {Nobody},
         written' \in Nat,
         commands' \in Seq(Lines),
         replies' \in Seq(Codes),
         server' \in {"new", "idle", "mail", "rcpt", "data", "closed"},
         text' \in Seq(Lines),
         spooled' \in Seq(Seq(Lines)),
         delivered' \subseteq Messages,
         sends' \in 0..MaxSends
  PROVE  Types'
BY LinesOK DEF Types, TypeOK

LEMMA ClientTypes ==
  ASSUME Proper, Types, Calls, Client
  PROVE  Types'
<1> USE DEF Types, TypeOK
<1>1. \A word \in Words : Command(word) \in Lines
  BY CommandLines
<1>2. replies # <<>> => Tail(replies) \in Seq(Codes)
  OBVIOUS
<1>3. ASSUME NEW word \in Words, Write(<<Command(word)>>)
      PROVE  commands' \in Seq(Lines)
  BY <1>1, <1>3, WriteEffect
<1>4. ASSUME UNCHANGED Session
      PROVE  /\ outbox' = outbox
             /\ server' \in {"new", "idle", "mail", "rcpt", "data", "closed"}
             /\ text' \in Seq(Lines)
             /\ spooled' \in Seq(Seq(Lines))
  BY <1>4 DEF Session
<1>5. {"HELO", "MAIL", "RCPT", "DATA", "QUIT", "end"} \subseteq Words
  BY DEF Words
<1>6. Thrown \in {"gone", "terminated", "failed"} /\ (at = "QUIT" => Thrown = "terminated")
  BY DEF Thrown
<1>a. CASE Greeted
  BY <1>a, <1>2, <1>3, <1>4, <1>5, TypesFollow DEF Greeted, Checked, Waits
<1>b. CASE Connected
  BY <1>b, <1>2, <1>4, TypesFollow DEF Connected, Checked, Waits
<1>c. CASE \E m \in Messages : Send(m)
  <2>1. PICK m \in Messages : Send(m)
    BY <1>c
  <2>2. sends' \in 0..MaxSends
    BY <2>1 DEF Send, Proper
  <2> QED BY <2>1, <2>2, <1>3, <1>4, <1>5, TypesFollow DEF Send, Waits
<1>d. CASE MailAccepted
  BY <1>d, <1>2, <1>3, <1>4, <1>5, TypesFollow DEF MailAccepted, Checked, Waits
<1>e. CASE RcptAccepted
  BY <1>e, <1>2, <1>3, <1>4, <1>5, TypesFollow DEF RcptAccepted, Checked, Waits
<1>f. CASE DataAccepted
  BY <1>f, <1>2, <1>4, TypesFollow DEF DataAccepted, Checked
<1>g. CASE WriteText
  <2>1. email \in Messages
    BY <1>g DEF WriteText, Calls
  <2>2. outbox[email] \in Seq(Pieces)
    BY <2>1, TextProps
  <2>3. outbox[email][written + 1] \in Pieces
    BY <1>g, <2>2 DEF WriteText
  <2>4. Line("text", outbox[email][written + 1], email) \in Lines
    BY <2>1, <2>3 DEF Line, Lines, Words
  <2>5. commands' \in Seq(Lines)
    BY <1>g, <2>4, WriteEffect DEF WriteText, WritePiece
  <2> QED BY <1>g, <2>5, <1>4, TypesFollow DEF WriteText, WritePiece
<1>h. CASE TextFails
  BY <1>h, <1>4, TypesFollow DEF TextFails
<1>i. CASE EndText
  BY <1>i, <1>3, <1>4, <1>5, TypesFollow DEF EndText, WriteEnd, Waits
<1>j. CASE Spooled
  <2>1. email \in Messages
    BY <1>j DEF Spooled, Checked, Calls
  <2> QED BY <1>j, <2>1, <1>2, <1>4, TypesFollow DEF Spooled, Checked
<1>k. CASE WrongReply
  <2>1. at \in Waits /\ replies # <<>>
    BY <1>k DEF WrongReply, Waits
  <2> QED BY <1>k, <2>1, <1>2, <1>4, <1>6, TypesFollow DEF WrongReply, Waits
<1>l. CASE NoReply
  BY <1>l, <1>4, <1>6, TypesFollow DEF NoReply, Waits
<1>m. CASE Quit
  BY <1>m, <1>3, <1>4, <1>5, TypesFollow DEF Quit, Waits
<1>n. CASE QuitAccepted
  BY <1>n, <1>2, <1>4, TypesFollow DEF QuitAccepted, Checked
<1> QED BY <1>a, <1>b, <1>c, <1>d, <1>e, <1>f, <1>g, <1>h, <1>i, <1>j, <1>k, <1>l, <1>m,
           <1>n DEF Client

LEMMA ServerTypes ==
  ASSUME Proper, Types, Serve \/ ServeText \/ Drop
  PROVE  Types'
<1> USE DEF Types, TypeOK
<1>1. commands # <<>> => Head(commands) \in Lines /\ Tail(commands) \in Seq(Lines)
  OBVIOUS
<1>2. <<>> \in Seq(Lines)
  OBVIOUS
<1>3. {250, 500} \subseteq Codes
  BY DEF Codes
<1>a. CASE Serve
  <2>1. PICK code \in Codes :
           /\ replies' = Append(replies, code) /\ replies' \in Seq(Codes)
           /\ \/ Accepts(Head(commands).word, code) /\ text' = <<>>
              \/ code = 500 /\ UNCHANGED <<server, text>>
    BY <1>a, ServeEffect
  <2>2. text' \in Seq(Lines)
    BY <2>1, <1>2
  <2>3. server' \in {"new", "idle", "mail", "rcpt", "data", "closed"}
    BY <2>1, Zenon DEF Accepts
  <2> QED BY <1>a, <1>1, <2>1, <2>2, <2>3, TypesFollow DEF Serve
<1>b. CASE ServeText
  <2>1. Append(text, Head(commands)) \in Seq(Lines) /\ Append(spooled, text) \in Seq(Seq(Lines))
    BY <1>b, <1>1 DEF ServeText
  <2>2. replies' \in Seq(Codes)
    BY <1>b, <1>3, OneLine DEF ServeText
  <2> QED BY <1>b, <1>1, <1>2, <2>1, <2>2, TypesFollow DEF ServeText
<1>c. CASE Drop
  BY <1>c, <1>2, TypesFollow DEF Drop
<1> QED BY <1>a, <1>b, <1>c

-----------------------------------------------------------------------------
(***************************************************************************)
(* What is written.                                                        *)
(***************************************************************************)

Commanding == Words \ {"text", "end"}

\* A command ends no text, and says nothing that is not in it.
LEMMA CommandEffect ==
  ASSUME Proper, Types, Sent, NEW word \in Commanding, Write(<<Command(word)>>),
         UNCHANGED Session
  PROVE  /\ Sent'
         /\ Ending' <=> Ending
         /\ Asked' => Asked \/ (word = "DATA" /\ server # "closed")
         /\ Future' = Future
         /\ commands' # <<>> => commands'[Len(commands')].word = word
<1> DEFINE line == Command(word)
<1>0. commands \in Seq(Lines) /\ server' = server
  BY DEF Types, Session
<1>1. line \in Lines /\ line.word = word /\ line.piece = NoPiece
  BY CommandLines DEF Commanding
<1>2. ~Ends(line)
  BY <1>1 DEF Ends, Proper, Commanding
<1>3. commands' = commands \/ (server # "closed" /\ commands' = Append(commands, line))
  BY <1>1, WriteEffect
<1>4. word \notin {"text", "end"}
  BY DEF Commanding
<1> HIDE DEF line
<1>5. CASE commands' = commands
  <2>1. Ending' = Ending /\ Asked' = Asked /\ Sent'
    BY <1>5, <1>0 DEF Ending, Asked, Sent
  <2>2. commands' # <<>> => server # "closed"
    BY <1>5 DEF Sent
  <2>3. commands' = <<>>
    <3> SUFFICES ASSUME commands' # <<>> PROVE FALSE
      OBVIOUS
    <3>1. commands' = commands \o <<line>>
      BY <2>2 DEF Write, line
    <3> QED BY <3>1, <1>0, <1>1, <1>5
  <2> QED BY <1>0, <2>1, <2>3 DEF Future
<1>6. CASE server # "closed" /\ commands' = Append(commands, line)
  <2> DEFINE n == Len(commands) + 1
  <2>0. n \in Nat /\ n \notin DOMAIN commands
    BY <1>0
  <2>1. /\ DOMAIN commands' = DOMAIN commands \cup {n}
        /\ commands'[n] = line
        /\ \A i \in DOMAIN commands : commands'[i] = commands[i]
        /\ Len(commands') = n /\ commands' # <<>>
    BY <1>0, <1>1, <1>6
  <2>2. \A i \in DOMAIN commands : i < n
    BY <1>0
  <2> HIDE DEF n
  <2>3. Ending' <=> Ending
    BY <1>2, <2>1 DEF Ending
  <2>4. Asked' => Asked \/ word = "DATA"
    BY <1>1, <2>1 DEF Asked
  <2>5. Sent'
    BY <1>0, <1>1, <1>4, <1>6, <2>0, <2>1, <2>2 DEF Sent
  <2> QED BY <1>0, <1>1, <1>6, <2>1, <2>3, <2>4, <2>5 DEF Future
<1> QED BY <1>3, <1>5, <1>6

\* What the client writes in the middle of the text.
LEMMA TextEffect ==
  ASSUME Proper, Types, Sent, ~Asked, NEW line \in Lines,
         line.word \in {"text", "end"}, line.word = "end" => line.piece = NoPiece,
         Write(<<line>>), UNCHANGED Session
  PROVE  /\ Sent'
         /\ ~Asked'
         /\ Ending => Ending'
         /\ Ends(line) /\ server # "closed" => Ending'
         /\ Ending' => Ending \/ (Ends(line) /\ server # "closed")
<1>0. commands \in Seq(Lines) /\ server' = server
  BY DEF Types, Session
<1>1. commands' = commands \/ (server # "closed" /\ commands' = Append(commands, line))
  BY WriteEffect
<1>2. server # "closed" => commands' = Append(commands, line)
  BY WriteEffect
<1>3. CASE server = "closed"
  <2>1. commands' = commands
    BY <1>1, <1>3
  <2> QED BY <1>0, <1>3, <2>1 DEF Sent, Ending, Asked
<1>4. CASE server # "closed"
  <2> DEFINE n == Len(commands) + 1
  <2>0. n \in Nat /\ n \notin DOMAIN commands
    BY <1>0
  <2>1. /\ DOMAIN commands' = DOMAIN commands \cup {n}
        /\ commands'[n] = line
        /\ \A i \in DOMAIN commands : commands'[i] = commands[i]
    BY <1>0, <1>2, <1>4
  <2>2. \A i \in DOMAIN commands : i < n
    BY <1>0
  <2> HIDE DEF n
  <2>3. Ending' <=> Ending \/ Ends(line)
    BY <2>1 DEF Ending
  <2>4. ~Asked'
    BY <2>1 DEF Asked
  <2>5. Sent'
    BY <1>0, <1>4, <2>0, <2>1, <2>2, <2>4 DEF Sent, Asked
  <2> QED BY <1>4, <2>3, <2>4, <2>5
<1> QED BY <1>3, <1>4

\* The server takes the first line.
LEMMA TakeEffect ==
  ASSUME Proper, Types, Sent, commands # <<>>, commands' = Tail(commands)
  PROVE  /\ Head(commands) \in Lines /\ commands \in Seq(Lines)
         /\ Len(commands') = Len(commands) - 1 /\ Len(commands) \in Nat
         /\ \A i \in DOMAIN commands' : /\ i \in Nat /\ i + 1 \in DOMAIN commands
                                        /\ commands'[i] = commands[i + 1]
         /\ Ending' => Ending
         /\ Ending => Ending' \/ Ends(Head(commands))
         /\ Asked' => Asked
         /\ Head(commands).word = "DATA" =>
              /\ Asked
              /\ ~Ending'
              /\ \A i \in DOMAIN commands' : commands'[i].word \notin {"text", "end"}
         /\ server # "closed" /\ server' # "closed" => Sent'
<1>0. commands \in Seq(Lines)
  BY DEF Types
<1>1. /\ Head(commands) \in Lines /\ Head(commands) = commands[1] /\ 1 \in DOMAIN commands
      /\ Len(commands') = Len(commands) - 1 /\ Len(commands) \in Nat
      /\ \A i \in DOMAIN commands' : /\ i \in Nat /\ i + 1 \in DOMAIN commands
                                     /\ 1 < i + 1
                                     /\ commands'[i] = commands[i + 1]
      /\ \A i \in DOMAIN commands : i = 1 \/ (i - 1 \in DOMAIN commands' /\ commands'[i - 1] = commands[i])
  BY <1>0
<1>2. Ending' => Ending
  BY <1>1 DEF Ending
<1>3. Ending => Ending' \/ Ends(Head(commands))
  BY <1>1 DEF Ending
<1>4. Asked' => Asked
  BY <1>1 DEF Asked
<1>5. ASSUME Head(commands).word = "DATA"
      PROVE  /\ Asked
             /\ \A i \in DOMAIN commands' : commands'[i].word \notin {"text", "end"}
  BY <1>1, <1>5 DEF Asked, Sent
<1>6. \A i \in DOMAIN commands' : commands'[i].word # "text" => commands'[i].piece = NoPiece
  BY <1>1 DEF Sent
<1>7. \A i, j \in DOMAIN commands' :
       i < j /\ commands'[i].word = "DATA" => commands'[j].word \notin {"text", "end"}
  <2> SUFFICES ASSUME NEW i \in DOMAIN commands', NEW j \in DOMAIN commands', i < j,
                      commands'[i].word = "DATA"
               PROVE  commands'[j].word \notin {"text", "end"}
    OBVIOUS
  <2>1. i + 1 < j + 1
    BY <1>1
  <2> QED BY <1>1, <2>1 DEF Sent
<1>8. server # "closed" /\ server' # "closed" => Sent'
  BY <1>6, <1>7 DEF Sent
<1>9. Head(commands).word = "DATA" => ~Ending'
  BY <1>5, <1>6 DEF Ending, Ends, Proper
<1> QED BY <1>0, <1>1, <1>2, <1>3, <1>4, <1>5, <1>8, <1>9

\* QUIT is the last.
LEMMA QuitKept ==
  ASSUME Proper, Types, Calls, QuitLast, Client
  PROVE  QuitLast'
<1>0. commands \in Seq(Lines)
  BY DEF Types
<1>1. ASSUME NEW line \in Lines, Write(<<line>>),
             line.word = "QUIT" => at' = "QUIT",
             at \notin {"QUIT", "gone", "terminated"}
      PROVE  QuitLast'
  <2>1. commands' = commands \/ commands' = Append(commands, line)
    BY <1>1, WriteEffect
  <2>2. \A i \in DOMAIN commands : commands[i].word # "QUIT"
    BY <1>1 DEF QuitLast
  <2> QED BY <1>0, <1>1, <2>1, <2>2 DEF QuitLast
<1>2. ASSUME UNCHANGED commands,
             at \in {"QUIT", "gone", "terminated"} => at' \in {"QUIT", "gone", "terminated"}
      PROVE  QuitLast'
  BY <1>2 DEF QuitLast
<1>3. \A word \in {"HELO", "MAIL", "RCPT", "DATA", "QUIT", "end"} :
        Command(word) \in Lines /\ Command(word).word = word
  BY CommandLines DEF Words
<1>a. CASE Greeted
  BY <1>a, <1>1, <1>3 DEF Greeted, Checked
<1>b. CASE Connected
  BY <1>b, <1>2 DEF Connected, Checked
<1>c. CASE \E m \in Messages : Send(m)
  BY <1>c, <1>1, <1>3 DEF Send
<1>d. CASE MailAccepted
  BY <1>d, <1>1, <1>3 DEF MailAccepted, Checked
<1>e. CASE RcptAccepted
  BY <1>e, <1>1, <1>3 DEF RcptAccepted, Checked
<1>f. CASE DataAccepted
  BY <1>f, <1>2 DEF DataAccepted, Checked
<1>g. CASE WriteText
  <2>1. at = "text" /\ email \in Messages /\ outbox \in Outboxes
        /\ Write(<<Line("text", outbox[email][written + 1], email)>>)
    BY <1>g DEF WriteText, WritePiece, Calls, Types, TypeOK
  <2>2. outbox[email] \in Seq(Pieces)
    BY <2>1, TextProps
  <2>3. outbox[email][written + 1] \in Pieces
    BY <1>g, <2>2 DEF WriteText, Types, TypeOK
  <2>4. Line("text", outbox[email][written + 1], email) \in Lines
    BY <2>1, <2>3 DEF Line, Lines, Words
  <2>5. Line("text", outbox[email][written + 1], email).word = "text"
    BY DEF Line
  <2> QED BY <1>1, <2>1, <2>4, <2>5
<1>h. CASE TextFails
  BY <1>h, <1>2 DEF TextFails
<1>i. CASE EndText
  BY <1>i, <1>1, <1>3 DEF EndText, WriteEnd
<1>j. CASE Spooled
  BY <1>j, <1>2 DEF Spooled, Checked
<1>k. CASE WrongReply
  BY <1>k, <1>2 DEF WrongReply, Thrown
<1>l. CASE NoReply
  BY <1>l, <1>2 DEF NoReply, Thrown, Waits
<1>m. CASE Quit
  <2>1. CASE canSend
    BY <1>m, <1>1, <1>3, <2>1 DEF Quit
  <2>2. CASE ~canSend
    BY <1>m, <1>2, <2>2 DEF Quit
  <2> QED BY <2>1, <2>2
<1>n. CASE QuitAccepted
  BY <1>n, <1>2 DEF QuitAccepted, Checked
<1> QED BY <1>a, <1>b, <1>c, <1>d, <1>e, <1>f, <1>g, <1>h, <1>i, <1>j, <1>k, <1>l, <1>m,
           <1>n DEF Client

-----------------------------------------------------------------------------
(***************************************************************************)
(* What is replied.                                                        *)
(***************************************************************************)

\* The client takes the first reply.
LEMMA ReplyTaken ==
  ASSUME Types, replies # <<>>, replies' = Tail(replies)
  PROVE  /\ Head(replies) \in Codes /\ replies \in Seq(Codes) /\ replies' \in Seq(Codes)
         /\ Head(replies) = replies[1] /\ 1 \in DOMAIN replies
         /\ Len(replies) \in Nat /\ Len(replies) >= 1 /\ Len(replies') = Len(replies) - 1
         /\ \A i \in DOMAIN replies' : i + 1 \in DOMAIN replies /\ replies'[i] = replies[i + 1]
         /\ Ready' => Ready
         /\ Head(replies) = 354 => Ready
         /\ Count(replies) \in Nat /\ Count(replies') \in Nat
         /\ Head(replies) = 250 => Count(replies') = Count(replies) - 1
         /\ Head(replies) # 250 => Count(replies') = Count(replies)
<1>1. replies \in Seq(Codes)
  BY DEF Types, TypeOK
<1>2. /\ Head(replies) \in Codes /\ Tail(replies) \in Seq(Codes)
      /\ Head(replies) = replies[1] /\ 1 \in DOMAIN replies
      /\ Len(replies) \in Nat /\ Len(replies) >= 1 /\ Len(replies') = Len(replies) - 1
      /\ \A i \in DOMAIN replies' : i + 1 \in DOMAIN replies /\ replies'[i] = replies[i + 1]
  BY <1>1
<1>3. (Ready' => Ready) /\ (Head(replies) = 354 => Ready)
  BY <1>2 DEF Ready
<1>4. Count(replies) \in Nat /\ Count(Tail(replies)) \in Nat
  BY <1>1, <1>2, CountNat
<1>5. Count(replies) = IF Head(replies) = 250 THEN Count(Tail(replies)) + 1 ELSE Count(Tail(replies))
  BY <1>1, CountTail
<1>6. Count(Tail(replies)) = Count(replies')
  OBVIOUS
<1> QED BY <1>1, <1>2, <1>3, <1>4, <1>5, <1>6

\* The server adds one.
LEMMA ReplyGiven ==
  ASSUME Types, NEW code \in Codes, replies' = Append(replies, code)
  PROVE  /\ replies \in Seq(Codes) /\ Len(replies) \in Nat /\ Len(replies') = Len(replies) + 1
         /\ \A i \in DOMAIN replies : replies'[i] = replies[i]
         /\ DOMAIN replies' = DOMAIN replies \cup {Len(replies) + 1}
         /\ replies'[Len(replies) + 1] = code
         /\ Ready' <=> Ready \/ code = 354
         /\ Count(replies) \in Nat /\ Count(replies') \in Nat
         /\ code = 250 => Count(replies') = Count(replies) + 1
         /\ code # 250 => Count(replies') = Count(replies)
<1>1. replies \in Seq(Codes)
  BY DEF Types, TypeOK
<1>2. /\ Len(replies) \in Nat /\ Len(replies') = Len(replies) + 1
      /\ \A i \in DOMAIN replies : replies'[i] = replies[i]
      /\ DOMAIN replies' = DOMAIN replies \cup {Len(replies) + 1}
      /\ replies'[Len(replies) + 1] = code
      /\ replies' \in Seq(Codes)
  BY <1>1
<1>3. Ready' <=> Ready \/ code = 354
  BY <1>2 DEF Ready
<1>4. Count(replies) \in Nat /\ Count(replies') \in Nat
  BY <1>1, <1>2, CountNat
<1>5. Count(Append(replies, code)) = IF code = 250 THEN Count(replies) + 1 ELSE Count(replies)
  BY <1>1, CountAppend
<1> QED BY <1>1, <1>2, <1>3, <1>4, <1>5

LEMMA Sums == \A c, f \in Nat : c = 0 /\ f <= 3 => c + f \in Nat /\ c + f <= 3
OBVIOUS

LEMMA BudgetNat ==
  ASSUME Types
  PROVE  Budget \in Nat /\ Count(replies) \in Nat /\ Future \in 0..3
<1>1. Count(replies) \in Nat
  BY CountNat DEF Types, TypeOK
<1>2. Future \in 0..3
  BY DEF Future
<1> QED BY <1>1, <1>2 DEF Budget

\* Nothing of the server's has changed.
LEMMA Quiet ==
  ASSUME UNCHANGED Session, UNCHANGED commands, Types, Sent
  PROVE  /\ Sent'
         /\ Ending' <=> Ending
         /\ Asked' <=> Asked
         /\ Future' = Future
BY DEF Session, Sent, Ending, Asked, Future

LEMMA Unspoken ==
  ASSUME UNCHANGED replies
  PROVE  (Ready' <=> Ready) /\ Count(replies') = Count(replies) /\ Len(replies') = Len(replies)
BY DEF Ready

-----------------------------------------------------------------------------
(***************************************************************************)
(* The client's steps: what it counts on.                                  *)
(***************************************************************************)

\* The client says word, or nothing, and its server does not move.
Says(word) == word \in Commanding /\ Write(<<Command(word)>>)
Speaks == (\E word \in Commanding \ {"DATA"} : Says(word)) \/ UNCHANGED commands
Hears == (replies # <<>> /\ replies' = Tail(replies)) \/ UNCHANGED replies

LEMMA SpeaksEffect ==
  ASSUME Proper, Types, Sent, UNCHANGED Session, Speaks
  PROVE  /\ Sent'
         /\ Ending' <=> Ending
         /\ Asked' => Asked
         /\ Future' = Future
<1>1. CASE UNCHANGED commands
  BY <1>1, Quiet
<1>2. ASSUME NEW word \in Commanding \ {"DATA"}, Says(word)
      PROVE  /\ Sent' /\ (Ending' <=> Ending) /\ (Asked' => Asked) /\ Future' = Future
  BY <1>2, CommandEffect DEF Says
<1> QED BY <1>1, <1>2 DEF Speaks

LEMMA HearsEffect ==
  ASSUME Types, Hears
  PROVE  /\ Ready' => Ready
         /\ Count(replies) \in Nat /\ Count(replies') \in Nat
         /\ Count(replies') <= Count(replies)
         /\ replies # <<>> /\ replies' = Tail(replies) /\ Head(replies) = 250 =>
              Count(replies') = Count(replies) - 1
<1>1. CASE replies # <<>> /\ replies' = Tail(replies)
  BY <1>1, ReplyTaken
<1>2. CASE UNCHANGED replies
  <2>1. Count(replies) \in Nat
    BY CountNat DEF Types, TypeOK
  <2>2. (Ready' <=> Ready) /\ Count(replies') = Count(replies)
    BY <1>2, Unspoken
  <2>3. ~(replies # <<>> /\ replies' = Tail(replies))
    <3>1. replies \in Seq(Codes)
      BY DEF Types, TypeOK
    <3>2. replies # <<>> => Len(Tail(replies)) = Len(replies) - 1 /\ Len(replies) \in Nat
      BY <3>1
    <3> QED BY <1>2, <3>2
  <2> QED BY <2>1, <2>2, <2>3
<1> QED BY <1>1, <1>2 DEF Hears

\* A step of the client's that asks for no text leaves the count as it was or takes
\* from it.
LEMMA BudgetSpeaks ==
  ASSUME Proper, Types, Sent, UNCHANGED Session, Speaks, Hears
  PROVE  /\ Budget \in Nat /\ Budget' \in Nat
         /\ Budget' <= Budget
         /\ replies # <<>> /\ replies' = Tail(replies) /\ Head(replies) = 250 =>
              Budget' = Budget - 1
         /\ Open' => Open
<1>1. Future' = Future /\ Future \in Nat
  BY SpeaksEffect DEF Future
<1>2. (Ending' <=> Ending) /\ (Asked' => Asked) /\ server' = server
  BY SpeaksEffect DEF Session
<1>3. /\ Count(replies) \in Nat /\ Count(replies') \in Nat
      /\ Count(replies') <= Count(replies)
      /\ replies # <<>> /\ replies' = Tail(replies) /\ Head(replies) = 250 =>
           Count(replies') = Count(replies) - 1
      /\ Ready' => Ready
  BY HearsEffect
<1>4. Open' => Open
  BY <1>2, <1>3 DEF Open
<1>5. Budget' = Count(replies') + Future' /\ Budget = Count(replies) + Future
  BY DEF Budget
<1> QED BY <1>1, <1>3, <1>4, <1>5

\* The steps that neither go on with a text nor lead to one.
Plain ==
  \/ Greeted \/ Connected \/ \E m \in Messages : Send(m)
  \/ TextFails \/ Spooled \/ WrongReply \/ NoReply \/ Quit \/ QuitAccepted

LEMMA PlainEffect ==
  ASSUME Types, Plain
  PROVE  /\ UNCHANGED Session
         /\ Speaks
         /\ Hears
         /\ at' \in {"HELO", "idle", "MAIL", "QUIT", "gone", "terminated", "failed"}
<1> USE DEF Hears
<1>0. {"HELO", "MAIL", "QUIT"} \subseteq Commanding \ {"DATA"}
  BY DEF Commanding, Words
<1>1. ASSUME NEW word \in {"HELO", "MAIL", "QUIT"}, Write(<<Command(word)>>) PROVE Speaks
  BY <1>0, <1>1 DEF Speaks, Says
<1>2. UNCHANGED commands => Speaks
  BY DEF Speaks
<1>3. Thrown \in {"gone", "terminated", "failed"}
  BY DEF Thrown
<1>a. CASE Greeted
  BY <1>a, <1>1 DEF Greeted, Checked
<1>b. CASE Connected
  BY <1>b, <1>2 DEF Connected, Checked
<1>c. CASE \E m \in Messages : Send(m)
  BY <1>c, <1>1 DEF Send
<1>h. CASE TextFails
  BY <1>h, <1>2 DEF TextFails
<1>j. CASE Spooled
  BY <1>j, <1>2 DEF Spooled, Checked
<1>k. CASE WrongReply
  BY <1>k, <1>2, <1>3 DEF WrongReply
<1>l. CASE NoReply
  BY <1>l, <1>2, <1>3 DEF NoReply
<1>m. CASE Quit
  BY <1>m, <1>1, <1>2 DEF Quit
<1>n. CASE QuitAccepted
  BY <1>n, <1>2 DEF QuitAccepted, Checked
<1> QED BY <1>a, <1>b, <1>c, <1>h, <1>j, <1>k, <1>l, <1>m, <1>n DEF Plain

\* Outside of a text, what is open is counted.
LEMMA OpenCounts ==
  ASSUME Types, Budgeted, AtText, Open
  PROVE  Budget <= 1
<1>1. CASE at # "text"
  <2>1. at = "DATA" => Budget <= 1
    BY DEF Budgeted
  <2> QED BY <1>1, <2>1 DEF Budgeted
<1>2. CASE at = "text"
  <2>1. server = "data" /\ ~Ending /\ replies = <<>>
    BY <1>2 DEF AtText, Open
  <2>2. Count(replies) = 0 /\ Future = 0
    BY <2>1, CountEmpty DEF Future
  <2> QED BY <2>2 DEF Budget
<1> QED BY <1>1, <1>2

LEMMA PlainBudget ==
  ASSUME Proper, Types, Sent, Budgeted, AtText, Plain
  PROVE  Budgeted' /\ Sent'
<1>1. /\ Budget \in Nat /\ Budget' \in Nat
      /\ Budget' <= Budget
      /\ Open' => Open
      /\ at' \in {"HELO", "idle", "MAIL", "QUIT", "gone", "terminated", "failed"}
  BY PlainEffect, BudgetSpeaks
<1>2. Sent'
  BY PlainEffect, SpeaksEffect
<1>3. Open => Budget <= 1
  BY OpenCounts
<1>4. Budget <= 3
  BY DEF Budgeted
<1> QED BY <1>1, <1>2, <1>3, <1>4 DEF Budgeted

\* The next command, once the server has accepted one.
LEMMA MailAcceptedBudget ==
  ASSUME Proper, Types, Sent, Budgeted, MailAccepted
  PROVE  Budgeted' /\ Sent'
<1>1. UNCHANGED Session /\ Speaks /\ Hears
  BY DEF MailAccepted, Checked, Speaks, Says, Hears, Commanding, Words
<1>2. /\ Budget \in Nat /\ Budget' \in Nat
      /\ Budget' = Budget - 1
      /\ Open' => Open
  BY <1>1, BudgetSpeaks DEF MailAccepted, Checked
<1>3. at = "MAIL" /\ at' = "RCPT" /\ Sent'
  BY <1>1, SpeaksEffect DEF MailAccepted, Checked
<1> QED BY <1>2, <1>3 DEF Budgeted

LEMMA RcptAcceptedBudget ==
  ASSUME Proper, Types, Sent, Budgeted, RcptAccepted
  PROVE  /\ Budgeted' /\ Sent'
         /\ ~Open
         /\ Hears /\ server # "data"
<1>1. "DATA" \in Commanding /\ UNCHANGED Session
  BY DEF RcptAccepted, Commanding, Words
<1>2. Sent' /\ (Ending' <=> Ending) /\ Future' = Future
  BY <1>1, CommandEffect DEF RcptAccepted
<1>3. /\ Count(replies) \in Nat /\ Count(replies') \in Nat
      /\ Count(replies') = Count(replies) - 1
  BY ReplyTaken DEF RcptAccepted, Checked
<1>4. Future \in Nat /\ Budget' = Count(replies') + Future' /\ Budget = Count(replies) + Future
  BY DEF Budget, Future
<1>5. at = "RCPT" /\ at' = "DATA" /\ Hears
  BY DEF RcptAccepted, Checked, Hears
<1>6. Budget <= 2 /\ Budget >= 1
  BY <1>3, <1>4, <1>5 DEF Budgeted
<1>7. ~Open
  BY <1>5, <1>6, BudgetNat DEF Budgeted
<1>8. Budget' \in Nat /\ Budget' <= 1
  BY <1>2, <1>3, <1>4, <1>6
<1>9. server # "data"
  <2>1. server = "data" => Ending
    BY <1>7 DEF Open
  <2>2. server = "data" => Future = 3
    BY <2>1 DEF Future
  <2> QED BY <2>2, <1>3, <1>4, <1>6
<1> QED BY <1>2, <1>5, <1>7, <1>8, <1>9 DEF Budgeted

LEMMA DataAcceptedBudget ==
  ASSUME Proper, Types, Sent, Budgeted, DataAccepted
  PROVE  Budgeted' /\ Sent' /\ UNCHANGED Session /\ Speaks /\ Hears
<1>1. UNCHANGED Session /\ Speaks /\ Hears
  BY DEF DataAccepted, Checked, Speaks, Hears
<1>2. Budget \in Nat /\ Budget' \in Nat /\ Budget' <= Budget
  BY <1>1, BudgetSpeaks
<1>3. at = "DATA" /\ at' = "text" /\ Sent'
  BY <1>1, SpeaksEffect DEF DataAccepted, Checked
<1> QED BY <1>1, <1>2, <1>3 DEF Budgeted

-----------------------------------------------------------------------------
(***************************************************************************)
(* The client's steps: where it waits.                                     *)
(***************************************************************************)

LEMMA RcptAcceptedData ==
  ASSUME Proper, Types, Sent, Budgeted, RcptAccepted
  PROVE  AtData'
<1>1. ~Open /\ server # "data" /\ ~Ready /\ ~Asked
  BY RcptAcceptedBudget DEF Open
<1>2. ~Ready'
  BY <1>1, ReplyTaken DEF RcptAccepted, Checked
<1>3. server' # "data"
  BY <1>1 DEF RcptAccepted, Session
<1>4. commands \in Seq(Lines) /\ Command("DATA") \in Lines
  BY CommandLines DEF Types, Words
<1>5. commands' = commands \/ commands' = Append(commands, Command("DATA"))
  BY <1>4, WriteEffect DEF RcptAccepted
<1>6. \A i \in DOMAIN commands' : commands'[i].word = "DATA" => i = Len(commands')
  BY <1>1, <1>4, <1>5 DEF Asked
<1> QED BY <1>2, <1>3, <1>6 DEF AtData, Ready

\* Once the answer to DATA has come, there is no other.
LEMMA DataAcceptedText ==
  ASSUME Proper, Types, Sent, Calls, AtData, Late, DataAccepted
  PROVE  AtText' /\ commands = <<>> /\ Len(replies) = 1
<1>1. at = "DATA" /\ Head(replies) = 354 /\ replies # <<>> /\ replies' = Tail(replies)
  BY DEF DataAccepted, Checked
<1>2. replies \in Seq(Codes) /\ 1 \in DOMAIN replies /\ Head(replies) = replies[1]
  BY <1>1, ReplyTaken
<1>3. 1 = Len(replies) /\ commands = <<>> /\ server \in {"data", "closed"} /\ text = <<>>
  <2>1. \A i \in DOMAIN replies : replies[i] = 354 =>
         /\ i = Len(replies)
         /\ commands = <<>> /\ server \in {"data", "closed"} /\ text = <<>>
    BY <1>1 DEF AtData
  <2>2. replies[1] = 354
    BY <1>1, <1>2
  <2> QED BY <1>2, <2>1, <2>2, Zenon
<1>4. replies' = <<>>
  BY <1>1, <1>2, <1>3
<1>5. /\ UNCHANGED <<outbox, server, text, spooled>> /\ commands' = <<>> /\ email' = email
      /\ written' = 0 /\ email \in Messages /\ email \notin delivered
  BY <1>1, <1>3 DEF DataAccepted, Session, Calls
<1>6. ~Ready' /\ ~Asked'
  BY <1>4, <1>5 DEF Ready, Asked
<1>7. Text(email) \in Seq(Lines) /\ Len(outbox[email]) \in Nat
  BY <1>5, TextProps DEF Types, TypeOK
<1>8. Flow' = SubSeq(Text(email), 1, 0)
  BY <1>3, <1>5, <1>7 DEF Flow
<1>9. email \notin Dotted => server = "closed" \/ ~InSpool(email)
  <2>1. Pending = 1
    BY <1>3 DEF Pending
  <2>2. ~Behind(email)
    BY <1>1, <1>3, <2>1 DEF Behind
  <2> QED BY <1>5, <2>2 DEF Late
<1>10. Text(email)' = Text(email) /\ Dotted' = Dotted /\ (InSpool(email)' <=> InSpool(email))
  BY <1>5, TextKept DEF InSpool
<1> QED BY <1>3, <1>4, <1>5, <1>6, <1>7, <1>8, <1>9, <1>10 DEF AtText

-----------------------------------------------------------------------------
(***************************************************************************)
(* The client's steps: writing the text.                                   *)
(***************************************************************************)

LEMMA ConcatAppend ==
  ASSUME NEW s \in Seq(Lines), NEW u \in Seq(Lines), NEW line \in Lines
  PROVE  s \o Append(u, line) = Append(s \o u, line) /\ s \o u \in Seq(Lines)
OBVIOUS

LEMMA NextOfPrefix ==
  ASSUME NEW s \in Seq(Lines), NEW n \in Nat, n < Len(s)
  PROVE  /\ Append(SubSeq(s, 1, n), s[n + 1]) = SubSeq(s, 1, n + 1)
         /\ Len(SubSeq(s, 1, n)) = n
         /\ \A i \in 1..n : SubSeq(s, 1, n)[i] = s[i]
<1>1. Len(SubSeq(s, 1, n)) = n /\ Len(SubSeq(s, 1, n + 1)) = n + 1
  OBVIOUS
<1>2. \A i \in 1..n : SubSeq(s, 1, n)[i] = s[i]
  OBVIOUS
<1>3. \A i \in 1..(n + 1) : SubSeq(s, 1, n + 1)[i] = s[i]
  OBVIOUS
<1>4. SubSeq(s, 1, n) \in Seq(Lines) /\ SubSeq(s, 1, n + 1) \in Seq(Lines)
  OBVIOUS
<1> QED BY <1>1, <1>2, <1>3, <1>4

LEMMA WholePrefix ==
  ASSUME NEW s \in Seq(Lines), NEW n \in 0..Len(s)
  PROVE  /\ SubSeq(s, 1, n) \in Seq(Lines) /\ Len(SubSeq(s, 1, n)) = n
         /\ \A i \in 1..n : SubSeq(s, 1, n)[i] = s[i]
         /\ SubSeq(s, 1, Len(s)) = s
<1>1. SubSeq(s, 1, n) \in Seq(Lines) /\ Len(SubSeq(s, 1, n)) = n
  OBVIOUS
<1>2. \A i \in 1..n : SubSeq(s, 1, n)[i] = s[i]
  OBVIOUS
<1>3. SubSeq(s, 1, Len(s)) = s
  OBVIOUS
<1> QED BY <1>1, <1>2, <1>3

\* A client in a text has no message behind.
LEMMA NoneBehind ==
  ASSUME Late, at = "text", server # "closed"
  PROVE  \A m \in Messages \ Dotted : m \in delivered \/ ~InSpool(m)
<1>1. \A m \in Messages : ~Behind(m)
  BY DEF Behind
<1> QED BY <1>1 DEF Late

\* The text and what the server has are as they were.
LEMMA SpoolKept ==
  ASSUME UNCHANGED <<outbox, spooled>>
  PROVE  /\ \A m \in Messages : Text(m)' = Text(m) /\ (InSpool(m)' <=> InSpool(m))
         /\ Dotted' = Dotted
         /\ SpooledOnce => SpooledOnce'
         /\ NothingPartial => NothingPartial'
         /\ delivered' = delivered /\ ReturnedMeansSpooled => ReturnedMeansSpooled'
<1>1. \A m \in Messages : Text(m)' = Text(m)
  BY TextKept
<1>2. Dotted' = Dotted /\ Dotted \subseteq Messages
  BY TextKept DEF Dotted
<1>3. \A m \in Messages : InSpool(m)' <=> InSpool(m)
  BY <1>1 DEF InSpool
<1>4. SpooledOnce => SpooledOnce'
  BY <1>1, <1>2 DEF SpooledOnce
<1>5. NothingPartial => NothingPartial'
  BY <1>1, <1>2 DEF NothingPartial
<1>6. ASSUME delivered' = delivered, ReturnedMeansSpooled
      PROVE  ReturnedMeansSpooled'
  <2>1. ReturnedMeansSpooled' <=> \A m \in delivered \ Dotted : \E i \in DOMAIN spooled : spooled[i] = Text(m)'
    BY <1>2, <1>6 DEF ReturnedMeansSpooled
  <2>2. \A m : Text(m)' = Text(m)
    BY DEF Text
  <2> QED BY <1>6, <2>1, <2>2 DEF ReturnedMeansSpooled
<1> QED BY <1>1, <1>2, <1>3, <1>4, <1>5, <1>6

LEMMA WriteTextEffect ==
  ASSUME Proper, Types, Sent, Calls, AtText, WriteText
  PROVE  LET line == Text(email)[written + 1] IN
         /\ at = "text" /\ at' = "text" /\ email \in Messages /\ written' = written + 1
         /\ written \in Nat /\ written < Len(outbox[email])
         /\ line \in Lines /\ line.word = "text" /\ Write(<<line>>)
         /\ Ends(line) => email \in Dotted
         /\ UNCHANGED Session
         /\ UNCHANGED <<outbox, server, text, spooled, replies, email, delivered>>
         /\ ~Asked /\ ~Ready
<1>1. /\ at = "text" /\ at' = "text" /\ email \in Messages /\ written' = written + 1
      /\ written \in Nat /\ written < Len(outbox[email])
      /\ Write(<<Line("text", outbox[email][written + 1], email)>>)
      /\ UNCHANGED Session
      /\ UNCHANGED <<outbox, server, text, spooled, replies, email, delivered>>
      /\ ~Asked /\ ~Ready
  BY DEF WriteText, WritePiece, Session, Calls, AtText, Types, TypeOK
<1>2. Len(outbox[email]) \in Nat /\ Text(email) \in Seq(Lines) /\ Len(Text(email)) = Len(outbox[email])
  BY <1>1, TextProps DEF Types, TypeOK
<1>3. written + 1 \in 1..Len(outbox[email])
  BY <1>1, <1>2
<1>4. /\ Text(email)[written + 1] = Line("text", outbox[email][written + 1], email)
      /\ Text(email)[written + 1].word = "text"
      /\ Ends(Text(email)[written + 1]) => email \in Dotted
  BY <1>1, <1>3, TextProps DEF Types, TypeOK
<1>5. Text(email)[written + 1] \in Lines
  BY <1>2, <1>3
<1> QED BY <1>1, <1>4, <1>5, Zenon

LEMMA WriteTextKeeps ==
  ASSUME Proper, IInv, Types', WriteText
  PROVE  IInv'
<1> DEFINE line == Text(email)[written + 1]
<1>0. Types /\ Sent /\ Calls /\ AtText /\ Budgeted /\ Late /\ SpooledOnce /\ NothingPartial
      /\ ReturnedMeansSpooled
  BY DEF IInv
<1>1. /\ at = "text" /\ at' = "text" /\ email \in Messages /\ written' = written + 1
      /\ written \in Nat /\ written < Len(outbox[email])
      /\ line \in Lines /\ line.word = "text" /\ Write(<<line>>)
      /\ Ends(line) => email \in Dotted
      /\ UNCHANGED Session
      /\ UNCHANGED <<outbox, server, text, spooled, replies, email, delivered>>
      /\ ~Asked /\ ~Ready
  BY <1>0, WriteTextEffect
<1>2. line = Text(email)[written + 1]
  OBVIOUS
<1> HIDE DEF line
<1>3. /\ Sent' /\ ~Asked'
      /\ Ending => Ending'
      /\ Ending' => Ending \/ (Ends(line) /\ server # "closed")
  BY <1>0, <1>1, TextEffect
<1>4. /\ commands \in Seq(Lines) /\ text \in Seq(Lines)
      /\ server = "closed" => commands' = commands
      /\ server # "closed" => commands' = Append(commands, line)
  BY <1>0, <1>1, WriteEffect DEF Types
<1>5. ~Ready' /\ Count(replies') = Count(replies)
  BY <1>1, Unspoken
<1>6. /\ Text(email) \in Seq(Lines) /\ Len(Text(email)) = Len(outbox[email])
      /\ Len(outbox[email]) \in Nat
  BY <1>0, <1>1, TextProps DEF Types, TypeOK
<1>7. \A m \in Messages : Text(m)' = Text(m) /\ (InSpool(m)' <=> InSpool(m))
  BY <1>1, SpoolKept
<1>7a. Dotted' = Dotted
  BY <1>1, SpoolKept
<1>8. Text(email)' = Text(email) /\ (InSpool(email)' <=> InSpool(email))
  BY <1>1, <1>7
<1>9. ASSUME server = "data"
      PROVE  /\ replies' = <<>>
             /\ Flow' = SubSeq(Text(email), 1, written + 1)
             /\ email \notin Dotted => ~InSpool(email)
  <2>1. /\ replies = <<>>
        /\ Flow = SubSeq(Text(email), 1, written)
        /\ email \notin Dotted => ~InSpool(email)
    BY <1>0, <1>1, <1>9 DEF AtText
  <2>2. Flow' = Append(Flow, line)
    <3>1. text' = text /\ commands' = Append(commands, line)
      BY <1>1, <1>4, <1>9
    <3>2. text \o Append(commands, line) = Append(text \o commands, line)
      BY <1>1, <1>4, ConcatAppend
    <3> QED BY <3>1, <3>2, Zenon DEF Flow
  <2>3. Append(SubSeq(Text(email), 1, written), line) = SubSeq(Text(email), 1, written + 1)
    BY <1>1, <1>2, <1>6, NextOfPrefix
  <2> QED BY <1>1, <2>1, <2>2, <2>3
<1>10. AtText'
  <2>1. written' \in 0..Len(outbox[email])
    BY <1>1, <1>6
  <2>2. CASE server = "closed"
    BY <1>0, <1>1, <1>3, <1>5, <1>7a, <2>1, <2>2 DEF AtText
  <2>3. CASE server = "data"
    BY <1>1, <1>3, <1>5, <1>7a, <1>8, <1>9, <2>1, <2>3 DEF AtText
  <2>4. CASE server = "idle" /\ email \in Dotted /\ \A i \in DOMAIN commands : commands[i].word = "text"
    <3>1. \A i \in DOMAIN commands' : commands'[i].word = "text"
      BY <1>1, <1>4, <2>4
    <3> QED BY <1>1, <1>3, <1>5, <1>7a, <2>1, <2>4, <3>1 DEF AtText
  <2> QED BY <1>0, <1>1, <2>2, <2>3, <2>4 DEF AtText
<1>11. Budgeted'
  <2>1. Budget \in Nat /\ Budget <= 3 /\ Future \in 0..3 /\ Count(replies) \in Nat
    BY <1>0, BudgetNat DEF Budgeted
  <2>2. Budget' \in Nat /\ Budget' <= 3
    <3>1. CASE server = "data"
      <4>1. Count(replies') = 0 /\ Count(replies') \in Nat
        BY <3>1, <1>9, CountEmpty
      <4>2. Future' \in Nat /\ Future' <= 3
        BY DEF Future
      <4>3. Budget' = Count(replies') + Future'
        BY DEF Budget
      <4> QED BY <4>1, <4>2, <4>3, Sums
    <3>2. CASE server # "data"
      <4>1. Future' = Future
        BY <1>1, <3>2 DEF Future
      <4>2. Budget' = Count(replies') + Future' /\ Budget = Count(replies) + Future
        BY DEF Budget
      <4> QED BY <1>5, <2>1, <4>1, <4>2
    <3> QED BY <3>1, <3>2
  <2> QED BY <1>1, <2>2 DEF Budgeted
<1>12. Stream'
  <2> SUFFICES ASSUME server = "data" PROVE Stream'
    BY <1>1 DEF Stream
  <2>1. \A i \in DOMAIN text' : ~Ends(text'[i])
    BY <1>0, <1>1 DEF IInv, Stream
  <2>2. Flow' = SubSeq(Text(email), 1, written + 1)
    BY <1>9
  <2>3. written + 1 \in 0..Len(Text(email))
    BY <1>1, <1>6
  <2>4. Len(Flow') = written + 1 /\ \A i \in 1..(written + 1) : Flow'[i] = Text(email)[i]
    BY <1>6, <2>2, <2>3, WholePrefix
  <2>5. Begun(email, written)'
    BY <1>1, <1>6, <1>7a, <1>8, <1>9, <2>3, <2>4 DEF Begun
  <2>6. email' \in Messages /\ written' \in Nat
    BY <1>1
  <2> QED BY <1>1, <2>1, <2>5, <2>6 DEF Stream
<1>13. Late'
  <2> SUFFICES ASSUME server # "closed"
               PROVE  \A m \in Messages \ Dotted : m \in delivered' \/ ~InSpool(m)'
    BY <1>1, <1>7a DEF Late
  <2> QED BY <1>0, <1>1, <1>7, NoneBehind
<1>14. Calls'
  BY <1>0, <1>1, <1>3 DEF Calls, Proper
<1>15. AtData' /\ AtEnd'
  BY <1>1 DEF AtData, AtEnd
<1>16. SpooledOnce' /\ NothingPartial' /\ ReturnedMeansSpooled'
  BY <1>0, <1>1, SpoolKept
<1>q. QuitLast'
  BY QuitKept DEF IInv, Client, Plain
<1> QED BY <1>3, <1>10, <1>11, <1>12, <1>13, <1>14, <1>15, <1>16, <1>q DEF IInv

LEMMA EndTextKeeps ==
  ASSUME Proper, IInv, Types', EndText
  PROVE  IInv'
<1> DEFINE line == Command("end")
<1>0. Types /\ Sent /\ Calls /\ AtText /\ Budgeted /\ Late /\ SpooledOnce /\ NothingPartial
      /\ ReturnedMeansSpooled /\ Stream
  BY DEF IInv
<1>1. /\ at = "text" /\ at' = "end" /\ email \in Messages /\ email \notin delivered
      /\ written = Len(outbox[email]) /\ Write(<<line>>)
      /\ UNCHANGED Session
      /\ UNCHANGED <<outbox, server, text, spooled, replies, email, delivered>>
      /\ ~Asked /\ ~Ready
  BY <1>0 DEF EndText, WriteEnd, Session, Calls, AtText
<1>2. line \in Lines /\ line.word = "end" /\ line.piece = NoPiece
  BY CommandLines DEF Words
<1>2a. line = Command("end")
  OBVIOUS
<1> HIDE DEF line
<1>3. Ends(line)
  BY <1>2 DEF Ends
<1>4. /\ Sent' /\ ~Asked'
      /\ server # "closed" => Ending'
  BY <1>0, <1>1, <1>2, <1>3, TextEffect
<1>5. /\ commands \in Seq(Lines) /\ text \in Seq(Lines)
      /\ server = "closed" => commands' = commands
      /\ server # "closed" => commands' = Append(commands, line)
  BY <1>0, <1>1, <1>2, WriteEffect DEF Types
<1>6. ~Ready' /\ Count(replies') = Count(replies)
  BY <1>1, Unspoken
<1>7. /\ Text(email) \in Seq(Lines) /\ Len(Text(email)) = Len(outbox[email])
      /\ Len(outbox[email]) \in Nat
      /\ \A i \in 1..Len(outbox[email]) : Text(email)[i].word = "text"
  BY <1>0, <1>1, TextProps DEF Types, TypeOK
<1>8. \A m \in Messages : Text(m)' = Text(m) /\ (InSpool(m)' <=> InSpool(m))
  BY <1>1, SpoolKept
<1>9. Dotted' = Dotted
  BY <1>1, SpoolKept
<1>10. Text(email)' = Text(email) /\ (InSpool(email)' <=> InSpool(email))
  BY <1>1, <1>8
<1>11. ASSUME server = "data"
       PROVE  /\ replies' = <<>>
              /\ Flow' = Append(Text(email), line)
              /\ email \notin Dotted => ~InSpool(email)
              /\ \A i \in DOMAIN commands : commands[i].word = "text"
  <2>1. /\ replies = <<>>
        /\ Flow = SubSeq(Text(email), 1, written)
        /\ email \notin Dotted => ~InSpool(email)
    BY <1>0, <1>1, <1>11 DEF AtText
  <2>2. Flow' = Append(Flow, line)
    <3>1. text' = text /\ commands' = Append(commands, line)
      BY <1>1, <1>5, <1>11
    <3>2. text \o Append(commands, line) = Append(text \o commands, line)
      BY <1>2, <1>5, ConcatAppend
    <3> QED BY <3>1, <3>2, Zenon DEF Flow
  <2>3. SubSeq(Text(email), 1, written) = Text(email)
    BY <1>1, <1>7, WholePrefix
  <2>4. \A i \in DOMAIN commands : /\ Len(text) + i \in 1..Len(Flow)
                                   /\ Flow[Len(text) + i] = commands[i]
    BY <1>5 DEF Flow
  <2>5. \A i \in DOMAIN commands : commands[i].word = "text"
    BY <1>7, <2>1, <2>3, <2>4
  <2> QED BY <1>1, <2>1, <2>2, <2>3, <2>5
<1>12. server \in {"data", "idle", "closed"}
  BY <1>0, <1>1 DEF AtText
<1>13. \A i \in DOMAIN commands : commands[i].word = "text"
  <2>1. server = "closed" => commands = <<>>
    BY <1>0 DEF Sent
  <2> QED BY <1>0, <1>1, <1>11, <2>1 DEF AtText
<1>14. \A i \in DOMAIN commands' : commands'[i].word \in {"text", "end"}
  BY <1>2, <1>5, <1>13
<1>15. AtEnd'
  <2>1. CASE server = "data"
    <3>1. Command("end")' = Command("end")
      BY DEF Command, Line
    <3> QED BY <1>1, <1>2a, <1>4, <1>6, <1>10, <1>11, <1>14, <2>1, <3>1 DEF AtEnd
  <2>2. CASE server = "closed"
    <3>1. email \notin Dotted => replies = <<>>
      BY <1>0, <1>1, <2>2 DEF AtText
    <3> QED BY <1>1, <1>4, <1>6, <1>9, <1>14, <2>2, <3>1 DEF AtEnd
  <2>3. CASE server = "idle"
    <3>1. email \in Dotted
      BY <1>0, <1>1, <2>3 DEF AtText
    <3> QED BY <1>1, <1>4, <1>6, <1>9, <1>14, <2>3, <3>1 DEF AtEnd
  <2> QED BY <1>12, <2>1, <2>2, <2>3
<1>16. Budgeted'
  <2>1. Budget \in Nat /\ Budget <= 3 /\ Future \in 0..3 /\ Count(replies) \in Nat
    BY <1>0, BudgetNat DEF Budgeted
  <2>2. Budget' \in Nat /\ Budget' <= 3
    <3>1. CASE server = "data"
      <4>1. Count(replies') = 0 /\ Count(replies') \in Nat
        BY <3>1, <1>11, CountEmpty
      <4>2. Future' \in Nat /\ Future' <= 3
        BY DEF Future
      <4>3. Budget' = Count(replies') + Future'
        BY DEF Budget
      <4> QED BY <4>1, <4>2, <4>3, Sums
    <3>2. CASE server # "data"
      <4>1. Future' = Future
        BY <1>1, <3>2 DEF Future
      <4>2. Budget' = Count(replies') + Future' /\ Budget = Count(replies) + Future
        BY DEF Budget
      <4> QED BY <1>6, <2>1, <4>1, <4>2
    <3> QED BY <3>1, <3>2
  <2>3. ~Open'
    BY <1>1, <1>4, <1>6 DEF Open
  <2> QED BY <1>1, <2>2, <2>3 DEF Budgeted
<1>17. Stream'
  <2> SUFFICES ASSUME server = "data" PROVE Stream'
    BY <1>1 DEF Stream
  <2>1. \A i \in DOMAIN text' : ~Ends(text'[i])
    BY <1>0, <1>1 DEF Stream
  <2>2. Flow' = Append(Text(email), line)
    BY <1>11
  <2>3. /\ Len(Flow') = Len(outbox[email]) + 1
        /\ \A i \in 1..Len(outbox[email]) : Flow'[i] = Text(email)[i]
        /\ Flow'[Len(outbox[email]) + 1] = line
    BY <1>2, <1>7, <2>2
  <2>4. Begun(email, Len(outbox[email]))'
    BY <1>1, <1>2, <1>7, <1>9, <1>10, <1>11, <2>3 DEF Begun
  <2> QED BY <1>1, <1>7, <2>1, <2>4 DEF Stream
<1>18. Late'
  <2> SUFFICES ASSUME server # "closed"
               PROVE  \A m \in Messages \ Dotted : m \in delivered' \/ ~InSpool(m)'
    BY <1>1, <1>9 DEF Late
  <2> QED BY <1>0, <1>1, <1>8, NoneBehind
<1>19. Calls'
  BY <1>0, <1>1, <1>4 DEF Calls, Proper
<1>20. AtData' /\ AtText'
  BY <1>1 DEF AtData, AtText
<1>21. SpooledOnce' /\ NothingPartial' /\ ReturnedMeansSpooled'
  BY <1>0, <1>1, SpoolKept
<1>q. QuitLast'
  BY QuitKept DEF IInv, Client, Plain
<1> QED BY <1>4, <1>15, <1>16, <1>17, <1>18, <1>19, <1>20, <1>21, <1>q DEF IInv

-----------------------------------------------------------------------------
(***************************************************************************)
(* The client's other steps.                                               *)
(***************************************************************************)

\* A command may follow a text that is on its way, and changes nothing in it.
LEMMA StreamKept ==
  ASSUME Proper, Types, Stream, UNCHANGED Session,
         (\E word \in Commanding : Says(word)) \/ UNCHANGED commands
  PROVE  Stream'
<1> SUFFICES ASSUME server = "data" PROVE Stream'
  BY DEF Stream, Session
<1>1. UNCHANGED <<outbox, server, text, spooled>>
  BY DEF Session
<1>2. text \in Seq(Lines) /\ commands \in Seq(Lines)
  BY DEF Types
<1>3. PICK m \in Messages, k \in Nat : Begun(m, k)
  BY DEF Stream
<1>4. \/ Flow' = Flow
      \/ \E line \in Lines : line.word \notin {"text", "end"} /\ Flow' = Append(Flow, line)
  <2>1. CASE UNCHANGED commands
    BY <1>1, <2>1 DEF Flow
  <2>2. ASSUME NEW word \in Commanding, Says(word)
        PROVE  \E line \in Lines : line.word \notin {"text", "end"} /\ Flow' = Append(Flow, line)
    <3>1. Command(word) \in Lines /\ Command(word).word \notin {"text", "end"}
      BY CommandLines DEF Commanding
    <3>2. commands' = Append(commands, Command(word))
      BY <2>2, <3>1, WriteEffect DEF Says
    <3>3. Flow' = Append(Flow, Command(word))
      BY <1>1, <1>2, <3>1, <3>2, ConcatAppend DEF Flow
    <3> QED BY <3>1, <3>3
  <2> QED BY <2>1, <2>2
<1>5. Flow \in Seq(Lines)
  BY <1>2 DEF Flow
<1>6. /\ Len(Flow) \in Nat /\ Len(Flow') \in Nat /\ Len(Flow') >= Len(Flow)
      /\ \A i \in 1..Len(Flow) : Flow'[i] = Flow[i]
      /\ \A i \in (Len(Flow) + 1)..Len(Flow') : Flow'[i].word \notin {"text", "end"}
  BY <1>4, <1>5
<1>7. Text(m)' = Text(m) /\ (InSpool(m)' <=> InSpool(m)) /\ Dotted' = Dotted
  BY <1>1, SpoolKept
<1>8. /\ k \in 0..Len(outbox'[m]) /\ k <= Len(Flow')
      /\ \A i \in 1..k : Flow'[i] = Text(m)'[i]
      /\ m \notin Dotted' /\ k > 0 => ~InSpool(m)'
  BY <1>1, <1>3, <1>6, <1>7 DEF Begun
<1>9. \A i \in (k + 1)..Len(Flow') :
        /\ Flow'[i].word # "text"
        /\ Flow'[i].word = "end" => i = k + 1 /\ k = Len(outbox'[m])
  <2> SUFFICES ASSUME NEW i \in (k + 1)..Len(Flow')
               PROVE  /\ Flow'[i].word # "text"
                      /\ Flow'[i].word = "end" => i = k + 1 /\ k = Len(outbox'[m])
    OBVIOUS
  <2>1. CASE i <= Len(Flow)
    BY <1>1, <1>3, <1>6, <2>1 DEF Begun
  <2>2. CASE i > Len(Flow)
    BY <1>6, <2>2
  <2> QED BY <1>6, <2>1, <2>2
<1>10. Begun(m, k)'
  BY <1>8, <1>9 DEF Begun
<1>11. \A i \in DOMAIN text' : ~Ends(text'[i])
  BY <1>1 DEF Stream
<1> QED BY <1>8, <1>10, <1>11 DEF Stream

\* Before the first call of send nothing is spooled.
LEMMA NotYet ==
  ASSUME Calls, at \in {"greeting", "HELO"}
  PROVE  \A m : ~InSpool(m)
BY DEF Calls, InSpool

\* How many replies are to come.
LEMMA PendingHeard ==
  ASSUME Types, replies # <<>>, replies' = Tail(replies)
  PROVE  /\ Pending \in Nat
         /\ UNCHANGED commands => Pending' = Pending - 1
         /\ Len(commands') = Len(commands) + 1 => Pending' = Pending
<1>1. Len(replies) \in Nat /\ Len(replies') = Len(replies) - 1
  BY ReplyTaken
<1>2. Len(commands) \in Nat
  BY DEF Types
<1> QED BY <1>1, <1>2 DEF Pending

LEMMA PendingSaid ==
  ASSUME Types, NEW word \in Commanding, Says(word), server # "closed"
  PROVE  /\ Len(commands') = Len(commands) + 1
         /\ UNCHANGED replies => Pending' = Pending + 1
<1>1. Command(word) \in Lines
  BY CommandLines DEF Commanding
<1>2. commands' = Append(commands, Command(word)) /\ commands \in Seq(Lines)
  BY <1>1, WriteEffect DEF Says, Types
<1>3. Len(commands') = Len(commands) + 1 /\ Len(commands) \in Nat
  BY <1>1, <1>2
<1>4. Len(replies) \in Nat
  BY DEF Types, TypeOK
<1> QED BY <1>3, <1>4 DEF Pending

\* What is behind stays behind.
LEMMA PlainLate ==
  ASSUME Proper, Types, Sent, Calls, AtEnd, Late, Plain
  PROVE  Late'
<1> SUFFICES ASSUME NEW m \in Messages \ Dotted', m \notin delivered', InSpool(m)',
                    server' # "closed"
             PROVE  Behind(m)'
  BY DEF Late
<1>1. /\ UNCHANGED <<outbox, server, text, spooled>> /\ Speaks /\ Hears
      /\ (Ending' <=> Ending)
  BY PlainEffect, SpeaksEffect DEF Session
<1>2. m \in Messages \ Dotted /\ InSpool(m) /\ server # "closed"
  BY <1>1, SpoolKept
<1>3. m \notin delivered => Behind(m)
  BY <1>2 DEF Late
<1>4. at \notin {"greeting", "HELO"}
  BY <1>2, NotYet
<1>a. CASE Greeted
  BY <1>a, <1>4 DEF Greeted, Checked
<1>b. CASE Connected
  BY <1>b, <1>4 DEF Connected, Checked
<1>c. CASE \E n \in Messages : Send(n)
  <2>1. /\ at \in {"idle", "failed"} /\ at' = "MAIL" /\ Write(<<Command("MAIL")>>)
        /\ UNCHANGED replies /\ delivered' = delivered
    BY <1>c DEF Send, Session
  <2>2. "MAIL" \in Commanding
    BY DEF Commanding, Words
  <2>3. Pending' = Pending + 1
    BY <1>2, <2>1, <2>2, PendingSaid DEF Says
  <2>4. Pending \in Nat
    BY DEF Pending, Types, TypeOK
  <2>5. ~(server = "data" /\ Ending) /\ (server = "data" \/ Pending >= 1)
    BY <1>3, <2>1 DEF Behind
  <2> QED BY <1>1, <2>1, <2>3, <2>4, <2>5 DEF Behind
<1>h. CASE TextFails
  <2>1. at = "text" /\ delivered' = delivered
    BY <1>h DEF TextFails
  <2> QED BY <1>2, <2>1, NoneBehind
<1>j. CASE Spooled
  <2>1. at = "end" /\ delivered' = delivered \cup {email}
    BY <1>j DEF Spooled, Checked
  <2>2. m = email
    BY <1>3, <2>1 DEF Behind
  <2> QED BY <2>1, <2>2
<1>k. CASE WrongReply
  <2>1. /\ replies # <<>> /\ replies' = Tail(replies) /\ delivered' = delivered
        /\ UNCHANGED commands /\ at' = Thrown
        /\ at \in {"MAIL", "RCPT", "DATA", "end", "QUIT"}
        /\ at = "end" => Head(replies) # 250
    BY <1>k, <1>4 DEF WrongReply
  <2>2. Pending \in Nat /\ Pending' = Pending - 1
    BY <2>1, PendingHeard
  <2>3. at # "end"
    BY <1>3, <2>1 DEF Behind
  <2>4. CASE at = "QUIT"
    BY <2>1, <2>4 DEF Thrown, Behind
  <2>5. CASE at \in {"MAIL", "RCPT", "DATA"}
    <3>1. at' = "failed"
      BY <2>1, <2>5 DEF Thrown
    <3>2. ~(server = "data" /\ Ending) /\ (server = "data" \/ Pending >= 2)
      BY <1>3, <2>1, <2>5 DEF Behind
    <3> QED BY <1>1, <2>2, <3>1, <3>2 DEF Behind
  <2> QED BY <2>1, <2>3, <2>4, <2>5
<1>l. CASE NoReply
  <2>1. /\ at \in {"MAIL", "RCPT", "DATA", "end", "QUIT"} /\ at' = Thrown
        /\ UNCHANGED <<replies, commands>> /\ delivered' = delivered
    BY <1>l, <1>4 DEF NoReply, Waits
  <2>2. Pending' = Pending /\ Pending \in Nat
    BY <2>1 DEF Pending, Types, TypeOK
  <2>3. CASE at = "QUIT"
    BY <2>1, <2>3 DEF Thrown, Behind
  <2>4. CASE at \in {"MAIL", "RCPT", "DATA"}
    <3>1. at' = "failed"
      BY <2>1, <2>4 DEF Thrown
    <3>2. ~(server = "data" /\ Ending) /\ (server = "data" \/ Pending >= 2)
      BY <1>3, <2>1, <2>4 DEF Behind
    <3> QED BY <1>1, <2>2, <3>1, <3>2 DEF Behind
  <2>5. CASE at = "end"
    <3>1. at' = "failed"
      BY <2>1, <2>5 DEF Thrown
    <3>2. server = "idle" /\ replies = <<250>> /\ commands = <<>>
      BY <1>3, <2>1, <2>5 DEF Behind
    <3>3. Pending = 1
      BY <3>2 DEF Pending
    <3> QED BY <1>1, <2>2, <3>1, <3>2, <3>3 DEF Behind
  <2> QED BY <2>1, <2>3, <2>4, <2>5
<1>m. CASE Quit
  BY <1>m DEF Quit, Behind
<1>n. CASE QuitAccepted
  BY <1>n DEF QuitAccepted, Behind
<1> QED BY <1>a, <1>b, <1>c, <1>h, <1>j, <1>k, <1>l, <1>m, <1>n DEF Plain

LEMMA PlainCalls ==
  ASSUME Proper, Types, Sent, Calls, Plain
  PROVE  Calls'
<1>1. /\ UNCHANGED <<server, spooled>> /\ (Asked' => Asked)
      /\ at' \in {"HELO", "idle", "MAIL", "QUIT", "gone", "terminated", "failed"}
  BY PlainEffect, SpeaksEffect DEF Session
<1>2. CASE \E m \in Messages : Send(m)
  <2>1. PICK m \in Messages : Send(m)
    BY <1>2
  <2>2. "MAIL" \in Commanding
    BY DEF Commanding, Words
  <2>3. commands' # <<>> => commands'[Len(commands')].word = "MAIL"
    BY <2>1, <2>2, CommandEffect DEF Send
  <2> QED BY <2>1, <2>3 DEF Send, Calls, Proper
<1>3. CASE ~(\E m \in Messages : Send(m))
  <2>1. email' = email /\ at' # "MAIL"
    BY <1>3 DEF Plain, Greeted, Connected, TextFails, Spooled, WrongReply, NoReply, Quit,
                QuitAccepted, Thrown
  <2>2. at' = "HELO" => at = "greeting"
    BY <1>3 DEF Plain, Greeted, Connected, TextFails, Spooled, WrongReply, NoReply, Quit,
                QuitAccepted, Thrown, Checked
  <2> QED BY <1>1, <2>1, <2>2 DEF Calls
<1> QED BY <1>2, <1>3

\* When send returns, its message is there.
LEMMA PlainSafety ==
  ASSUME Proper, Types, Calls, AtEnd, ReturnedMeansSpooled, SpooledOnce, NothingPartial, Plain
  PROVE  ReturnedMeansSpooled' /\ SpooledOnce' /\ NothingPartial'
<1>1. UNCHANGED <<outbox, spooled>>
  BY PlainEffect DEF Session
<1>2. SpooledOnce' /\ NothingPartial'
  BY <1>1, SpoolKept
<1>3. CASE Spooled
  <2>1. /\ at = "end" /\ replies # <<>> /\ Head(replies) = 250 /\ email \in Messages
        /\ delivered' = delivered \cup {email}
    BY <1>3 DEF Spooled, Checked, Calls
  <2>2. 1 \in DOMAIN replies /\ replies[1] = 250
    BY <2>1 DEF Types, TypeOK
  <2>3. email \notin Dotted => InSpool(email)
    BY <2>1, <2>2 DEF AtEnd, Replied
  <2>4. \A m \in delivered' \ Dotted : \E i \in DOMAIN spooled : spooled[i] = Text(m)
    BY <2>1, <2>3 DEF ReturnedMeansSpooled, InSpool
  <2>5. \A m : Text(m)' = Text(m)
    BY <1>1 DEF Text
  <2>6. Dotted' = Dotted
    BY <1>1, SpoolKept
  <2> QED BY <1>1, <1>2, <2>4, <2>5, <2>6 DEF ReturnedMeansSpooled
<1>4. CASE ~Spooled
  <2>1. delivered' = delivered
    BY <1>4 DEF Plain, Greeted, Connected, Send, TextFails, WrongReply, NoReply, Quit,
                QuitAccepted
  <2> QED BY <1>1, <1>2, <2>1, SpoolKept
<1> QED BY <1>2, <1>3, <1>4

LEMMA PlainKeeps ==
  ASSUME Proper, IInv, Types', Plain
  PROVE  IInv'
<1>1. Sent' /\ Budgeted'
  BY PlainBudget DEF IInv
<1>2. Calls' /\ Late'
  BY PlainCalls, PlainLate DEF IInv
<1>3. Stream'
  BY PlainEffect, StreamKept DEF IInv, Speaks
<1>4. AtData' /\ AtText' /\ AtEnd'
  BY PlainEffect DEF IInv, AtData, AtText, AtEnd
<1>5. ReturnedMeansSpooled' /\ SpooledOnce' /\ NothingPartial'
  BY PlainSafety DEF IInv
<1>q. QuitLast'
  BY QuitKept DEF IInv, Client, Plain
<1> QED BY <1>1, <1>2, <1>3, <1>4, <1>5, <1>q DEF IInv

LEMMA MailAcceptedKeeps ==
  ASSUME Proper, IInv, Types', MailAccepted
  PROVE  IInv'
<1>0. Types /\ Sent /\ Calls /\ Budgeted /\ Late /\ Stream
      /\ ReturnedMeansSpooled /\ SpooledOnce /\ NothingPartial
  BY DEF IInv
<1>1. /\ at = "MAIL" /\ at' = "RCPT" /\ email' = email /\ delivered' = delivered
      /\ replies # <<>> /\ replies' = Tail(replies)
      /\ UNCHANGED Session /\ UNCHANGED <<outbox, server, text, spooled>>
      /\ Says("RCPT")
  BY DEF MailAccepted, Checked, Session, Says, Commanding, Words
<1>2. "RCPT" \in Commanding \ {"DATA"} /\ Speaks
  BY <1>1 DEF Commanding, Words, Speaks
<1>3. (Ending' <=> Ending) /\ (Asked' => Asked)
  BY <1>0, <1>1, <1>2, SpeaksEffect
<1>4. Budgeted' /\ Sent'
  BY <1>0, MailAcceptedBudget
<1>5. Stream'
  BY <1>0, <1>1, <1>2, StreamKept
<1>6. Late'
  <2> SUFFICES ASSUME NEW m \in Messages \ Dotted', m \notin delivered', InSpool(m)',
                      server' # "closed"
               PROVE  Behind(m)'
    BY DEF Late
  <2>1. m \in Messages \ Dotted /\ InSpool(m) /\ server # "closed" /\ m \notin delivered
    BY <1>1, SpoolKept
  <2>2. ~(server = "data" /\ Ending) /\ (server = "data" \/ Pending >= 2)
    BY <1>0, <1>1, <2>1 DEF Late, Behind
  <2>3. Pending' = Pending
    BY <1>0, <1>1, <1>2, <2>1, PendingSaid, PendingHeard
  <2> QED BY <1>1, <1>3, <2>2, <2>3 DEF Behind
<1>7. Calls'
  BY <1>0, <1>1, <1>3 DEF Calls
<1>8. ReturnedMeansSpooled' /\ SpooledOnce' /\ NothingPartial'
  BY <1>0, <1>1, SpoolKept
<1>9. AtData' /\ AtText' /\ AtEnd'
  BY <1>1 DEF AtData, AtText, AtEnd
<1>q. QuitLast'
  BY QuitKept DEF IInv, Client, Plain
<1> QED BY <1>4, <1>5, <1>6, <1>7, <1>8, <1>9, <1>q DEF IInv

LEMMA RcptAcceptedKeeps ==
  ASSUME Proper, IInv, Types', RcptAccepted
  PROVE  IInv'
<1>0. Types /\ Sent /\ Calls /\ Budgeted /\ Late /\ Stream
      /\ ReturnedMeansSpooled /\ SpooledOnce /\ NothingPartial
  BY DEF IInv
<1>1. /\ at = "RCPT" /\ at' = "DATA" /\ email' = email /\ delivered' = delivered
      /\ replies # <<>> /\ replies' = Tail(replies)
      /\ UNCHANGED Session /\ UNCHANGED <<outbox, server, text, spooled>>
      /\ Says("DATA") /\ "DATA" \in Commanding
  BY DEF RcptAccepted, Checked, Session, Says, Commanding, Words
<1>2. Ending' <=> Ending
  BY <1>0, <1>1, CommandEffect DEF Says
<1>3. Budgeted' /\ Sent' /\ server # "data"
  BY <1>0, RcptAcceptedBudget
<1>4. Stream'
  BY <1>0, <1>1, StreamKept
<1>5. Late'
  <2> SUFFICES ASSUME NEW m \in Messages \ Dotted', m \notin delivered', InSpool(m)',
                      server' # "closed"
               PROVE  Behind(m)'
    BY DEF Late
  <2>1. m \in Messages \ Dotted /\ InSpool(m) /\ server # "closed" /\ m \notin delivered
    BY <1>1, SpoolKept
  <2>2. Pending >= 2
    BY <1>0, <1>1, <1>3, <2>1 DEF Late, Behind
  <2>3. Pending' = Pending
    BY <1>0, <1>1, <2>1, PendingSaid, PendingHeard
  <2> QED BY <1>1, <1>3, <2>2, <2>3 DEF Behind
<1>6. Calls'
  BY <1>0, <1>1 DEF Calls, Proper
<1>7. ReturnedMeansSpooled' /\ SpooledOnce' /\ NothingPartial'
  BY <1>0, <1>1, SpoolKept
<1>8. AtData'
  BY <1>0, RcptAcceptedData
<1>9. AtText' /\ AtEnd'
  BY <1>1 DEF AtText, AtEnd
<1>q. QuitLast'
  BY QuitKept DEF IInv, Client, Plain
<1> QED BY <1>3, <1>4, <1>5, <1>6, <1>7, <1>8, <1>9, <1>q DEF IInv

LEMMA DataAcceptedKeeps ==
  ASSUME Proper, IInv, Types', DataAccepted
  PROVE  IInv'
<1>0. Types /\ Sent /\ Calls /\ Budgeted /\ AtData /\ Late /\ Stream
      /\ ReturnedMeansSpooled /\ SpooledOnce /\ NothingPartial
  BY DEF IInv
<1>1. /\ at = "DATA" /\ at' = "text" /\ email' = email /\ delivered' = delivered
      /\ UNCHANGED Session /\ UNCHANGED <<outbox, server, text, spooled, commands>>
  BY DEF DataAccepted, Checked, Session
<1>2. Budgeted' /\ Sent'
  BY <1>0, DataAcceptedBudget
<1>3. AtText' /\ commands = <<>> /\ Len(replies) = 1
  BY <1>0, DataAcceptedText
<1>4. Stream'
  BY <1>0, <1>1, StreamKept
<1>5. Late'
  <2> SUFFICES ASSUME NEW m \in Messages \ Dotted', m \notin delivered', InSpool(m)',
                      server' # "closed"
               PROVE  FALSE
    BY DEF Late
  <2>1. m \in Messages \ Dotted /\ InSpool(m) /\ server # "closed" /\ m \notin delivered
    BY <1>1, SpoolKept
  <2>2. Pending = 1
    BY <1>3 DEF Pending
  <2> QED BY <1>0, <1>1, <2>1, <2>2 DEF Late, Behind
<1>6. Calls'
  BY <1>0, <1>1 DEF Calls, Asked
<1>7. ReturnedMeansSpooled' /\ SpooledOnce' /\ NothingPartial'
  BY <1>0, <1>1, SpoolKept
<1>8. AtData' /\ AtEnd'
  BY <1>1 DEF AtData, AtEnd
<1>q. QuitLast'
  BY QuitKept DEF IInv, Client, Plain
<1> QED BY <1>2, <1>3, <1>4, <1>5, <1>6, <1>7, <1>8, <1>q DEF IInv

-----------------------------------------------------------------------------
(***************************************************************************)
(* The server's steps.                                                     *)
(***************************************************************************)

LEMMA DropKeeps ==
  ASSUME Proper, IInv, Types', Drop
  PROVE  IInv'
<1>0. Types /\ Sent /\ Calls /\ Budgeted /\ AtData /\ AtText /\ AtEnd
      /\ ReturnedMeansSpooled /\ SpooledOnce /\ NothingPartial
  BY DEF IInv
<1>1. /\ server' = "closed" /\ commands' = <<>> /\ text' = <<>>
      /\ UNCHANGED <<outbox, at, email, written, replies, spooled, delivered>>
  BY DEF Drop
<1>2. ~Asked' /\ (Ready' <=> Ready) /\ Count(replies') = Count(replies)
  BY <1>1, Unspoken DEF Asked
<1>3. /\ \A m \in Messages : Text(m)' = Text(m) /\ (InSpool(m)' <=> InSpool(m))
      /\ Dotted' = Dotted
  BY <1>1, SpoolKept
<1>4. Sent' /\ QuitLast' /\ Stream' /\ Late'
  BY <1>1 DEF Sent, QuitLast, Stream, Late
<1>5. Calls'
  BY <1>0, <1>1, <1>2 DEF Calls
<1>6. Budgeted'
  <2>1. Budget \in Nat /\ Count(replies) \in Nat /\ Future \in 0..3
    BY <1>0, BudgetNat
  <2>2. Budget' = Count(replies') + Future' /\ Budget = Count(replies) + Future
    BY DEF Budget
  <2>3. Future' = 0
    BY <1>1 DEF Future
  <2>4. Budget' \in Nat /\ Budget' <= Budget
    BY <1>2, <2>1, <2>2, <2>3
  <2>5. Open' => Open
    BY <1>1, <1>2 DEF Open
  <2> QED BY <1>0, <1>1, <2>1, <2>4, <2>5 DEF Budgeted
<1>7. AtData'
  BY <1>0, <1>1, <1>2 DEF AtData
<1>8. AtText'
  BY <1>0, <1>1, <1>2, <1>3 DEF AtText
<1>9. AtEnd'
  <2> SUFFICES ASSUME at = "end" PROVE AtEnd'
    BY <1>1 DEF AtEnd
  <2>1. ~Ready /\ email \in Messages
    BY <1>0 DEF AtEnd, Calls
  <2>2. email \notin Dotted /\ (\E i \in DOMAIN replies : replies[i] = 250) => InSpool(email)
    BY <1>0 DEF AtEnd, Replied
  <2> QED BY <1>1, <1>2, <1>3, <2>1, <2>2 DEF AtEnd
<1>10. ReturnedMeansSpooled' /\ SpooledOnce' /\ NothingPartial'
  BY <1>0, <1>1, SpoolKept
<1> QED BY <1>4, <1>5, <1>6, <1>7, <1>8, <1>9, <1>10 DEF IInv

\* What the server's answer to a command changes.
LEMMA ServeFacts ==
  ASSUME Proper, Types, Sent, QuitLast, Serve
  PROVE  /\ server \notin {"closed", "data"} /\ commands # <<>> /\ commands' = Tail(commands)
         /\ UNCHANGED <<outbox, at, email, written, spooled, delivered>>
         /\ commands[1] = Head(commands) /\ 1 \in DOMAIN commands
         /\ \E code \in Codes :
              /\ replies' = Append(replies, code)
              /\ \/ Accepts(commands[1].word, code) /\ text' = <<>>
                 \/ code = 500 /\ UNCHANGED <<server, text>>
         /\ server' = "data" =>
              commands[1].word = "DATA" /\ Asked /\ ~Ending' /\ text' = <<>> /\ Ready'
         /\ Ready' => Ready \/ server' = "data"
         /\ server' = "closed" => commands' = <<>>
         /\ Asked' => Asked
         /\ Sent'
<1>1. /\ server \notin {"closed", "data"} /\ commands # <<>> /\ commands' = Tail(commands)
      /\ UNCHANGED <<outbox, at, email, written, spooled, delivered>>
  BY DEF Serve
<1>2. commands[1] = Head(commands) /\ 1 \in DOMAIN commands
  BY <1>1 DEF Types
<1>3. PICK code \in Codes :
        /\ replies' = Append(replies, code)
        /\ \/ Accepts(Head(commands).word, code) /\ text' = <<>>
           \/ code = 500 /\ UNCHANGED <<server, text>>
  BY ServeEffect
<1>4. /\ Asked' => Asked
      /\ commands[1].word = "DATA" => Asked /\ ~Ending'
      /\ server' # "closed" => Sent'
      /\ commands \in Seq(Lines) /\ Len(commands') = Len(commands) - 1
  BY <1>1, <1>2, TakeEffect
<1>5. Ready' <=> Ready \/ code = 354
  BY <1>3, ReplyGiven
<1>6. server' = "data" => commands[1].word = "DATA" /\ text' = <<>> /\ code = 354
  BY <1>1, <1>2, <1>3 DEF Accepts
<1>7. code = 354 => server' = "data"
  BY <1>3 DEF Accepts
<1>8. server' = "closed" => commands' = <<>>
  <2> SUFFICES ASSUME server' = "closed" PROVE commands' = <<>>
    OBVIOUS
  <2>1. commands[1].word = "QUIT"
    BY <1>1, <1>2, <1>3 DEF Accepts
  <2>2. 1 = Len(commands)
    BY <1>2, <2>1 DEF QuitLast
  <2> QED BY <1>1, <1>4, <2>2
<1>9. Sent'
  BY <1>4, <1>8 DEF Sent
<1> QED BY <1>1, <1>2, <1>3, <1>4, <1>5, <1>6, <1>7, <1>8, <1>9

\* Each acceptance that comes is one that may no longer come.
LEMMA ServeBudget ==
  ASSUME Proper, Types, Sent, QuitLast, Budgeted, Serve
  PROVE  Budgeted'
<1>1. /\ server \notin {"closed", "data"} /\ UNCHANGED at
      /\ server' = "data" => Asked /\ ~Ending'
      /\ Ready' => Ready \/ server' = "data"
      /\ Asked' => Asked
  BY ServeFacts
<1>2. PICK code \in Codes :
        /\ replies' = Append(replies, code)
        /\ \/ Accepts(commands[1].word, code)
           \/ code = 500 /\ UNCHANGED server
  BY ServeFacts
<1>3. /\ Count(replies) \in Nat /\ Count(replies') \in Nat
      /\ code = 250 => Count(replies') = Count(replies) + 1
      /\ code # 250 => Count(replies') = Count(replies)
  BY <1>2, ReplyGiven
<1>4. /\ Future \in 0..3
      /\ code = 250 => Future' = Future - 1
      /\ code # 250 => Future' = Future \/ Future' = 0
  <2>1. Future \in 0..3
    BY DEF Future
  <2>2. code = 250 => Future' = Future - 1
    BY <1>2 DEF Accepts, Future
  <2>3. code # 250 => Future' = Future \/ Future' = 0
    BY <1>1, <1>2 DEF Accepts, Future
  <2> QED BY <2>1, <2>2, <2>3
<1>5. Budget' = Count(replies') + Future' /\ Budget = Count(replies) + Future
  BY DEF Budget
<1>6. Budget' \in Nat /\ Budget \in Nat /\ Budget' <= Budget
  <2>1. CASE code = 250
    BY <1>3, <1>4, <1>5, <2>1
  <2>2. CASE code # 250
    BY <1>3, <1>4, <1>5, <2>2
  <2> QED BY <2>1, <2>2
<1>7. Open' => Open
  BY <1>1 DEF Open
<1> QED BY <1>1, <1>6, <1>7 DEF Budgeted

LEMMA ServeData ==
  ASSUME Proper, Types, Sent, QuitLast, AtData, Serve
  PROVE  AtData'
<1> SUFFICES ASSUME at = "DATA" PROVE AtData'
  BY ServeFacts DEF AtData
<1>1. /\ server # "data" /\ commands # <<>> /\ commands' = Tail(commands)
      /\ at' = at /\ 1 \in DOMAIN commands
      /\ server' = "data" => commands[1].word = "DATA" /\ text' = <<>> /\ Ready'
      /\ Ready' => Ready \/ server' = "data"
  BY ServeFacts
<1>2. PICK code \in Codes : replies' = Append(replies, code)
  BY ServeFacts
<1>3. /\ Len(replies) \in Nat /\ Len(replies') = Len(replies) + 1
      /\ \A i \in DOMAIN replies : replies'[i] = replies[i]
      /\ DOMAIN replies' = DOMAIN replies \cup {Len(replies) + 1}
  BY <1>2, ReplyGiven
<1>4. /\ commands \in Seq(Lines) /\ Len(commands') = Len(commands) - 1
      /\ \A i \in DOMAIN commands' : /\ i \in Nat /\ i + 1 \in DOMAIN commands
                                     /\ commands'[i] = commands[i + 1]
  BY <1>1, TakeEffect
<1>5. ~Ready
  BY <1>1 DEF AtData, Ready
<1>6. server' = "data" => commands' = <<>>
  <2> SUFFICES ASSUME server' = "data" PROVE commands' = <<>>
    OBVIOUS
  <2>1. 1 = Len(commands)
    BY <1>1 DEF AtData
  <2> QED BY <1>1, <1>4, <2>1
<1>7. ASSUME NEW i \in DOMAIN replies', replies'[i] = 354
      PROVE  /\ i = Len(replies')
             /\ commands' = <<>> /\ server' = "data" /\ text' = <<>>
  <2>1. i = Len(replies')
    BY <1>3, <1>5, <1>7 DEF Ready
  <2>2. Ready'
    BY <1>7 DEF Ready
  <2> QED BY <1>1, <1>5, <1>6, <2>1, <2>2
<1>8. ASSUME NEW i \in DOMAIN commands', commands'[i].word = "DATA"
      PROVE  i = Len(commands') /\ ~Ready' /\ server' # "data"
  <2>1. i + 1 = Len(commands)
    BY <1>4, <1>8 DEF AtData
  <2>2. commands' # <<>>
    BY <1>4, <1>8
  <2> QED BY <1>1, <1>4, <1>5, <1>6, <2>1, <2>2
<1> QED BY <1>1, <1>7, <1>8 DEF AtData

\* The server begins a text with the lines that follow DATA: none of them is of
\* a text.
LEMMA ServeStream ==
  ASSUME Proper, Types, Types', Sent, QuitLast, Calls, Serve
  PROVE  Stream'
<1> SUFFICES ASSUME server' = "data" PROVE Stream'
  BY DEF Stream
<1>1. /\ commands # <<>> /\ commands' = Tail(commands)
      /\ outbox' = outbox /\ email' = email
      /\ commands[1] = Head(commands) /\ commands[1].word = "DATA" /\ Asked /\ text' = <<>>
  BY ServeFacts
<1>2. /\ commands \in Seq(Lines) /\ Len(commands') = Len(commands) - 1
      /\ Len(commands) \in Nat
      /\ \A i \in DOMAIN commands' : commands'[i].word \notin {"text", "end"}
  BY <1>1, TakeEffect
<1>3. email \in Messages /\ outbox \in Outboxes
  BY <1>1 DEF Calls, Types, TypeOK
<1>4. Len(outbox[email]) \in Nat
  BY <1>3, TextProps
<1>5. commands' \in Seq(Lines)
  BY DEF Types
<1>6. Flow' = commands'
  BY <1>1, <1>5 DEF Flow
<1>7. Len(Flow') \in Nat /\ \A i \in 1..Len(Flow') : Flow'[i].word \notin {"text", "end"}
  BY <1>2, <1>5, <1>6
<1>8. Begun(email, 0)'
  BY <1>1, <1>4, <1>7 DEF Begun
<1>9. \A i \in DOMAIN text' : ~Ends(text'[i])
  BY <1>1
<1> QED BY <1>1, <1>3, <1>4, <1>8, <1>9 DEF Stream

LEMMA ServeLate ==
  ASSUME Proper, Types, Sent, QuitLast, Late, Serve
  PROVE  Late'
<1> SUFFICES ASSUME NEW m \in Messages \ Dotted', m \notin delivered', InSpool(m)'
             PROVE  Behind(m)'
  BY DEF Late
<1>1. /\ server \notin {"closed", "data"} /\ commands # <<>> /\ commands' = Tail(commands)
      /\ UNCHANGED <<outbox, at, email, spooled, delivered>>
      /\ server' = "data" => ~Ending'
  BY ServeFacts
<1>2. PICK code \in Codes : replies' = Append(replies, code)
  BY ServeFacts
<1>3. m \in Messages \ Dotted /\ InSpool(m) /\ m \notin delivered
  BY <1>1, SpoolKept
<1>4. Behind(m)
  BY <1>1, <1>3 DEF Late
<1>5. Pending' = Pending /\ Pending \in Nat
  <2>1. Len(replies) \in Nat /\ Len(replies') = Len(replies) + 1
    BY <1>2, ReplyGiven
  <2>2. Len(commands') = Len(commands) - 1 /\ Len(commands) \in Nat
    BY <1>1, TakeEffect
  <2>3. Len(commands) > 0
    BY <1>1 DEF Types
  <2>4. Pending = Len(replies) + Len(commands) /\ Pending' = Len(replies') + Len(commands')
    BY DEF Pending
  <2> QED BY <2>1, <2>2, <2>3, <2>4
<1> QED BY <1>1, <1>4, <1>5 DEF Behind

\* What is last stays last.
LEMMA TakeKeeps ==
  ASSUME Proper, Types, Types', Sent, QuitLast, commands # <<>>, commands' = Tail(commands),
         at' = at
  PROVE  /\ QuitLast'
         /\ commands' # <<>> => commands'[Len(commands')] = commands[Len(commands)]
<1>1. /\ commands \in Seq(Lines) /\ Len(commands') = Len(commands) - 1
      /\ Len(commands) \in Nat
      /\ \A i \in DOMAIN commands' : /\ i \in Nat /\ i + 1 \in DOMAIN commands
                                     /\ commands'[i] = commands[i + 1]
  BY TakeEffect
<1>2. ASSUME commands' # <<>>
      PROVE  commands'[Len(commands')] = commands[Len(commands)]
  <2>1. Len(commands') \in DOMAIN commands'
    BY <1>2 DEF Types
  <2>2. commands'[Len(commands')] = commands[Len(commands') + 1]
    BY <1>1, <2>1
  <2>3. Len(commands') + 1 = Len(commands)
    BY <1>1
  <2> QED BY <2>2, <2>3
<1>3. QuitLast'
  <2> SUFFICES ASSUME NEW i \in DOMAIN commands', commands'[i].word = "QUIT"
               PROVE  i = Len(commands') /\ at' \in {"QUIT", "gone", "terminated"}
    BY DEF QuitLast
  <2>1. i + 1 = Len(commands) /\ at \in {"QUIT", "gone", "terminated"}
    BY <1>1 DEF QuitLast
  <2> QED BY <1>1, <2>1
<1> QED BY <1>2, <1>3

LEMMA ServeKeeps ==
  ASSUME Proper, IInv, Types', Serve
  PROVE  IInv'
<1>0. Types /\ Sent /\ Calls /\ QuitLast /\ Budgeted /\ AtData /\ AtText /\ AtEnd /\ Late
      /\ ReturnedMeansSpooled /\ SpooledOnce /\ NothingPartial
  BY DEF IInv
<1>1. /\ server \notin {"closed", "data"} /\ commands # <<>> /\ commands' = Tail(commands)
      /\ UNCHANGED <<outbox, at, email, written, spooled, delivered>>
      /\ commands[1] = Head(commands) /\ 1 \in DOMAIN commands
      /\ server' = "data" => Asked
      /\ Ready' => Ready \/ server' = "data"
      /\ Asked' => Asked
      /\ Sent'
  BY <1>0, ServeFacts
<1>2. /\ commands \in Seq(Lines) /\ Len(commands') = Len(commands) - 1
      /\ Len(commands) \in Nat
      /\ \A i \in DOMAIN commands' : /\ i \in Nat /\ i + 1 \in DOMAIN commands
                                     /\ commands'[i] = commands[i + 1]
  BY <1>0, <1>1, TakeEffect
<1>3. PICK code \in Codes :
        \/ Accepts(commands[1].word, code)
        \/ code = 500 /\ UNCHANGED server
  BY <1>0, ServeFacts
<1>4. /\ QuitLast'
      /\ commands' # <<>> => commands'[Len(commands')] = commands[Len(commands)]
  BY <1>0, <1>1, TakeKeeps
<1>6. Calls'
  BY <1>0, <1>1, <1>4 DEF Calls
<1>7. Budgeted' /\ AtData' /\ Stream' /\ Late'
  BY <1>0, ServeBudget, ServeData, ServeStream, ServeLate
<1>8. ASSUME \A i \in DOMAIN commands : commands[i].word \in {"text", "end"}
      PROVE  server' = server
  BY <1>1, <1>3, <1>8 DEF Accepts
<1>9. Dotted' = Dotted
  BY <1>1, SpoolKept
<1>10. AtText'
  <2> SUFFICES ASSUME at = "text" PROVE AtText'
    BY <1>1 DEF AtText
  <2>1. /\ server = "idle" /\ email \in Dotted /\ ~Ready /\ ~Asked
        /\ written \in 0..Len(outbox[email])
        /\ \A i \in DOMAIN commands : commands[i].word = "text"
    BY <1>0, <1>1 DEF AtText
  <2>2. server' = "idle"
    BY <1>8, <2>1
  <2>3. \A i \in DOMAIN commands' : commands'[i].word = "text"
    BY <1>2, <2>1
  <2> QED BY <1>1, <1>9, <2>1, <2>2, <2>3 DEF AtText
<1>11. AtEnd'
  <2> SUFFICES ASSUME at = "end" PROVE AtEnd'
    BY <1>1 DEF AtEnd
  <2>1. /\ server = "idle" /\ email \in Dotted /\ ~Ready /\ ~Asked
        /\ \A i \in DOMAIN commands : commands[i].word \in {"text", "end"}
    BY <1>0, <1>1 DEF AtEnd, Replied
  <2>2. server' = "idle"
    BY <1>8, <2>1
  <2>3. \A i \in DOMAIN commands' : commands'[i].word \in {"text", "end"}
    BY <1>2, <2>1
  <2> QED BY <1>1, <1>9, <2>1, <2>2, <2>3 DEF AtEnd
<1>12. ReturnedMeansSpooled' /\ SpooledOnce' /\ NothingPartial'
  BY <1>0, <1>1, SpoolKept
<1> QED BY <1>1, <1>4, <1>6, <1>7, <1>10, <1>11, <1>12 DEF IInv

\* The line that the server takes, in the flow.
LEMMA FlowProps ==
  ASSUME Types, commands # <<>>
  PROVE  /\ Flow \in Seq(Lines) /\ Len(text) \in Nat /\ Len(Flow) = Len(text) + Len(commands)
         /\ Len(commands) \in Nat \ {0}
         /\ Len(text) + 1 \in 1..Len(Flow)
         /\ Flow[Len(text) + 1] = Head(commands)
         /\ \A i \in 1..Len(text) : Flow[i] = text[i]
         /\ \A i \in DOMAIN commands : /\ Len(text) + i \in 1..Len(Flow)
                                       /\ Flow[Len(text) + i] = commands[i]
         /\ Append(text, Head(commands)) \o Tail(commands) = Flow
<1>1. text \in Seq(Lines) /\ commands \in Seq(Lines)
  BY DEF Types
<1>2. /\ Flow \in Seq(Lines) /\ Len(text) \in Nat /\ Len(Flow) = Len(text) + Len(commands)
      /\ Len(commands) \in Nat \ {0}
      /\ Len(text) + 1 \in 1..Len(Flow)
      /\ Flow[Len(text) + 1] = Head(commands)
      /\ \A i \in 1..Len(text) : Flow[i] = text[i]
      /\ \A i \in DOMAIN commands : /\ Len(text) + i \in 1..Len(Flow)
                                    /\ Flow[Len(text) + i] = commands[i]
  BY <1>1 DEF Flow
<1>3. Append(text, Head(commands)) \o Tail(commands) = Flow
  <2> DEFINE s == Append(text, Head(commands))
             u == Tail(commands)
  <2>1. s \in Seq(Lines) /\ u \in Seq(Lines) /\ Len(s) = Len(text) + 1
        /\ Len(u) = Len(commands) - 1
    BY <1>1
  <2>2. s \o u \in Seq(Lines) /\ Len(s \o u) = Len(Flow)
    <3>1. s \o u \in Seq(Lines) /\ Len(s \o u) = Len(s) + Len(u)
      <4> HIDE DEF s, u
      <4> QED BY <2>1
    <3> QED BY <1>2, <2>1, <3>1
  <2>3. \A i \in 1..Len(Flow) : (s \o u)[i] = Flow[i]
    <3> SUFFICES ASSUME NEW i \in 1..Len(Flow) PROVE (s \o u)[i] = Flow[i]
      OBVIOUS
    <3>1. (s \o u)[i] = IF i <= Len(s) THEN s[i] ELSE u[i - Len(s)]
      <4> HIDE DEF s, u
      <4> QED BY <1>2, <2>1, <2>2
    <3>2. CASE i <= Len(text)
      BY <1>1, <1>2, <2>1, <3>1, <3>2
    <3>3. CASE i = Len(text) + 1
      BY <1>1, <1>2, <2>1, <3>1, <3>3
    <3>4. CASE i > Len(text) + 1
      <4>1. u[i - Len(s)] = commands[i - Len(s) + 1]
        BY <1>1, <1>2, <2>1, <3>4
      <4>2. i - Len(text) \in DOMAIN commands /\ Len(text) + (i - Len(text)) = i
        BY <1>1, <1>2, <3>4
      <4>3. Flow[i] = commands[i - Len(text)]
        BY <1>2, <4>2
      <4>4. i - Len(s) + 1 = i - Len(text) /\ ~(i <= Len(s))
        BY <1>2, <2>1, <3>4
      <4> QED BY <3>1, <4>1, <4>3, <4>4
    <3> QED BY <1>2, <3>2, <3>3, <3>4
  <2> HIDE DEF s, u
  <2>4. s \o u = Flow
    BY <1>2, <2>2, <2>3
  <2> QED BY <2>4 DEF s, u
<1> QED BY <1>2, <1>3

\* A line of the text moves from the one part of the flow to the other.
LEMMA TextLineKeeps ==
  ASSUME Proper, IInv, Types', ServeText, ~Ends(Head(commands))
  PROVE  IInv'
<1>0. Types /\ Sent /\ Calls /\ QuitLast /\ Budgeted /\ AtData /\ AtText /\ AtEnd /\ Stream /\ Late
      /\ ReturnedMeansSpooled /\ SpooledOnce /\ NothingPartial
  BY DEF IInv
<1>1. /\ server = "data" /\ server' = "data" /\ commands # <<>> /\ commands' = Tail(commands)
      /\ text' = Append(text, Head(commands))
      /\ UNCHANGED <<outbox, at, email, written, spooled, delivered, replies>>
  BY DEF ServeText, Ends
<1>2. /\ Ending' <=> Ending
      /\ Asked' => Asked
      /\ Sent'
      /\ commands \in Seq(Lines)
      /\ \A i \in DOMAIN commands' : i + 1 \in DOMAIN commands /\ commands'[i] = commands[i + 1]
  BY <1>0, <1>1, TakeEffect
<1>3. /\ QuitLast'
      /\ commands' # <<>> => commands'[Len(commands')] = commands[Len(commands)]
  BY <1>0, <1>1, TakeKeeps
<1>4. Flow' = Flow
  BY <1>0, <1>1, FlowProps DEF Flow
<1>5. (Ready' <=> Ready) /\ Count(replies') = Count(replies)
  BY <1>1, Unspoken
<1>6. /\ \A m \in Messages : Text(m)' = Text(m) /\ (InSpool(m)' <=> InSpool(m))
      /\ Dotted' = Dotted
  BY <1>1, SpoolKept
<1>7. at # "DATA"
  BY <1>0, <1>1 DEF AtData, Ready
<1>8. Calls'
  BY <1>0, <1>1, <1>2, <1>3 DEF Calls
<1>9. Budgeted'
  <2>1. Budget' = Count(replies') + Future' /\ Budget = Count(replies) + Future
    BY DEF Budget
  <2>2. Future' = Future
    BY <1>1, <1>2 DEF Future
  <2>3. Budget' = Budget
    BY <1>5, <2>1, <2>2
  <2>4. Open' => Open
    BY <1>1, <1>2, <1>5 DEF Open
  <2> QED BY <1>0, <1>1, <2>3, <2>4 DEF Budgeted
<1>10. AtData'
  BY <1>1, <1>7 DEF AtData
<1>11. AtText'
  <2> SUFFICES ASSUME at = "text" PROVE AtText'
    BY <1>1 DEF AtText
  <2>1. email \in Messages
    BY <1>0 DEF Calls
  <2>2. Text(email)' = Text(email) /\ (InSpool(email)' <=> InSpool(email))
    BY <1>1, <1>6, <2>1
  <2> QED BY <1>0, <1>1, <1>2, <1>4, <1>5, <1>6, <2>2 DEF AtText
<1>12. AtEnd'
  <2> SUFFICES ASSUME at = "end" PROVE AtEnd'
    BY <1>1 DEF AtEnd
  <2>1. email \in Messages
    BY <1>0 DEF Calls
  <2>2. Text(email)' = Text(email) /\ Command("end")' = Command("end")
    BY <1>1, <1>6, <2>1 DEF Command, Line
  <2>3. \A i \in DOMAIN commands' : commands'[i].word \in {"text", "end"}
    BY <1>0, <1>2 DEF AtEnd
  <2> QED BY <1>0, <1>1, <1>2, <1>4, <1>5, <2>2, <2>3 DEF AtEnd
<1>13. Stream'
  <2>1. PICK m \in Messages : \E k \in 0..Len(outbox[m]) : Begun(m, k)
    BY <1>0, <1>1 DEF Stream
  <2>2. PICK k \in 0..Len(outbox[m]) : Begun(m, k)
    BY <2>1
  <2>3. Begun(m, k)'
    BY <1>1, <1>4, <1>6, <2>2 DEF Begun
  <2>4. \A i \in DOMAIN text' : ~Ends(text'[i])
    BY <1>0, <1>1 DEF Stream, Types
  <2> QED BY <1>1, <2>3, <2>4 DEF Stream
<1>14. Late'
  <2> SUFFICES ASSUME NEW m \in Messages \ Dotted', m \notin delivered', InSpool(m)'
               PROVE  Behind(m)'
    BY DEF Late
  <2>1. Behind(m)
    BY <1>0, <1>1, <1>6 DEF Late
  <2> QED BY <1>1, <1>2, <1>7, <2>1 DEF Behind
<1>15. ReturnedMeansSpooled' /\ SpooledOnce' /\ NothingPartial'
  BY <1>0, <1>1, SpoolKept
<1> QED BY <1>2, <1>3, <1>8, <1>9, <1>10, <1>11, <1>12, <1>13, <1>14, <1>15 DEF IInv

\* What the server has when a text ends is a whole message that is not spooled, or
\* it starts with a line of one that is dotted.
LEMMA TextEnded ==
  ASSUME Proper, Types, Sent, Stream, server = "data", commands # <<>>, Ends(Head(commands))
  PROVE  \E n \in Messages :
           /\ n \notin Dotted => text = Text(n) /\ ~InSpool(n)
           /\ Len(text) > 0 /\ text[1].of = n
<1> DEFINE p == Len(text) + 1
<1>1. PICK n \in Messages : \E k \in 0..Len(outbox[n]) : Begun(n, k)
  BY DEF Stream
<1>2. PICK k \in 0..Len(outbox[n]) : Begun(n, k)
  BY <1>1
<1>3. /\ Text(n) \in Seq(Lines) /\ Len(Text(n)) = Len(outbox[n])
      /\ Len(outbox[n]) \in Nat \ {0}
      /\ \A i \in 1..Len(outbox[n]) : /\ Text(n)[i].of = n
                                      /\ Ends(Text(n)[i]) => n \in Dotted
      /\ ~Ends(Text(n)[1])
  BY TextProps DEF Types, TypeOK
<1>4. /\ Flow \in Seq(Lines) /\ Len(text) \in Nat /\ p \in 1..Len(Flow)
      /\ Flow[p] = Head(commands)
      /\ \A i \in 1..Len(text) : Flow[i] = text[i]
      /\ text \in Seq(Lines)
  BY FlowProps DEF Types
<1>5. CASE p <= k
  <2>1. Flow[p] = Text(n)[p]
    BY <1>2, <1>4, <1>5 DEF Begun
  <2>2. n \in Dotted /\ p # 1
    BY <1>3, <1>4, <1>5, <2>1
  <2>3. Len(text) > 0 /\ 1 \in 1..Len(text) /\ 1 \in 1..k /\ 1 \in 1..Len(outbox[n])
    BY <1>3, <1>4, <1>5, <2>2
  <2>4. text[1] = Text(n)[1]
    BY <1>2, <1>4, <2>3 DEF Begun
  <2> QED BY <1>3, <2>2, <2>3, <2>4
<1>6. CASE p > k
  <2>1. p \in (k + 1)..Len(Flow)
    BY <1>4, <1>6
  <2>2. Flow[p].word # "text" /\ (Flow[p].word = "end" => p = k + 1 /\ k = Len(outbox[n]))
    BY <1>2, <2>1 DEF Begun
  <2>3. Head(commands).word # "text" => Head(commands).piece = NoPiece
    BY DEF Sent, Types
  <2>4. p = k + 1 /\ k = Len(outbox[n])
    BY <1>4, <2>2, <2>3 DEF Ends, Proper
  <2>5. Len(text) = Len(outbox[n])
    BY <1>4, <2>4
  <2>6. \A i \in 1..Len(text) : text[i] = Text(n)[i]
    BY <1>2, <1>4, <2>4, <2>5 DEF Begun
  <2>7. text = Text(n)
    BY <1>3, <1>4, <2>5, <2>6, SMTT(20)
  <2>8. Len(text) > 0 /\ text[1].of = n
    BY <1>3, <2>5, <2>7
  <2>9. n \notin Dotted => ~InSpool(n)
    BY <1>2, <1>3, <2>4 DEF Begun
  <2> QED BY <2>7, <2>8, <2>9
<1> HIDE DEF p
<1>7. p \in Nat /\ k \in Nat
  BY <1>3, <1>4
<1> QED BY <1>5, <1>6, <1>7

\* While the line that ends a text is on its way nothing else can be open: three
\* acceptances are to come.
LEMMA NothingOpen ==
  ASSUME Types, Budgeted, AtText, server = "data", Ending
  PROVE  /\ ~Asked /\ ~Ready
         /\ Count(replies) = 0
         /\ at \notin {"RCPT", "DATA"}
<1>1. Budget \in Nat /\ Count(replies) \in Nat /\ Future \in 0..3
  BY BudgetNat
<1>2. Future = 3
  BY DEF Future
<1>3. Budget = Count(replies) + Future
  BY DEF Budget
<1>4. Budget = 3 /\ Count(replies) = 0
  BY <1>1, <1>2, <1>3 DEF Budgeted
<1>5. at \notin {"RCPT", "DATA"}
  BY <1>4 DEF Budgeted
<1>6. ~Asked /\ ~Ready
  BY <1>4, <1>5 DEF Budgeted, Open, AtText
<1> QED BY <1>4, <1>5, <1>6

\* The server has ended a text, and may have spooled it.
EndOf(code) ==
  /\ server = "data" /\ server' = "idle" /\ text' = <<>>
  /\ commands # <<>> /\ commands' = Tail(commands) /\ Ends(Head(commands))
  /\ UNCHANGED <<outbox, at, email, written, delivered>>
  /\ replies' = Append(replies, code)
  /\ \/ code = 250 /\ spooled' = Append(spooled, text)
     \/ code = 500 /\ UNCHANGED spooled

LEMMA EndOfText ==
  ASSUME Proper, Types, ServeText, Ends(Head(commands))
  PROVE  \E code \in {250, 500} : EndOf(code)
<1>1. /\ server = "data" /\ server' = "idle" /\ text' = <<>>
      /\ commands # <<>> /\ commands' = Tail(commands)
      /\ UNCHANGED <<outbox, at, email, written, delivered>>
      /\ \/ Answer(250) /\ spooled' = Append(spooled, text)
         \/ Answer(500) /\ UNCHANGED spooled
  BY DEF ServeText, Ends
<1>2. replies \in Seq(Codes) /\ 250 \in Codes /\ 500 \in Codes
  BY DEF Types, TypeOK, Codes
<1>3. Answer(250) => replies' = Append(replies, 250)
  BY <1>2, OneLine
<1>4. Answer(500) => replies' = Append(replies, 500)
  BY <1>2, OneLine
<1> QED BY <1>1, <1>3, <1>4 DEF EndOf

LEMMA Appended ==
  ASSUME NEW S, NEW s \in Seq(S), NEW e \in S
  PROVE  /\ DOMAIN Append(s, e) = DOMAIN s \cup {Len(s) + 1}
         /\ Append(s, e)[Len(s) + 1] = e
         /\ \A i \in DOMAIN s : Append(s, e)[i] = s[i]
OBVIOUS

\* What is spooled then.
LEMMA EndSpool ==
  ASSUME Proper, Types, Sent, Stream, NEW code \in {250, 500}, EndOf(code)
  PROVE  /\ \A m \in Messages : Text(m)' = Text(m)
         /\ Dotted' = Dotted
         /\ \A m \in Messages : InSpool(m)' <=> InSpool(m) \/ (code = 250 /\ text = Text(m))
         /\ \A m \in Messages \ Dotted : text = Text(m) => ~InSpool(m)
         /\ ReturnedMeansSpooled => ReturnedMeansSpooled'
         /\ SpooledOnce => SpooledOnce'
         /\ NothingPartial => NothingPartial'
<1>1. /\ spooled \in Seq(Seq(Lines)) /\ text \in Seq(Lines)
      /\ UNCHANGED <<outbox, delivered>>
      /\ code = 250 => spooled' = Append(spooled, text)
      /\ code # 250 => UNCHANGED spooled
  BY DEF Types, EndOf
<1>2. \A m : Text(m)' = Text(m)
  BY <1>1 DEF Text
<1>3. Dotted' = Dotted /\ Dotted \subseteq Messages
  BY <1>1, TextKept DEF Dotted
<1>4. PICK n \in Messages :
        /\ n \notin Dotted => text = Text(n) /\ ~InSpool(n)
        /\ Len(text) > 0 /\ text[1].of = n
  BY TextEnded DEF EndOf
<1>5. \A m \in Messages \ Dotted : text = Text(m) => m = n /\ ~InSpool(m)
  <2> SUFFICES ASSUME NEW m \in Messages \ Dotted, text = Text(m)
               PROVE  m = n /\ ~InSpool(m)
    OBVIOUS
  <2>1. Text(m)[1].of = m
    BY TextFirst
  <2>2. m = n
    BY <1>4, <2>1
  <2> QED BY <1>4, <2>2
<1>6. CASE code # 250
  <2>1. UNCHANGED <<outbox, spooled, delivered>>
    BY <1>1, <1>6
  <2> QED BY <1>2, <1>5, <1>6, <2>1, SpoolKept
<1>7. CASE code = 250
  <2> DEFINE z == Len(spooled) + 1
  <2>1. /\ DOMAIN spooled' = DOMAIN spooled \cup {z} /\ spooled'[z] = text
        /\ \A i \in DOMAIN spooled : spooled'[i] = spooled[i]
    BY <1>1, <1>7, Appended
  <2> HIDE DEF z
  <2>2. \A m \in Messages : InSpool(m)' <=> InSpool(m) \/ text = Text(m)
    BY <1>2, <2>1 DEF InSpool
  <2>3. ASSUME ReturnedMeansSpooled PROVE ReturnedMeansSpooled'
    <3>1. \A m \in delivered \ Dotted : \E i \in DOMAIN spooled' : spooled'[i] = Text(m)
      BY <2>1, <2>3 DEF ReturnedMeansSpooled
    <3> QED BY <1>1, <1>2, <1>3, <3>1 DEF ReturnedMeansSpooled
  <2>4. ASSUME SpooledOnce PROVE SpooledOnce'
    <3>1. SUFFICES ASSUME NEW m \in Messages \ Dotted, NEW i \in DOMAIN spooled',
                          NEW j \in DOMAIN spooled', spooled'[i] = Text(m), spooled'[j] = Text(m)
                   PROVE  i = j
      BY <1>2, <1>3 DEF SpooledOnce
    <3>2. CASE i \in DOMAIN spooled /\ j \in DOMAIN spooled
      BY <2>1, <2>4, <3>1, <3>2 DEF SpooledOnce
    <3>3. CASE i = z /\ j = z
      BY <3>3
    <3>4. CASE i \in DOMAIN spooled /\ j = z
      BY <1>5, <2>1, <3>1, <3>4 DEF InSpool
    <3>5. CASE i = z /\ j \in DOMAIN spooled
      BY <1>5, <2>1, <3>1, <3>5 DEF InSpool
    <3> QED BY <2>1, <3>2, <3>3, <3>4, <3>5
  <2>5. ASSUME NothingPartial PROVE NothingPartial'
    <3>1. SUFFICES ASSUME NEW i \in DOMAIN spooled',
                          \A j \in DOMAIN spooled'[i] : spooled'[i][j].of \notin Dotted
                   PROVE  \E m \in Messages : spooled'[i] = Text(m)
      BY <1>2, <1>3 DEF NothingPartial
    <3>2. CASE i \in DOMAIN spooled
      BY <2>1, <2>5, <3>1, <3>2 DEF NothingPartial
    <3>3. CASE i = z
      <4>1. 1 \in DOMAIN text
        BY <1>1, <1>4
      <4>2. n \notin Dotted
        BY <1>4, <2>1, <3>1, <3>3, <4>1
      <4> QED BY <1>4, <2>1, <3>3, <4>2
    <3> QED BY <2>1, <3>2, <3>3
  <2> QED BY <1>2, <1>3, <1>5, <1>7, <2>2, <2>3, <2>4, <2>5
<1> QED BY <1>6, <1>7

\* The client that waits for the answer to its text gets it, unless the text is
\* dotted.
LEMMA EndAtEnd ==
  ASSUME Proper, Types, Sent, Calls, Budgeted, AtText, AtEnd, Stream,
         NEW code \in {250, 500}, EndOf(code), at = "end"
  PROVE  AtEnd' /\ \A m \in Messages \ Dotted : text = Text(m) => m = email
<1>1. /\ server = "data" /\ server' = "idle" /\ text' = <<>>
      /\ commands # <<>> /\ commands' = Tail(commands) /\ Ends(Head(commands))
      /\ UNCHANGED <<outbox, at, email>>
      /\ replies' = Append(replies, code)
  BY DEF EndOf
<1>2. /\ ~Ready /\ ~Asked /\ replies = <<>> /\ email \in Messages
      /\ \A i \in DOMAIN commands : commands[i].word \in {"text", "end"}
      /\ Flow = Append(Text(email), Command("end"))
  BY <1>1 DEF AtEnd, Calls
<1>3. /\ Asked' => Asked
      /\ Len(commands') = Len(commands) - 1
      /\ \A i \in DOMAIN commands' : i + 1 \in DOMAIN commands /\ commands'[i] = commands[i + 1]
  BY <1>1, TakeEffect
<1>4. Ready' <=> Ready \/ code = 354
  BY <1>1, ReplyGiven DEF Codes
<1>5. /\ Text(email) \in Seq(Lines) /\ Len(Text(email)) = Len(outbox[email])
      /\ Len(outbox[email]) \in Nat \ {0}
      /\ \A i \in 1..Len(outbox[email]) : /\ Text(email)[i].of = email
                                          /\ Ends(Text(email)[i]) => email \in Dotted
  BY <1>2, TextProps DEF Types, TypeOK
<1>6. /\ Len(Flow) = Len(text) + Len(commands) /\ Len(text) \in Nat
      /\ Len(commands) \in Nat \ {0}
      /\ Flow[Len(text) + 1] = Head(commands)
      /\ \A i \in 1..Len(text) : Flow[i] = text[i]
  BY <1>1, FlowProps
<1>6a. text \in Seq(Lines) /\ commands \in Seq(Lines)
  BY DEF Types
<1>7. /\ Len(Flow) = Len(outbox[email]) + 1
      /\ \A i \in 1..Len(outbox[email]) : Flow[i] = Text(email)[i]
  BY <1>2, <1>5
<1>8. Len(text) <= Len(outbox[email]) /\ \A i \in 1..Len(text) : text[i] = Text(email)[i]
  BY <1>6, <1>7
<1>9. ASSUME email \notin Dotted
      PROVE  commands' = <<>> /\ text = Text(email)
  <2>1. ~(Len(text) + 1 \in 1..Len(outbox[email]))
    BY <1>1, <1>5, <1>6, <1>7, <1>9
  <2>2. Len(text) = Len(outbox[email])
    BY <1>5, <1>6, <1>8, <2>1
  <2>3. Len(commands) = 1
    <3>1. Len(commands) = Len(Flow) - Len(text)
      BY <1>6
    <3>2. Len(commands) = (Len(text) + 1) - Len(text)
      BY <1>7, <2>2, <3>1
    <3> QED BY <1>6, <3>2
  <2>4. text = Text(email)
    BY <1>5, <1>6a, <1>8, <2>2
  <2>5. commands' = <<>>
    BY <1>1, <1>6a, <2>3
  <2> QED BY <2>4, <2>5
<1>10. replies' = <<code>>
  BY <1>1, <1>2
<1>11. /\ Text(email)' = Text(email) /\ Dotted' = Dotted
       /\ InSpool(email)' <=> InSpool(email) \/ (code = 250 /\ text = Text(email))
       /\ email \notin Dotted /\ text = Text(email) => ~InSpool(email)
  BY <1>1, <1>2, EndSpool
<1>12. email \notin Dotted => Replied'
  BY <1>1, <1>9, <1>10, <1>11 DEF Replied
<1>13. \A i \in DOMAIN commands' : commands'[i].word \in {"text", "end"}
  BY <1>2, <1>3
<1>14. AtEnd'
  BY <1>1, <1>2, <1>3, <1>4, <1>11, <1>12, <1>13 DEF AtEnd
<1>15. ASSUME NEW m \in Messages \ Dotted, text = Text(m)
       PROVE  m = email
  <2>1. 1 \in 1..Len(outbox[m]) /\ Len(Text(m)) = Len(outbox[m]) /\ Text(m)[1].of = m
    BY TextFirst, TextProps DEF Types, TypeOK
  <2>2. text[1] = Text(email)[1] /\ 1 \in 1..Len(outbox[email])
    BY <1>5, <1>8, <1>15, <2>1
  <2> QED BY <1>5, <1>15, <2>1, <2>2
<1> QED BY <1>14, <1>15

\* A client that writes can lose its server in the middle only by a dot.
LEMMA EndAtText ==
  ASSUME Proper, Types, Sent, Calls, AtText, Stream,
         NEW code \in {250, 500}, EndOf(code), at = "text"
  PROVE  AtText' /\ \A m \in Messages \ Dotted : text # Text(m)
<1>1. /\ server = "data" /\ server' = "idle" /\ text' = <<>>
      /\ commands # <<>> /\ commands' = Tail(commands) /\ Ends(Head(commands))
      /\ UNCHANGED <<outbox, at, email, written>>
      /\ replies' = Append(replies, code)
  BY DEF EndOf
<1>2. /\ ~Ready /\ ~Asked /\ email \in Messages
      /\ written \in 0..Len(outbox[email])
      /\ Flow = SubSeq(Text(email), 1, written)
  BY <1>1 DEF AtText, Calls
<1>3. /\ Asked' => Asked
      /\ \A i \in DOMAIN commands' : i + 1 \in DOMAIN commands /\ commands'[i] = commands[i + 1]
  BY <1>1, TakeEffect
<1>4. Ready' <=> Ready \/ code = 354
  BY <1>1, ReplyGiven DEF Codes
<1>5. /\ Text(email) \in Seq(Lines) /\ Len(Text(email)) = Len(outbox[email])
      /\ Len(outbox[email]) \in Nat \ {0}
      /\ \A i \in 1..Len(outbox[email]) : /\ Text(email)[i].of = email
                                          /\ Text(email)[i].word = "text"
                                          /\ Ends(Text(email)[i]) => email \in Dotted
  BY <1>2, TextProps DEF Types, TypeOK
<1>6. /\ Len(text) \in Nat /\ Len(text) + 1 \in 1..Len(Flow)
      /\ Flow[Len(text) + 1] = Head(commands)
      /\ \A i \in 1..Len(text) : Flow[i] = text[i]
      /\ \A i \in DOMAIN commands : /\ Len(text) + i \in 1..Len(Flow)
                                    /\ Flow[Len(text) + i] = commands[i]
  BY <1>1, FlowProps
<1>7. Len(Flow) = written /\ \A i \in 1..written : Flow[i] = Text(email)[i]
  BY <1>2, <1>5, WholePrefix
<1>8. email \in Dotted
  <2>1. Len(text) + 1 \in 1..Len(outbox[email])
    BY <1>2, <1>5, <1>6, <1>7
  <2> QED BY <1>1, <1>5, <1>6, <1>7, <2>1
<1>9. \A i \in DOMAIN commands' : commands'[i].word = "text"
  <2> SUFFICES ASSUME NEW i \in DOMAIN commands' PROVE commands'[i].word = "text"
    OBVIOUS
  <2>1. commands'[i] = Flow[Len(text) + (i + 1)] /\ Len(text) + (i + 1) \in 1..Len(Flow)
    BY <1>3, <1>6
  <2>2. Len(text) + (i + 1) \in 1..Len(outbox[email])
    BY <1>2, <1>5, <1>7, <2>1
  <2> QED BY <1>5, <1>7, <2>1, <2>2
<1>10. Dotted' = Dotted
  BY <1>1, TextKept
<1>11. AtText'
  BY <1>1, <1>2, <1>3, <1>4, <1>8, <1>9, <1>10 DEF AtText
<1>12. ASSUME NEW m \in Messages \ Dotted, text = Text(m)
       PROVE  FALSE
  <2>1. 1 \in 1..Len(outbox[m]) /\ Len(Text(m)) = Len(outbox[m]) /\ Text(m)[1].of = m
    BY TextFirst, TextProps DEF Types, TypeOK
  <2>2. text[1] = Text(email)[1] /\ 1 \in 1..Len(outbox[email])
    BY <1>2, <1>5, <1>6, <1>7, <1>12, <2>1
  <2> QED BY <1>5, <1>8, <1>12, <2>1, <2>2
<1> QED BY <1>11, <1>12

LEMMA EndLate ==
  ASSUME Proper, Types, Sent, Calls, Budgeted, AtText, AtEnd, Stream, Late,
         NEW code \in {250, 500}, EndOf(code)
  PROVE  Late'
<1> SUFFICES ASSUME NEW m \in Messages \ Dotted', m \notin delivered', InSpool(m)'
             PROVE  Behind(m)'
  BY DEF Late
<1>1. /\ server = "data" /\ server' = "idle"
      /\ commands # <<>> /\ commands' = Tail(commands) /\ Ends(Head(commands))
      /\ UNCHANGED <<outbox, at, email, delivered>>
      /\ replies' = Append(replies, code)
  BY DEF EndOf
<1>2. m \in Messages \ Dotted /\ (InSpool(m) \/ text = Text(m))
  BY EndSpool
<1>3. Ending
  BY <1>1 DEF Ending, Types
<1>4. CASE InSpool(m)
  <2>1. at \in {"QUIT", "gone", "terminated"}
    BY <1>1, <1>2, <1>3, <1>4 DEF Late, Behind
  <2> QED BY <1>1, <2>1 DEF Behind
<1>5. CASE text = Text(m) /\ code = 250
  <2>1. at \notin {"RCPT", "DATA"} /\ at \notin {"greeting", "HELO"}
    BY <1>1, <1>3, NothingOpen DEF Calls
  <2>2. Len(replies) \in Nat /\ Len(replies') = Len(replies) + 1
    BY <1>1, ReplyGiven DEF Codes
  <2>3. /\ Len(commands') = Len(commands) - 1 /\ Len(commands) \in Nat
        /\ commands \in Seq(Lines)
    BY <1>1, TakeEffect
  <2>4. Len(commands) > 0 /\ Len(commands') \in Nat
    BY <1>1, <2>3
  <2>5. Pending' = Len(replies') + Len(commands')
    BY DEF Pending
  <2>6. Pending' >= 1
    BY <2>2, <2>4, <2>5
  <2>7. CASE at = "MAIL"
    <3>1. commands[Len(commands)].word = "MAIL"
      BY <1>1, <2>7 DEF Calls
    <3>2. Head(commands).word # "MAIL"
      <4>1. Head(commands).word # "text" => Head(commands).piece = NoPiece
        BY <1>1 DEF Sent, Types
      <4> QED BY <1>1, <4>1 DEF Ends, Proper
    <3>3. Len(commands) # 1
      BY <1>1, <2>3, <3>1, <3>2
    <3>4. Len(commands') >= 1
      BY <2>3, <2>4, <3>3
    <3>5. Pending' >= 2
      BY <2>2, <2>4, <2>5, <3>4
    <3> QED BY <1>1, <2>7, <3>5 DEF Behind
  <2>8. CASE at \in {"idle", "failed"}
    BY <1>1, <2>6, <2>8 DEF Behind
  <2>9. CASE at = "text"
    BY <1>2, <1>5, <2>9, EndAtText
  <2>10. CASE at = "end"
    <3>1. AtEnd' /\ m = email
      BY <1>2, <1>5, <2>10, EndAtEnd
    <3>2. InSpool(email)'
      BY <1>1, <3>1
    <3>3. email \notin Dotted'
      BY <1>1, <3>1
    <3>4. Replied'
      BY <1>1, <2>10, <3>1, <3>3 DEF AtEnd
    <3>5. commands' = <<>> /\ replies' = <<250>>
      BY <1>1, <3>2, <3>4 DEF Replied
    <3> QED BY <1>1, <2>10, <3>1, <3>5 DEF Behind
  <2>11. CASE at \in {"QUIT", "gone", "terminated"}
    BY <1>1, <2>11 DEF Behind
  <2>12. at \in Waits \cup {"text", "idle", "failed", "gone", "terminated"}
    BY DEF Types, TypeOK
  <2> QED BY <2>1, <2>7, <2>8, <2>9, <2>10, <2>11, <2>12 DEF Waits
<1>6. InSpool(m) \/ (text = Text(m) /\ code = 250)
  BY <1>2, EndSpool
<1> QED BY <1>4, <1>5, <1>6

LEMMA TextEndKeeps ==
  ASSUME Proper, IInv, Types', ServeText, Ends(Head(commands))
  PROVE  IInv'
<1>0. Types /\ Sent /\ Calls /\ QuitLast /\ Budgeted /\ AtData /\ AtText /\ AtEnd /\ Stream /\ Late
      /\ ReturnedMeansSpooled /\ SpooledOnce /\ NothingPartial
  BY DEF IInv
<1>1. PICK code \in {250, 500} : EndOf(code)
  BY <1>0, EndOfText
<1>2. /\ server = "data" /\ server' = "idle"
      /\ commands # <<>> /\ commands' = Tail(commands)
      /\ UNCHANGED <<outbox, at, email, delivered>>
      /\ replies' = Append(replies, code)
  BY <1>1 DEF EndOf
<1>3. Ending
  BY <1>0, <1>2 DEF Ending, Types
<1>4. ~Asked /\ ~Ready /\ Count(replies) = 0 /\ at \notin {"RCPT", "DATA"}
  BY <1>0, <1>2, <1>3, NothingOpen
<1>5. Sent' /\ (Asked' => Asked)
  BY <1>0, <1>2, TakeEffect
<1>6. /\ Count(replies') = 0 \/ Count(replies') = 1
      /\ ~Ready'
  BY <1>0, <1>2, <1>4, ReplyGiven DEF Codes
<1>7. /\ QuitLast'
      /\ commands' # <<>> => commands'[Len(commands')] = commands[Len(commands)]
  BY <1>0, <1>2, TakeKeeps
<1>8. Calls'
  BY <1>0, <1>2, <1>7 DEF Calls
<1>9. Budgeted'
  <2>1. Budget' = Count(replies') + Future'
    BY DEF Budget
  <2>2. Future' = 2
    BY <1>2 DEF Future
  <2>3. Budget' = 2 \/ Budget' = 3
    BY <1>6, <2>1, <2>2
  <2>4. ~Open'
    BY <1>2, <1>4, <1>5, <1>6 DEF Open
  <2> QED BY <1>2, <1>4, <2>3, <2>4 DEF Budgeted
<1>10. AtData' /\ Stream'
  BY <1>2, <1>4 DEF AtData, Stream
<1>11. AtText'
  <2>1. at = "text" => AtText'
    BY <1>0, <1>1, EndAtText
  <2> QED BY <1>2, <2>1 DEF AtText
<1>12. AtEnd'
  <2>1. at = "end" => AtEnd'
    BY <1>0, <1>1, EndAtEnd
  <2> QED BY <1>2, <2>1 DEF AtEnd
<1>13. Late'
  BY <1>0, <1>1, EndLate
<1>14. ReturnedMeansSpooled' /\ SpooledOnce' /\ NothingPartial'
  BY <1>0, <1>1, EndSpool
<1> QED BY <1>5, <1>7, <1>8, <1>9, <1>10, <1>11, <1>12, <1>13, <1>14 DEF IInv

-----------------------------------------------------------------------------
(***************************************************************************)
(* The theorems.                                                           *)
(***************************************************************************)

LEMMA InitIInv ==
  ASSUME Proper, Init
  PROVE  IInv
<1> USE DEF Init
<1>1. <<>> \in Seq(Lines) /\ <<>> \in Seq(Seq(Lines)) /\ <<220>> \in Seq(Codes)
  BY DEF Codes
<1>2. 0 \in 0..MaxSends
  BY DEF Proper
<1>3. Types
  <2>1. /\ commands \in Seq(Lines) /\ text \in Seq(Lines) /\ spooled \in Seq(Seq(Lines))
        /\ replies \in Seq(Codes)
    BY <1>1
  <2>2. /\ \A i \in DOMAIN commands : LineOK(commands[i])
        /\ \A i \in DOMAIN text : LineOK(text[i])
        /\ \A i \in DOMAIN spooled : \A j \in DOMAIN spooled[i] : LineOK(spooled[i][j])
    BY <2>1, LinesOK
  <2> HIDE DEF Init
  <2>3. /\ outbox \in Outboxes /\ at = "greeting" /\ canSend = FALSE /\ email = Nobody
        /\ written = 0 /\ server = "new" /\ delivered = {} /\ sends = 0
    BY DEF Init
  <2> QED BY <1>2, <2>1, <2>2, <2>3 DEF Types, TypeOK, Waits
<1>4. Count(replies) = 0
  <2>1. {i \in DOMAIN <<220>> : <<220>>[i] = 250} = {}
    OBVIOUS
  <2>2. Count(<<220>>) = 0
    BY <2>1, FS_EmptySet DEF Count
  <2> QED BY <2>2
<1>5. Budget = 3
  BY <1>4 DEF Budget, Future
<1>6. ~Open
  BY DEF Open, Asked, Ready
<1>7. Budgeted
  BY <1>5, <1>6 DEF Budgeted
<1>8. Sent /\ QuitLast /\ Stream
  BY DEF Sent, QuitLast, Stream
<1>9. Calls
  BY DEF Calls, Asked
<1>10. AtData /\ AtText /\ AtEnd
  BY DEF AtData, AtText, AtEnd
<1>11. Late
  BY DEF Late, InSpool
<1>12. ReturnedMeansSpooled /\ SpooledOnce /\ NothingPartial
  BY DEF ReturnedMeansSpooled, SpooledOnce, NothingPartial
<1> QED BY <1>3, <1>7, <1>8, <1>9, <1>10, <1>11, <1>12 DEF IInv

LEMMA NextIInv ==
  ASSUME Proper, IInv, Next
  PROVE  IInv'
<1>1. Types'
  BY ClientTypes, ServerTypes DEF IInv, Next
<1>2. CASE Client
  <2>1. Plain \/ MailAccepted \/ RcptAccepted \/ DataAccepted \/ WriteText \/ EndText
    BY <1>2 DEF Client, Plain
  <2> QED BY <1>1, <2>1, PlainKeeps, MailAcceptedKeeps, RcptAcceptedKeeps, DataAcceptedKeeps,
             WriteTextKeeps, EndTextKeeps
<1>3. CASE Serve
  BY <1>1, <1>3, ServeKeeps
<1>4. CASE ServeText
  BY <1>1, <1>4, TextLineKeeps, TextEndKeeps
<1>5. CASE Drop
  BY <1>1, <1>5, DropKeeps
<1> QED BY <1>2, <1>3, <1>4, <1>5 DEF Next

LEMMA StutterIInv ==
  ASSUME IInv, UNCHANGED vars
  PROVE  IInv'
<1> USE DEF vars
<1>1. /\ \A m : Text(m)' = Text(m)
      /\ Dotted' = Dotted
      /\ (Ending' <=> Ending) /\ (Asked' <=> Asked) /\ (Ready' <=> Ready)
      /\ Flow' = Flow
  BY DEF Text, Dotted, Ending, Asked, Ready, Flow
<1>2. \A m : InSpool(m)' <=> InSpool(m)
  BY <1>1 DEF InSpool
<1>3. Types' /\ Sent' /\ QuitLast' /\ Calls'
  BY <1>1 DEF IInv, Types, TypeOK, Sent, QuitLast, Calls
<1>4. Budgeted'
  <2>1. Budget' = Budget /\ (Open' <=> Open)
    BY <1>1 DEF Budget, Count, Future, Open
  <2> QED BY <2>1 DEF IInv, Budgeted
<1>5. AtData' /\ AtText'
  BY <1>1, <1>2 DEF IInv, AtData, AtText
<1>6. AtEnd'
  BY <1>1, <1>2 DEF IInv, AtEnd, Replied, Command, Line
<1>7. Stream'
  BY <1>1, <1>2 DEF IInv, Stream, Begun
<1>8. Late'
  BY <1>1, <1>2 DEF IInv, Late, Behind, Pending
<1>9. ReturnedMeansSpooled' /\ SpooledOnce' /\ NothingPartial'
  BY <1>1, <1>2 DEF IInv, ReturnedMeansSpooled, SpooledOnce, NothingPartial
<1> QED BY <1>3, <1>4, <1>5, <1>6, <1>7, <1>8, <1>9 DEF IInv

LEMMA Inductive ==
  ASSUME Proper
  PROVE  Spec => []IInv
<1>1. Init => IInv
  BY InitIInv
<1>2. IInv /\ [Next]_vars => IInv'
  BY NextIInv, StutterIInv
<1> QED BY <1>1, <1>2, PTL DEF Spec

\* The client's and the server's state have their types.
THEOREM TypeCorrect ==
  ASSUME Proper
  PROVE  Spec => []TypeOK
<1>1. IInv => TypeOK
  BY DEF IInv, Types
<1> QED BY Inductive, <1>1, PTL

\* When send returns, the server has spooled that message, whole and by itself,
\* whatever replies were late, refused or lost before.
THEOREM SentMeansSpooled ==
  ASSUME Proper
  PROVE  Spec => []ReturnedMeansSpooled
<1>1. IInv => ReturnedMeansSpooled
  BY DEF IInv
<1> QED BY Inductive, <1>1, PTL

\* However often send is called again for a message after it has thrown, one
\* connection spools the message at most once.
THEOREM NeverSpooledTwice ==
  ASSUME Proper
  PROVE  Spec => []SpooledOnce
<1>1. IInv => SpooledOnce
  BY DEF IInv
<1> QED BY Inductive, <1>1, PTL

\* A send that breaks off leaves no part of a message in the spool.
THEOREM WholeOrNothing ==
  ASSUME Proper
  PROVE  Spec => []NothingPartial
<1>1. IInv => NothingPartial
  BY DEF IInv
<1> QED BY Inductive, <1>1, PTL
=============================================================================
