-------------------------------- MODULE Smtp --------------------------------
(***************************************************************************)
(* The SMTP client (smtp.cpp) and the server at the other end of its       *)
(* connection, which is external: it answers the client's commands in the  *)
(* order in which they arrive, one reply each, as the client expects of a  *)
(* server, but it may refuse any of them, it may answer late or in several *)
(* lines, and it may drop the connection.                                  *)
(*                                                                         *)
(* The client reads one line for each reply.  Any wait for a line may time *)
(* out, a write of a message's text may throw, and the application may     *)
(* call send again after any of that.                                      *)
(* A reply is its code.  A message's text is written in pieces; which they *)
(* are is up to the message (see Mail).                                    *)
(***************************************************************************)
EXTENDS Integers, Sequences, SequencesExt

CONSTANTS
  Messages,   \* the messages the application wants to send
  Outboxes,   \* their texts: functions from messages to sequences of pieces
  Dots,       \* the pieces that are a line with a single dot
  Nobody,     \* the message that a command's line belongs to
  NoPiece,    \* the piece of text in a command
  MaxSends,   \* bound on the calls of send
  MaxLines    \* bound on the lines of one reply

VARIABLES
  outbox,      \* the texts
  at,          \* where the client is; what it waits for, if it does
  canSend,     \* can_send of the implementation
  email,       \* the message that send was last called for
  written,     \* how many pieces of its text have been written
  commands,    \* lines on their way to the server
  replies,     \* codes on their way to the client
  server,      \* the state of the server's session
  text,        \* what the server has received since it answered 354
  spooled,     \* what it has accepted
  delivered,   \* the messages for which send has returned
  sends        \* the calls of send

vars == <<outbox, at, canSend, email, written, commands, replies, server, text, spooled, delivered, sends>>

Codes == {220, 221, 250, 354, 500}
Words == {"HELO", "MAIL", "RCPT", "DATA", "QUIT", "text", "end"}
Line(word, piece, m) == [word |-> word, piece |-> piece, of |-> m]

Text(m) == [i \in DOMAIN outbox[m] |-> Line("text", outbox[m][i], m)]
Dotted == {m \in Messages : Range(outbox[m]) \cap Dots # {}}

LineOK(line) == line.word \in Words /\ line.of \in Messages \cup {Nobody}

Waits == {"greeting", "HELO", "MAIL", "RCPT", "DATA", "end", "QUIT"}

TypeOK ==
  /\ outbox \in Outboxes
  /\ at \in Waits \cup {"text", "idle", "failed", "gone", "terminated"}
  /\ canSend \in BOOLEAN
  /\ canSend => at \in {"idle", "QUIT", "gone", "terminated"}
  /\ email \in Messages \cup {Nobody}
  /\ written \in Nat
  /\ \A i \in DOMAIN commands : LineOK(commands[i])
  /\ replies \in Seq(Codes)
  /\ server \in {"new", "idle", "mail", "rcpt", "data", "closed"}
  /\ \A i \in DOMAIN text : LineOK(text[i])
  /\ \A i \in DOMAIN spooled : \A j \in DOMAIN spooled[i] : LineOK(spooled[i][j])
  /\ delivered \subseteq Messages
  /\ sends \in 0..MaxSends

\* The connection is open and the server has sent its greeting.
Init ==
  /\ outbox \in Outboxes
  /\ at = "greeting"
  /\ canSend = FALSE
  /\ email = Nobody
  /\ written = 0
  /\ commands = <<>>
  /\ replies = <<220>>
  /\ server = "new"
  /\ text = <<>>
  /\ spooled = <<>>
  /\ delivered = {}
  /\ sends = 0

-----------------------------------------------------------------------------
(***************************************************************************)
(* The client.                                                             *)
(***************************************************************************)

Command(word) == Line(word, NoPiece, Nobody)
Write(lines) == commands' = IF server = "closed" THEN commands ELSE commands \o lines
Session == <<outbox, server, text, spooled>>

\* check(): the next line starts with the code.
Checked(wait, code) ==
  /\ at = wait
  /\ replies # <<>>
  /\ Head(replies) = code
  /\ replies' = Tail(replies)

\* The two checks of the implementation's constructor.
Greeted ==
  /\ Checked("greeting", 220)
  /\ Write(<<Command("HELO")>>)
  /\ at' = "HELO"
  /\ UNCHANGED <<canSend, email, written, Session, delivered, sends>>

Connected ==
  /\ Checked("HELO", 250)
  /\ canSend' = TRUE
  /\ at' = "idle"
  /\ UNCHANGED <<email, written, commands, Session, delivered, sends>>

\* Mutant: the client goes on counting as idle while it sends.
Send_staysIdle(m) ==
  /\ at \in {"idle", "failed"}
  /\ m \notin delivered
  /\ sends < MaxSends
  /\ sends' = sends + 1
  /\ email' = m
  /\ Write(<<Command("MAIL")>>)
  /\ at' = "MAIL"
  /\ UNCHANGED <<canSend, written, replies, Session, delivered>>

\* send is called, the first time or after it has thrown; nothing stops a call
\* on a client whose session has gone wrong.
Send(m) ==
  /\ at \in {"idle", "failed"}
  /\ m \notin delivered
  /\ sends < MaxSends
  /\ sends' = sends + 1
  /\ email' = m
  /\ canSend' = FALSE
  /\ Write(<<Command("MAIL")>>)
  /\ at' = "MAIL"
  /\ UNCHANGED <<written, replies, Session, delivered>>

MailAccepted ==
  /\ Checked("MAIL", 250)
  /\ Write(<<Command("RCPT")>>)
  /\ at' = "RCPT"
  /\ UNCHANGED <<canSend, email, written, Session, delivered, sends>>

RcptAccepted ==
  /\ Checked("RCPT", 250)
  /\ Write(<<Command("DATA")>>)
  /\ at' = "DATA"
  /\ UNCHANGED <<canSend, email, written, Session, delivered, sends>>

\* Mutant: send does not wait for the server to ask for the text.
DataAccepted_unasked ==
  /\ at = "DATA"
  /\ at' = "text"
  /\ written' = 0
  /\ UNCHANGED <<canSend, email, commands, replies, Session, delivered, sends>>

DataAccepted ==
  /\ Checked("DATA", 354)
  /\ at' = "text"
  /\ written' = 0
  /\ UNCHANGED <<canSend, email, commands, Session, delivered, sends>>

\* The headers, then each block of the text, as it is.
WritePiece(piece) ==
  /\ at = "text"
  /\ Write(<<Line("text", piece, email)>>)
  /\ written' = written + 1
  /\ UNCHANGED <<at, canSend, email, replies, Session, delivered, sends>>

WriteText ==
  /\ at = "text"
  /\ written < Len(outbox[email])
  /\ WritePiece(outbox[email][written + 1])

\* Mutant: the text that broke off is ended all the same.
TextFails_ended ==
  /\ at = "text"
  /\ Write(<<Command("end")>>)
  /\ at' = "failed"
  /\ UNCHANGED <<canSend, email, written, replies, Session, delivered, sends>>

\* A write throws on the way: what was written stays written.
TextFails ==
  /\ at = "text"
  /\ at' = "failed"
  /\ UNCHANGED <<canSend, email, written, commands, replies, Session, delivered, sends>>

\* The line that ends the text.
WriteEnd ==
  /\ at = "text"
  /\ Write(<<Command("end")>>)
  /\ at' = "end"
  /\ UNCHANGED <<canSend, email, written, replies, Session, delivered, sends>>

EndText ==
  /\ at = "text"
  /\ written = Len(outbox[email])
  /\ WriteEnd

\* Mutant: any reply to the text will do.
Spooled_unchecked ==
  /\ at = "end"
  /\ replies # <<>>
  /\ replies' = Tail(replies)
  /\ canSend' = TRUE
  /\ delivered' = delivered \cup {email}
  /\ at' = "idle"
  /\ UNCHANGED <<email, written, commands, Session, sends>>

Spooled ==
  /\ Checked("end", 250)
  /\ canSend' = TRUE
  /\ delivered' = delivered \cup {email}
  /\ at' = "idle"
  /\ UNCHANGED <<email, written, commands, Session, sends>>

\* What an exception does: in the constructor there is no client, in send the
\* session stays as it is, and in the implementation's destructor, which is
\* noexcept, it ends the program before ~smtp_client can absorb it.
Thrown ==
  CASE at \in {"greeting", "HELO"} -> "gone"
    [] at = "QUIT"                 -> "terminated"
    [] OTHER                       -> "failed"

WrongReply ==
  /\ \E expected \in Codes :
       /\ <<at, expected>> \in {<<"greeting", 220>>, <<"HELO", 250>>, <<"MAIL", 250>>,
                                <<"RCPT", 250>>, <<"DATA", 354>>, <<"end", 250>>,
                                <<"QUIT", 221>>}
       /\ replies # <<>>
       /\ Head(replies) # expected
  /\ replies' = Tail(replies)
  /\ at' = Thrown
  /\ UNCHANGED <<canSend, email, written, commands, Session, delivered, sends>>

\* Mutant: only the end of the stream ends a wait.
NoReply_patient ==
  /\ at \in Waits
  /\ replies = <<>>
  /\ server = "closed"
  /\ at' = Thrown
  /\ UNCHANGED <<canSend, email, written, commands, replies, Session, delivered, sends>>

\* The wait for a line ends without one: a time out, whether or not the line is
\* on its way, or the end of the stream.
NoReply ==
  /\ at \in Waits
  /\ at' = Thrown
  /\ UNCHANGED <<canSend, email, written, commands, replies, Session, delivered, sends>>

\* The client is destroyed: QUIT if it can send, and the connection closes.
Quit ==
  /\ at \in {"idle", "failed"}
  /\ IF canSend
       THEN Write(<<Command("QUIT")>>) /\ at' = "QUIT"
       ELSE at' = "gone" /\ UNCHANGED commands
  /\ UNCHANGED <<canSend, email, written, replies, Session, delivered, sends>>

QuitAccepted ==
  /\ Checked("QUIT", 221)
  /\ at' = "gone"
  /\ UNCHANGED <<canSend, email, written, commands, Session, delivered, sends>>

-----------------------------------------------------------------------------
(***************************************************************************)
(* The server (external).                                                  *)
(***************************************************************************)

\* The code is sent in one line or in several.
Answer(code) ==
  \E n \in 1..MaxLines : replies' = replies \o [i \in 1..n |-> code]

\* The state in which a command is accepted, its code, and the state after it.
Transitions ==
  {<<"HELO", "new", 250, "idle">>, <<"MAIL", "idle", 250, "mail">>,
   <<"RCPT", "mail", 250, "rcpt">>, <<"DATA", "rcpt", 354, "data">>,
   <<"QUIT", "idle", 221, "closed">>}

\* A command is accepted, or refused with nothing changed.
Serve ==
  /\ server \notin {"closed", "data"}
  /\ commands # <<>>
  /\ \/ /\ \E next \in Transitions :
             /\ next[1] = Head(commands).word
             /\ next[2] = server
             /\ Answer(next[3])
             /\ server' = next[4]
        /\ text' = <<>>
     \/ /\ Answer(500)
        /\ UNCHANGED <<server, text>>
  /\ commands' = Tail(commands)
  /\ UNCHANGED <<outbox, at, canSend, email, written, spooled, delivered, sends>>

\* A line of text, up to the one that is a single dot.
ServeText ==
  /\ server = "data"
  /\ commands # <<>>
  /\ IF Head(commands).word # "end" /\ Head(commands).piece \notin Dots
       THEN /\ text' = Append(text, Head(commands))
            /\ UNCHANGED <<server, spooled, replies>>
       ELSE /\ text' = <<>>
            /\ server' = "idle"
            /\ \/ /\ Answer(250)
                  /\ spooled' = Append(spooled, text)
               \/ /\ Answer(500)
                  /\ UNCHANGED spooled
  /\ commands' = Tail(commands)
  /\ UNCHANGED <<outbox, at, canSend, email, written, delivered, sends>>

\* The server drops the connection.
Drop ==
  /\ server # "closed"
  /\ server' = "closed"
  /\ commands' = <<>>
  /\ text' = <<>>
  /\ UNCHANGED <<outbox, at, canSend, email, written, replies, spooled, delivered, sends>>

-----------------------------------------------------------------------------
Client ==
  \/ Greeted \/ Connected
  \/ \E m \in Messages : Send(m)
  \/ MailAccepted \/ RcptAccepted \/ DataAccepted
  \/ WriteText \/ TextFails \/ EndText \/ Spooled
  \/ WrongReply \/ NoReply
  \/ Quit \/ QuitAccepted

Next == Client \/ Serve \/ ServeText \/ Drop

Spec == Init /\ [][Next]_vars

-----------------------------------------------------------------------------
(***************************************************************************)
(* Properties.                                                             *)
(***************************************************************************)

\* When send returns, the server has spooled that message, whole and by itself.
\* A reply that comes late is never taken for the answer to a later message.  A
\* message with a line that is a dot is the exception: send does not double it.
ReturnedMeansSpooled == \A m \in delivered \ Dotted :
  \E i \in DOMAIN spooled : spooled[i] = Text(m)

\* However often send is called again for a message after it has thrown, one
\* connection spools the message at most once.
SpooledOnce == \A m \in Messages \ Dotted : \A i, j \in DOMAIN spooled :
  spooled[i] = Text(m) /\ spooled[j] = Text(m) => i = j

\* What is spooled without a dotted message in it is a whole message: a send
\* that breaks off leaves nothing behind.
NothingPartial == \A i \in DOMAIN spooled :
  (\A j \in DOMAIN spooled[i] : spooled[i][j].of \notin Dotted) =>
    \E m \in Messages : spooled[i] = Text(m)

\* Destroying the client does not end the program: ~smtp_client absorbs what
\* closing the session throws.
DestructorAbsorbs == at # "terminated"
=============================================================================
