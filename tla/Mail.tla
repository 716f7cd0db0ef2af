-------------------------------- MODULE Mail --------------------------------
(***************************************************************************)
(* Sending a message by SMTP (smtp_client::send, smtp.cpp): the session of *)
(* Smtp, in which the text of a message is its headers, printed to a       *)
(* stringstream and folded line by line (headers.cpp), and then each block *)
(* of the iterator of MimeEnvelope as it comes.                            *)
(*                                                                         *)
(* What is printed of a header is known by its length and where its blanks *)
(* are, counted from 0.                                                    *)
(***************************************************************************)
EXTENDS Integers, Sequences, SequencesExt

CONSTANTS
  Messages, Nobody, MaxSends, MaxLines,   \* as in Smtp
  Mails,   \* what the messages may be: functions from messages to records of
           \*   tree: of its parts, as in MimeEnvelope, with what can be
           \*     read of its files
           \*   dotted: whether the second block of a file is a single dot
           \*   lines: its headers, records of length and blanks
  Limit    \* fold_limit of its headers

VARIABLES
  mails,                                  \* the messages
  at, canSend, email, written, commands, replies, server, text, spooled,
  delivered, sends,                       \* of Smtp
  folding,                                \* what is left to print of the headers
  hung,                                   \* whether no time out ends what the
                                          \*   client waits for
  it, output, stage                       \* of MimeEnvelope

Tree == IF email = Nobody THEN <<>> ELSE mails[email].tree

M == INSTANCE MimeEnvelope
       WITH Trees <- {m[k].tree : m \in Mails, k \in Messages}, tree <- Tree

\* The iterator gets the trees right: see MimeEnvelope for those it does not.
ASSUME MailAssumption ==
  /\ Nobody \notin Messages
  /\ MaxSends \in Nat /\ MaxLines \in Nat \ {0} /\ Limit \in Nat
  /\ \A given \in Mails, m \in Messages :
       M!IsTree(given[m].tree) /\ M!KeepsItsBlocks(given[m].tree)

\* A piece is a text of the message: its headers, or what a block shows.
HeaderText == M!Text("headers", M!Root, 0)
Dot == M!Text("dot", M!Root, 0)
Piece(mail, shown) ==
  IF mail.dotted /\ shown.what = "data" /\ shown.k = 2 THEN Dot ELSE shown

PiecesOf(mail, tree_) ==
  <<HeaderText>> \o LET rendered == M!RenderedTree(tree_)
                 IN [i \in DOMAIN rendered |-> Piece(mail, rendered[i])]

\* The pieces of each message, as far as its files can be read.
Outbox(given) == [m \in Messages |-> PiecesOf(given[m], given[m].tree)]

S == INSTANCE Smtp
       WITH outbox <- Outbox(mails), Outboxes <- {Outbox(given) : given \in Mails},
            Dots <- {Dot}, NoPiece <- M!NoText

iteration == <<it, output, stage>>
session == <<at, canSend, email, written, commands, replies, server, text, spooled,
             delivered, sends>>
vars == <<mails, session, folding, iteration, hung>>

\* What is printed of a header.
IsLine(line) == line.length \in Nat /\ line.blanks \subseteq 0..(line.length - 1)

TypeOK ==
  /\ mails \in Mails
  /\ S!TypeOK
  /\ \A i \in DOMAIN folding : IsLine(folding[i])
  /\ folding # <<>> => at = "text" /\ written = 0
  /\ at = "text" => M!TypeOK
  /\ hung \in BOOLEAN

Init ==
  /\ mails \in Mails
  /\ S!Init
  /\ folding = <<>>
  /\ it = <<>> /\ output = <<>> /\ stage = "done"
  /\ hung = FALSE

-----------------------------------------------------------------------------
(***************************************************************************)
(* Printing the headers: fold() of each line.                              *)
(***************************************************************************)

\* Once the server has asked for it, the text is begun.
BeginText ==
  /\ UNCHANGED mails
  /\ S!DataAccepted
  /\ folding' = mails[email].lines
  /\ it' = [node \in DOMAIN Tree |-> M!Fresh]
  /\ output' = <<>>
  /\ stage' = "begin"
  /\ hung' = FALSE

\* The cuts that find_last_of may find for the line that is too long.
Cuts(line) == {b \in line.blanks : b <= Limit}

\* The line is cut at the last of them; the blank begins what is left.
Fold ==
  /\ folding # <<>>
  /\ LET line == Head(folding)
         cut == CHOOSE b \in Cuts(line) : \A c \in Cuts(line) : c <= b
     IN /\ line.length > Limit /\ Cuts(line) # {}
        /\ folding' = [folding EXCEPT ![1] =
             [length |-> @.length - cut, blanks |-> {b - cut : b \in {c \in @.blanks : c >= cut}}]]
  /\ hung' = FALSE
  /\ UNCHANGED <<mails, session, iteration>>

\* The line fits, or cannot be cut.
FoldEnds ==
  /\ folding # <<>>
  /\ Head(folding).length <= Limit \/ Cuts(Head(folding)) = {}
  /\ folding' = Tail(folding)
  /\ hung' = FALSE
  /\ UNCHANGED <<mails, session, iteration>>

-----------------------------------------------------------------------------
(***************************************************************************)
(* Writing the text.                                                       *)
(***************************************************************************)

WriteHeaders ==
  /\ at = "text" /\ folding = <<>> /\ written = 0
  /\ hung' = FALSE
  /\ UNCHANGED <<mails, folding, iteration>>
  /\ S!WritePiece(HeaderText)

WriteBlock ==
  /\ at = "text" /\ written > 0
  /\ hung' = FALSE
  /\ UNCHANGED <<mails, folding>>
  /\ S!WritePiece(Piece(mails[email], M!Shown(it[M!Root].shown)))
  /\ M!Write

NextBlock ==
  /\ at = "text" /\ written > 0
  /\ hung' = FALSE
  /\ UNCHANGED <<mails, session, folding>>
  /\ M!Begin \/ M!Increment

\* A write throws.
TextFails ==
  /\ at = "text" /\ folding = <<>>
  /\ hung' = FALSE
  /\ UNCHANGED <<mails, folding, iteration>>
  /\ S!TextFails

EndText ==
  /\ at = "text" /\ written > 0
  /\ hung' = FALSE
  /\ UNCHANGED <<mails, folding>>
  /\ S!WriteEnd
  /\ M!AtEnd

-----------------------------------------------------------------------------
(***************************************************************************)
(* The session apart from the text, and what may keep the client for ever: *)
(* a write waits until the connection has room for it and has no time out, *)
(* and the time out of a read no longer ends it if its timer's handler ran *)
(* between two parts of the line (see TimedIo).                            *)
(***************************************************************************)

Calls ==
  /\ hung' = FALSE
  /\ UNCHANGED <<mails, folding, iteration>>
  /\ \/ S!Greeted \/ S!Connected
     \/ \E m \in Messages : S!Send(m)
     \/ S!MailAccepted \/ S!RcptAccepted \/ S!Spooled \/ S!WrongReply \/ S!NoReply
     \/ S!Quit \/ S!QuitAccepted

Server ==
  /\ UNCHANGED <<mails, folding, iteration, hung>>
  /\ S!Serve \/ S!ServeText \/ S!Drop

Writing == Fold \/ FoldEnds \/ WriteHeaders \/ WriteBlock \/ NextBlock \/ EndText

\* A wait, or a write, that no time out ends; the server still may.
Hang ==
  /\ ~hung
  /\ at \in S!Waits \/ (at = "text" /\ folding = <<>> /\ (written = 0 \/ stage = "write"))
  /\ hung' = TRUE
  /\ UNCHANGED <<mails, session, folding, iteration>>

Next == BeginText \/ Writing \/ TextFails \/ Calls \/ Server \/ Hang

\* The client's thread goes on, and a wait for a reply comes to an end, if only by
\* the connection's time out, unless it hangs.
Fairness ==
  /\ WF_vars(~hung /\ Writing)
  /\ WF_vars(~hung /\ UNCHANGED <<mails, folding, iteration, hung>> /\ S!NoReply)

Spec == Init /\ [][Next]_vars /\ Fairness

-----------------------------------------------------------------------------
(***************************************************************************)
(* Properties.                                                             *)
(***************************************************************************)

\* The messages of which a file is cut short: send writes what there is of it and
\* ends the text as if it were all.
Cut == {m \in Messages : M!IsCut(mails[m].tree)}

\* The text of a message as the application made it.
Original(m) ==
  LET pieces == PiecesOf(mails[m], M!Entire(mails[m].tree))
  IN [i \in DOMAIN pieces |-> S!Line("text", pieces[i], m)]

\* When send returns, the server has spooled that message as the application made
\* it, its headers and all its parts, and by itself.  Replies that come late are
\* never taken for the answer to a later message.  The exceptions are a message
\* with a line that is a dot, which send does not double, and one of which a file
\* cannot be read to its end, which send does not notice.
ReturnedMeansSpooled == \A m \in delivered \ (S!Dotted \cup Cut) :
  \E i \in DOMAIN spooled : spooled[i] = Original(m)

\* However often send is called again for a message after it has thrown, one
\* connection spools at most once what there is of the message.
SpooledOnce == S!SpooledOnce

\* What is spooled without a dotted message in it, or one with a file cut short,
\* is a whole message: a send that breaks off between two blocks leaves nothing
\* behind.
NothingPartial == \A i \in DOMAIN spooled :
  (\A j \in DOMAIN spooled[i] : spooled[i][j].of \notin S!Dotted \cup Cut) =>
    \E m \in Messages : spooled[i] = Original(m)

\* What the iterator of a message makes the client write is, piece by piece, the
\* message that the session of Smtp sends, as far as its files can be read; the
\* rest of its work goes unseen.
ImplementsSmtp == S!Spec

\* No part of a line from a blank to the next is longer than the limit, so that
\* every line that is left of a fold can be cut again or fits.
Foldable(line) ==
  \A b \in line.blanks :
    line.length - b <= Limit \/ \E c \in line.blanks : b < c /\ c <= b + Limit

\* A call of send ends, whatever the server does, with two exceptions: a word of a
\* header is so long that fold() cuts before it again and again; or from some time
\* on the call hangs in a write that the server takes no more of, or in a read
\* whose time out is lost.
Sending(m) ==
  /\ email = m /\ at \in {"MAIL", "RCPT", "DATA", "text", "end"}
  /\ \A i \in DOMAIN mails[m].lines : Foldable(mails[m].lines[i])
SendEnds == \A m \in Messages :
  Sending(m) ~> (at \in {"idle", "failed", "QUIT", "gone", "terminated"} \/ []hung)
=============================================================================
