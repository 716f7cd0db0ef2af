-------------------------------- MODULE Pop3 --------------------------------
(***************************************************************************)
(* iterate_mailbox (pop3.cpp): every message of a POP3 mailbox, newest     *)
(* first, is given to the application, which says whether to remove it.    *)
(* Every so many messages the client logs in again, on a new connection.   *)
(*                                                                         *)
(* The server is external.  A session numbers the messages that are in the *)
(* mailbox when it starts and keeps the numbers; what it deletes is gone   *)
(* only when the server gets its QUIT.  The server may allow one session   *)
(* at a time or several.  Mail arrives meanwhile, and another program may  *)
(* delete some.  A connection may fail at any command.                     *)
(***************************************************************************)
EXTENDS Integers, Sequences, SequencesExt

CONSTANTS
  Batch,       \* messages between two logins, 20 in the code
  MaxMail,     \* bound on the messages that ever exist
  MaxForeign   \* bound on the messages that another program deletes

ASSUME Pop3Assumption ==
  /\ Batch \in Nat \ {0}
  /\ MaxMail \in Nat
  /\ MaxForeign \in Nat

Mail == 1..MaxMail

VARIABLES
  exclusive,  \* whether the server allows one session at a time
  maildrop,   \* the messages in the mailbox, oldest first
  arrived,    \* how many messages there have ever been
  at,         \* where the loop is
  messages,   \* message_count of the first session
  i,          \* the loop's message number
  mailbox,    \* the current session: its messages and those it has deleted
  closing,    \* what sessions whose QUIT is on its way have deleted
  first,      \* the messages of the first session
  read,       \* every message retrieved, in order
  approved,   \* the messages that destroy_message wanted removed
  removed,    \* the messages that are gone because of this program
  foreign,    \* how many another program has deleted
  lost,       \* whether a QUIT was ever lost
  misread     \* whether a count was taken from a reply that is none

server == <<exclusive, maildrop, arrived, removed, foreign, lost>>
client == <<at, messages, i, mailbox, first, read, approved, misread>>
vars == <<server, client, closing>>

\* What is left of a list of messages when some are gone.
Remaining(list, gone) ==
  LET left[n \in 0..Len(list)] ==
        IF n = 0 THEN <<>>
        ELSE IF list[n] \in gone THEN left[n - 1]
        ELSE Append(left[n - 1], list[n])
  IN left[Len(list)]

NoSession == [list |-> <<>>, deleted |-> {}]
Session(list) == [list |-> list, deleted |-> {}]

TypeOK ==
  /\ exclusive \in BOOLEAN
  /\ maildrop \in Seq(Mail) /\ IsInjective(maildrop)
  /\ arrived \in 0..MaxMail
  /\ at \in {"login", "loop", "delete", "relogin", "done", "failed", "shrunk"}
  /\ messages \in 0..MaxMail
  /\ i \in 0..messages
  /\ mailbox \in [list : Seq(Mail), deleted : SUBSET Mail]
  /\ closing \in SUBSET (SUBSET Mail)
  /\ first \in Seq(Mail)
  /\ read \in Seq(Mail)
  /\ approved \in SUBSET Mail
  /\ removed \in SUBSET Mail
  /\ foreign \in 0..MaxForeign
  /\ lost \in BOOLEAN
  /\ misread \in BOOLEAN

Init ==
  /\ exclusive \in BOOLEAN
  /\ arrived \in 0..MaxMail
  /\ maildrop = [n \in 1..arrived |-> n]
  /\ at = "login"
  /\ messages = 0
  /\ i = 0
  /\ mailbox = NoSession
  /\ closing = {}
  /\ first = <<>>
  /\ read = <<>>
  /\ approved = {}
  /\ removed = {}
  /\ foreign = 0
  /\ lost = FALSE
  /\ misread = FALSE

-----------------------------------------------------------------------------
(***************************************************************************)
(* The client.                                                             *)
(***************************************************************************)

\* ~pop3cnx sends QUIT and does not wait for its answer.
QuitSession == closing' = closing \cup {mailbox.deleted}

\* message_count is read from STAT's reply, whatever its status: of an error there
\* is nothing to read, and the count is 0.
MessageCount(ok) == IF ok THEN Len(maildrop) ELSE 0

\* The constructor of the first pop3cnx.
Login ==
  /\ at = "login"
  /\ mailbox' = Session(maildrop)
  /\ first' = maildrop
  /\ \E ok \in BOOLEAN :
       /\ messages' = MessageCount(ok)
       /\ i' = MessageCount(ok)
       /\ misread' = ~ok
  /\ at' = "loop"
  /\ UNCHANGED <<server, closing, read, approved>>

\* Mutant: the message that is removed is the one that has the number now.
Target_stale == IF i <= Len(maildrop) THEN maildrop[i] ELSE mailbox.list[i]

\* The message that the session knows by the loop's number.
Target == mailbox.list[i]

\* The next turn of the loop, by way of a new login after every batch.
Advance ==
  IF i % Batch = 0
    THEN at' = "relogin" /\ UNCHANGED i
    ELSE at' = "loop" /\ i' = i - 1

\* RETR, and unless its text is no UTF-8 the callback is asked.
Retrieve ==
  /\ at = "loop"
  /\ i \in 1..Len(mailbox.list)
  /\ read' = Append(read, mailbox.list[i])
  /\ \/ /\ approved' = approved \cup {mailbox.list[i]}
        /\ at' = "delete"
        /\ UNCHANGED i
     \/ /\ Advance
        /\ UNCHANGED approved
  /\ UNCHANGED <<server, closing, messages, mailbox, first, misread>>

\* DELE.
Delete ==
  /\ at = "delete"
  /\ mailbox' = [mailbox EXCEPT !.deleted = @ \cup {Target}]
  /\ Advance
  /\ UNCHANGED <<server, closing, messages, first, read, approved, misread>>

\* A server with one session at a time refuses another.
MayLogin == ~exclusive

\* Mutant: the session is left without a QUIT.
Relogin_noQuit ==
  /\ at = "relogin"
  /\ MayLogin
  /\ Len(maildrop) >= i
  /\ mailbox' = Session(maildrop)
  /\ i' = i - 1
  /\ at' = "loop"
  /\ UNCHANGED <<server, closing, messages, first, read, approved, misread>>

\* Mutant: the messages are counted anew after a login.
Relogin_recount ==
  /\ at = "relogin"
  /\ MayLogin
  /\ QuitSession
  /\ mailbox' = Session(maildrop)
  /\ i' = Len(maildrop)
  /\ at' = "loop"
  /\ UNCHANGED <<server, messages, first, read, approved, misread>>

\* mailbox.reset(new pop3cnx(...)): the new session starts while the old one
\* is still there, which then quits.
Relogin ==
  /\ at = "relogin"
  /\ MayLogin
  /\ QuitSession
  /\ MessageCount(TRUE) >= i
  /\ mailbox' = Session(maildrop)
  /\ i' = i - 1
  /\ at' = "loop"
  /\ UNCHANGED <<server, messages, first, read, approved, misread>>

\* The count is below the loop's number: out_of_range is thrown, and the new
\* session quits too.
ReloginShrunk ==
  /\ at = "relogin"
  /\ MayLogin
  /\ \E ok \in BOOLEAN :
       /\ MessageCount(ok) < i
       /\ misread' = (misread \/ ~ok)
  /\ closing' = closing \cup {mailbox.deleted, {}}
  /\ mailbox' = NoSession
  /\ at' = "shrunk"
  /\ UNCHANGED <<server, messages, i, first, read, approved>>

\* The loop is over and the session quits.
Done ==
  /\ at = "loop"
  /\ i = 0
  /\ QuitSession
  /\ mailbox' = NoSession
  /\ at' = "done"
  /\ UNCHANGED <<server, messages, i, first, read, approved, misread>>

\* A command fails: an exception, and QUIT goes out if the connection lets it.
\* A DELE that fails may have reached the server.
Fail ==
  /\ at \in {"login", "loop", "delete", "relogin"}
  /\ \/ at = "login" /\ UNCHANGED closing
     \/ at # "login" /\ QuitSession
     \/ at = "delete" /\ closing' = closing \cup {mailbox.deleted \cup {Target}}
  /\ mailbox' = NoSession
  /\ at' = "failed"
  /\ UNCHANGED <<server, messages, i, first, read, approved, misread>>

-----------------------------------------------------------------------------
(***************************************************************************)
(* The server and the world (external).                                    *)
(***************************************************************************)

\* A QUIT reaches the server, which removes what the session has deleted.
Update(deleted) ==
  /\ maildrop' = Remaining(maildrop, deleted)
  /\ removed' = removed \cup (deleted \cap ToSet(maildrop))
  /\ closing' = closing \ {deleted}
  /\ UNCHANGED <<exclusive, arrived, foreign, lost, client>>

\* The connection broke before the QUIT: nothing is removed.
LoseQuit(deleted) ==
  /\ lost' = TRUE
  /\ closing' = closing \ {deleted}
  /\ UNCHANGED <<exclusive, maildrop, arrived, removed, foreign, client>>

Arrive ==
  /\ arrived < MaxMail
  /\ arrived' = arrived + 1
  /\ maildrop' = Append(maildrop, arrived')
  /\ UNCHANGED <<exclusive, removed, foreign, lost, client, closing>>

DeletedElsewhere(m) ==
  /\ foreign < MaxForeign
  /\ foreign' = foreign + 1
  /\ maildrop' = Remaining(maildrop, {m})
  /\ UNCHANGED <<exclusive, arrived, removed, lost, client, closing>>

-----------------------------------------------------------------------------
Client ==
  \/ Login \/ Retrieve \/ Delete \/ Relogin \/ ReloginShrunk \/ Done \/ Fail

Next ==
  \/ Client
  \/ \E deleted \in closing : Update(deleted) \/ LoseQuit(deleted)
  \/ Arrive
  \/ \E m \in ToSet(maildrop) : DeletedElsewhere(m)

Spec == Init /\ [][Next]_vars

-----------------------------------------------------------------------------
(***************************************************************************)
(* Properties.                                                             *)
(***************************************************************************)

\* Only a message that the application has seen and wants removed is removed,
\* whatever arrives, is deleted elsewhere or fails between the logins.
OnlyApprovedRemoved == removed \subseteq approved

\* If no other program deletes any, the messages that were there at the start are
\* read newest first, each once, although the later sessions number the mailbox
\* afresh.  The exceptions are those of a STAT that the server refuses, which is
\* not noticed: the first session then ends normally with no message read, and a
\* later one throws out_of_range although no message has gone.
NewestFirstOnce ==
  foreign = 0 =>
    /\ \A n \in DOMAIN read : read[n] = first[Len(first) - n + 1]
    /\ at = "done" => Len(read) = Len(first) \/ (misread /\ read = <<>>)
    /\ at = "shrunk" => misread

\* When the loop is done and no QUIT was lost, what the application wanted
\* removed is gone.
ApprovedGoes ==
  at = "done" /\ closing = {} /\ ~lost => approved \cap ToSet(maildrop) = {}
=============================================================================
