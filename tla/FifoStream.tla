----------------------------- MODULE FifoStream -----------------------------
(***************************************************************************)
(* What every stream of this library promises its reader: the items that   *)
(* the writer wrote, each of them once and in order, one or several at a   *)
(* time.  For a network_connection the items are bytes.                    *)
(***************************************************************************)
EXTENDS Naturals, Sequences

CONSTANT Item

VARIABLES
  sent,      \* every item that has been written
  received   \* every item that has been handed to the reader

vars == <<sent, received>>

Init ==
  /\ sent = <<>>
  /\ received = <<>>

Send(item) ==
  /\ sent' = Append(sent, item)
  /\ UNCHANGED received

\* The next items of the stream, one or many of them, are handed over.
Receive(n) ==
  /\ received' = SubSeq(sent, 1, n)
  /\ UNCHANGED sent

Next ==
  \/ \E item \in Item : Send(item)
  \/ \E n \in (Len(received) + 1)..Len(sent) : Receive(n)

Spec == Init /\ [][Next]_vars
=============================================================================
