------------------------------- MODULE MCMail -------------------------------
(* Two messages and three calls of send, so that one can be sent again after a *)
(* call has thrown.  One message is any text, file or envelope of at most two  *)
(* parts that the iterator gets right; or it has a file that is cut short; or  *)
(* it is a file of three blocks, one a line with a single dot; or a word of its *)
(* header is too long.                                                         *)
EXTENDS Mail, TLC

CONSTANTS mail, other

MCMessages == {mail, other}

P(kind, n) == [kind |-> kind, n |-> n, size |-> n]
Leaf(part) == <<>> :> part
Attachments == {P("memory", 0), P("memory", 1), P("file", 1)}

Envelope(parts) ==
  <<>> :> P("envelope", Len(parts)) @@
  [node \in {<<i>> : i \in DOMAIN parts} |-> parts[node[1]]]

MCTrees ==
  {Leaf(part) : part \in Attachments \cup {P("file", 2), P("file", 3)}}
    \cup {Envelope(parts) : parts \in [1..1 -> Attachments] \cup [1..2 -> {P("memory", 0), P("file", 1)}]}

\* A file of two blocks that can be read up to its n-th; a file that cannot be
\* opened, or is cut in its only block, between other parts.
Short(n) == [kind |-> "file", n |-> n, size |-> 2]
CutTrees ==
  {Leaf(Short(n)) : n \in 0..1}
    \cup {Envelope(<<Short(n), P("memory", 1)>>) : n \in 0..1}

HeaderLine(length, blanks) == [length |-> length, blanks |-> blanks]
Folded == <<HeaderLine(2, {1}), HeaderLine(9, {2, 3, 6})>>
NeverCut == <<HeaderLine(9, {5, 8})>>
TooWide == <<HeaderLine(9, {2, 8})>>

A(tree, dotted, lines) == [tree |-> tree, dotted |-> dotted, lines |-> lines]
MCMails ==
  {mail :> m @@ other :> A(Leaf(P("memory", 1)), FALSE, NeverCut) :
     m \in {A(tree, FALSE, Folded) : tree \in MCTrees \cup CutTrees}
             \cup {A(Leaf(P("file", 3)), TRUE, Folded), A(Leaf(P("memory", 1)), FALSE, TooWide)}}
=============================================================================
