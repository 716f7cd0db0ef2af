---------------------------- MODULE MimeEnvelope ----------------------------
(***************************************************************************)
(* Iteration over the data of a MIME message (mime.cpp): a message is a    *)
(* tree of parts, mime::const_iterator walks it in blocks, and the sender  *)
(* (respond_on_socket, smtp_client::send, mime_envelope::print_on) writes  *)
(* each block before it asks for the next.                                 *)
(*                                                                         *)
(* A block is a pair of pointers, so it shows what its memory holds when   *)
(* it is written.  Text and binary parts point into the part; a file has a *)
(* buffer of its own that each read overwrites, and an envelope the string *)
(* internal_buffer that is assigned for each delimiter and header block.   *)
(*                                                                         *)
(* A tree maps each node, named by the path to it, to its part; envelopes  *)
(* are nested at most two deep.                                            *)
(***************************************************************************)
EXTENDS Naturals, Sequences, SequencesExt

CONSTANT Trees   \* the messages that may be sent

Kinds == {"envelope", "memory", "file"}

\* How many attachments, or how many blocks of data, a part has, and how many of
\* them its iterator comes to: a file may be shorter by now than it was, or not
\* be opened, or fail to be read, in the middle of a block too.
Part == [kind : Kinds, n : Nat, size : Nat]

Children(tree, node) == {Append(node, i) : i \in 1..tree[node].n}

IsTree(tree) ==
  /\ <<>> \in DOMAIN tree
  /\ tree \in [DOMAIN tree -> Part]
  /\ \A node \in DOMAIN tree :
       /\ Len(node) <= 2
       /\ tree[node].n <= tree[node].size
       /\ tree[node].kind # "file" => tree[node].n = tree[node].size
       /\ tree[node].kind = "memory" => tree[node].n <= 1
       /\ tree[node].kind = "envelope" =>
            tree[node].n > 0 /\ Children(tree, node) \subseteq DOMAIN tree

\* No attachment's iterator uses its memory again while a block in it is to be
\* written: the attachments are in memory, or files of one read.
KeepsItsBlocks(tree) ==
  \A node \in DOMAIN tree \ {<<>>} :
    tree[node].kind = "memory" \/ (tree[node].kind = "file" /\ tree[node].n <= 1)

VARIABLES
  tree,     \* the message
  it,       \* the iterator of each node
  output,   \* what has been written
  stage     \* of the sender's loop

vars == <<tree, it, output, stage>>

Nodes == DOMAIN tree
Root == <<>>

\* A piece of text: the opening delimiter, the one between parts, the closing
\* one, the headers of a part, the k-th block of its data.
Text(what, node, k) == [what |-> what, node |-> node, k |-> k]
NoText == Text("none", Root, 0)

\* const_memory_block: a null one, or one into the memory of a node's iterator.
Null == [null |-> TRUE, node |-> Root]
Block(node) == [null |-> FALSE, node |-> node]

\* An iterator: how far it is, whether it holds an iterator of the attachment
\* it is at, what its memory holds, and the block that its const_iterator shows.
Fresh == [stage |-> "start", at |-> 1, held |-> FALSE, memory |-> NoText, shown |-> Null]

Texts == {"none", "open", "headers", "between", "close", "data"}

TypeOK ==
  /\ tree \in Trees
  /\ DOMAIN it = Nodes
  /\ \A node \in Nodes :
       /\ it[node].stage \in {"start", "attachments", "final"}
       /\ it[node].at \in 1..(tree[node].n + 1)
       /\ it[node].held \in BOOLEAN
       /\ it[node].memory.what \in Texts
       /\ it[node].shown.node \in Nodes
       /\ it[node].held => Append(node, it[node].at) \in Nodes
  /\ \A i \in DOMAIN output : output[i].what \in Texts \ {"none"}
  /\ stage \in {"begin", "write", "next", "done"}

Init ==
  /\ tree \in Trees
  /\ it = [node \in Nodes |-> Fresh]
  /\ output = <<>>
  /\ stage = "begin"

-----------------------------------------------------------------------------
(***************************************************************************)
(* operator()() of each iterator_implementation, as the iterators that it  *)
(* leaves; the block returned becomes the node's shown block.  An envelope *)
(* calls the iterator of the attachment it is at: what that call leaves is *)
(* given to ReadEnvelope, so that a level is written with the one below.   *)
(***************************************************************************)

\* The part has another block: it is in memory, or is read into the buffer.  A
\* file's stream that is not good has none: whether it is at its end, or was not
\* opened or failed, the null block is returned.
ReadPart(its, node) ==
  IF its[node].at <= tree[node].n
    THEN [its EXCEPT ![node].at = @ + 1,
                     ![node].memory = Text("data", node, its[node].at),
                     ![node].shown = Block(node)]
    ELSE [its EXCEPT ![node].shown = Null]

\* internal_buffer is assigned and returned.
Say(its, node, text) ==
  [its EXCEPT ![node].memory = text, ![node].shown = Block(node)]

Start(its, node) ==
  [Say(its, node, Text("open", node, 0)) EXCEPT ![node].stage = "attachments"]

\* The attachment that an envelope is at.
Attachment(its, node) == Append(node, its[node].at)

\* The headers of the attachment, for which an iterator is made; its
\* const_iterator then reads the first block.
EnterPart(its, node) ==
  LET part == Attachment(its, node) IN
    Say([its EXCEPT ![part] = Fresh], node, Text("headers", part, 0))

\* The attachment's block is returned, after its iterator has moved on.
PassPart(its, node, moved) ==
  [moved EXCEPT ![node].shown = its[Attachment(its, node)].shown]

\* Mutant: the last attachment is followed by the delimiter for another.
LeavePart_unclosed(its, node) ==
  LET last == its[node].at = tree[node].n IN
    [Say(its, node, Text("between", node, its[node].at))
       EXCEPT ![node].at = @ + 1, ![node].held = FALSE,
              ![node].stage = IF last THEN "final" ELSE @]

\* Mutant: there is always another attachment.
LeavePart_past(its, node) ==
  [Say(its, node, Text("between", node, its[node].at))
     EXCEPT ![node].at = @ + 1, ![node].held = TRUE]

\* The attachment is at its end: a delimiter, or the closing one.
LeavePart(its, node) ==
  LET last == its[node].at = tree[node].n IN
    [Say(its, node, IF last THEN Text("close", node, 0)
                            ELSE Text("between", node, its[node].at))
       EXCEPT ![node].at = @ + 1, ![node].held = FALSE,
              ![node].stage = IF last THEN "final" ELSE @]

\* One block of an envelope's iterator, by where it is; begun and moved are what
\* the attachment's iterator leaves if it is entered, or passes a block on.
ReadEnvelope(its, node, begun, moved) ==
  LET here == its[node] IN
    CASE here.stage = "start" -> Start(its, node)
      [] here.stage = "final" -> [its EXCEPT ![node].shown = Null]
      [] here.stage = "attachments" /\ ~here.held -> [begun EXCEPT ![node].held = TRUE]
      [] here.stage = "attachments" /\ here.held /\ ~its[Attachment(its, node)].shown.null ->
           PassPart(its, node, moved)
      [] OTHER -> LeavePart(its, node)

\* An attachment may be an envelope itself; its own attachments are none.
ReadAttachment(its, node) ==
  LET part == Attachment(its, node) IN
    IF tree[node].kind = "envelope"
      THEN ReadEnvelope(its, node, ReadPart(EnterPart(its, node), part), ReadPart(its, part))
      ELSE ReadPart(its, node)

Read(its, node) ==
  LET part == Attachment(its, node) IN
    IF tree[node].kind = "envelope"
      THEN ReadEnvelope(its, node, ReadAttachment(EnterPart(its, node), part),
                                   ReadAttachment(its, part))
      ELSE ReadPart(its, node)

\* The message's own iterator.
ReadRoot == Read(it, Root)

-----------------------------------------------------------------------------
(***************************************************************************)
(* The sender's loop, from begin() to end().                               *)
(***************************************************************************)

\* What a block shows now: the part itself for one in memory, else whatever the
\* buffer it points into has been given since.
Shown(block) == it[block.node].memory

Begin ==
  /\ stage = "begin"
  /\ it' = ReadRoot
  /\ stage' = "write"
  /\ UNCHANGED <<tree, output>>

Write ==
  /\ stage = "write"
  /\ ~it[Root].shown.null
  /\ output' = Append(output, Shown(it[Root].shown))
  /\ stage' = "next"
  /\ UNCHANGED <<tree, it>>

Increment ==
  /\ stage = "next"
  /\ it' = ReadRoot
  /\ stage' = "write"
  /\ UNCHANGED <<tree, output>>

AtEnd ==
  /\ stage = "write"
  /\ it[Root].shown.null
  /\ stage' = "done"
  /\ UNCHANGED <<tree, it, output>>

Next == Begin \/ Write \/ Increment \/ AtEnd

Spec == Init /\ [][Next]_vars

-----------------------------------------------------------------------------
(***************************************************************************)
(* Properties.                                                             *)
(***************************************************************************)

\* What the iterator should yield of a message, by the structure of the tree.
RenderedTree(given) ==
  LET Parts(node) == 1..given[node].n
      After(node, i) == IF i = given[node].n THEN Text("close", node, 0)
                                            ELSE Text("between", node, i)
      Render[node \in DOMAIN given] ==
        IF given[node].kind = "envelope"
          THEN <<Text("open", node, 0)>> \o
                 FlattenSeq([i \in Parts(node) |->
                   <<Text("headers", Append(node, i), 0)>>
                     \o Render[Append(node, i)] \o <<After(node, i)>>])
          ELSE [k \in Parts(node) |-> Text("data", node, k)]
  IN Render[Root]

\* The message with its files as they were when it was made.
Entire(given) == [node \in DOMAIN given |-> [given[node] EXCEPT !.n = given[node].size]]
IsCut(given) == \E node \in DOMAIN given : given[node].n < given[node].size

Rendered == RenderedTree(Entire(tree))

SentWhole ==
  /\ IsPrefix(output, Rendered)
  /\ stage = "done" => output = Rendered

\* mime.hpp: "A MIME envelope can contain a nested structure of other MIME
\* containers", so that any message is sent as it is.
AnyMessageIsSentWhole == SentWhole
=============================================================================
