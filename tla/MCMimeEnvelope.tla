--------------------------- MODULE MCMimeEnvelope ---------------------------
(* Files of up to three reads, and envelopes of up to three attachments: text *)
(* that may be empty, a file of one read or of two, an envelope with a text.  *)
EXTENDS MimeEnvelope, TLC

P(kind, n) == [kind |-> kind, n |-> n, size |-> n]
Leaf(part) == <<>> :> part
Nested == <<>> :> P("envelope", 1) @@ <<1>> :> P("memory", 1)

Flat == {Leaf(P("memory", 0)), Leaf(P("memory", 1)), Leaf(P("file", 1))}
Attachments == Flat \cup {Leaf(P("file", 2)), Nested}

\* The envelope of a sequence of trees.
Envelope(parts) ==
  LET Under(i) == {<<i>> \o node : node \in DOMAIN parts[i]}
      nodes == {<<>>} \cup UNION {Under(i) : i \in DOMAIN parts}
  IN [node \in nodes |->
        IF node = <<>> THEN P("envelope", Len(parts)) ELSE parts[node[1]][Tail(node)]]

MCTrees ==
  {Leaf(P("file", n)) : n \in 1..3}
    \cup {Envelope(parts) : parts \in UNION {[1..k -> Attachments] : k \in 1..3}}
=============================================================================
