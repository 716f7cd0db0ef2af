------------------------------ MODULE Sublists ------------------------------
(***************************************************************************)
(* The elements of a sequence at some of its places, in their order: what  *)
(* is left of a list when the others are passed over.  It is written with  *)
(* a set of places, and not with a test of an element as SelectSeq is, so  *)
(* that facts about it can be stated for every such set.                   *)
(***************************************************************************)
EXTENDS Naturals, Sequences

Those(s, places) ==
  LET upto[k \in 0..Len(s)] ==
        IF k = 0 THEN <<>>
        ELSE IF k \in places THEN Append(upto[k - 1], s[k]) ELSE upto[k - 1]
  IN upto[Len(s)]
=============================================================================
