-------------------------------- MODULE Filter --------------------------------
(***************************************************************************)
(* The elements of a sequence that are in a set, in their order: what      *)
(* Vec::retain and Iterator::filter keep.  It is SelectSeq, with the       *)
(* recursion in the open, so that it can be reasoned about.                *)
(***************************************************************************)
EXTENDS Naturals, Sequences

\* What is kept of the first i elements.
Kept(s, T) ==
    LET kept[i \in 0..Len(s)] ==
          IF i = 0 THEN <<>>
          ELSE IF s[i] \in T THEN Append(kept[i - 1], s[i]) ELSE kept[i - 1]
    IN  kept

Filter(s, T) == Kept(s, T)[Len(s)]
=============================================================================
