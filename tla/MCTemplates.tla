---------------------------- MODULE MCTemplates ----------------------------
(***************************************************************************)
(* Instances of Templates for TLC: three saves and a reader.               *)
(***************************************************************************)
EXTENDS Templates, TLC

CONSTANTS r1, r2, r3, r4, a, b, plain, staff

MCKinds == [r \in {r1, r2, r3, r4} |-> IF r = r4 THEN {"invite", "page"} ELSE {"create", "delete"}]

\* The three savers may do the same; names and grants are interchangeable.
Alike == Permutations({r1, r2, r3}) \cup Permutations({a, b}) \cup Permutations({plain, staff})
=============================================================================
