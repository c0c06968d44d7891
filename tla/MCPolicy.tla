------------------------------ MODULE MCPolicy ------------------------------
(***************************************************************************)
(* Instances of Policy for TLC: two keys, two concurrent requests.         *)
(***************************************************************************)
EXTENDS Policy, TLC

CONSTANTS r1, r2, i1, i2, i3, k1, k2, plain, strong, a, b, c

MCKinds == [r \in {r1, r2} |-> IF r = r1 THEN {"create", "update", "delete"} ELSE Kind]
MCMappings == {{}, {k1}, {k1, k2}}
MCListed == <<a, b>>

\* Row ids are interchangeable.
RowIds == Permutations({i1, i2, i3})
=============================================================================
