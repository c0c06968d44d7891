------------------------------ MODULE MCLogin ------------------------------
(***************************************************************************)
(* Instances of Login for TLC.                                             *)
(***************************************************************************)
EXTENDS Login, TLC

CONSTANTS t1, t2, ann, bob, eve

Alike == Permutations({t1, t2}) \cup Permutations({ann, bob})
=============================================================================
