---------------------------- MODULE MCTokenCache ----------------------------
(***************************************************************************)
(* Instances of TokenCache for TLC.  A tick is 10 s: the HTTP clients give *)
(* up after one, the margin is three.                                      *)
(***************************************************************************)
EXTENDS TokenCache

CONSTANTS r1, r2
=============================================================================
