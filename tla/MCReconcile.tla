---------------------------- MODULE MCReconcile ----------------------------
(***************************************************************************)
(* Instances of module Reconcile for TLC.                                  *)
(***************************************************************************)
EXTENDS Reconcile, TLC

CONSTANTS j1, j2, p1, p2, p3, space, lobby, g, role

KindsOne == [j \in {j1, j2} |-> IF j = j1 THEN {"one", "preview"} ELSE {"one", "all"}]
KindsBoth == [j \in {j1, j2} |-> {"one"}]
KindsAll == [j \in {j1} |-> {"all"}]
OneUser == <<p1>>
TwoUsers == <<p1, p2>>
ThreeUsers == <<p1, p2, p3>>

\* The space holds the lobby.
Inside == [r \in {space, lobby} |-> IF r = space THEN {lobby} ELSE {}]
Flat == [r \in {lobby} |-> {}]

B(s, r, rm, l) == [subject |-> s, root |-> r, remove |-> rm, level |-> l]

\* One binding of the lobby.
OneTable == {<<B(role, lobby, TRUE, 50)>>}

\* A binding of a space, and two bindings at odds over its lobby.
SomeTables ==
    {<<B(role, space, TRUE, 50)>>,
     <<B(g, lobby, FALSE, None), B(role, lobby, TRUE, 50)>>}
=============================================================================
