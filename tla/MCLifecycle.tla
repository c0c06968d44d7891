----------------------------- MODULE MCLifecycle -----------------------------
(***************************************************************************)
(* Instances of Lifecycle for TLC: one room inside one mapped space, and   *)
(* one request (r1) of the kinds a run is about beside one (r2) of any.    *)
(***************************************************************************)
EXTENDS Lifecycle, TLC

CONSTANTS r1, r2, i1, i2, i3, c1, o1, o2, space, room, group

MCRooms == {space, room}
MCChildren == [b \in MCRooms |-> IF b = space THEN {room} ELSE {}]
NoRooms == {}
NoChildren == [b \in NoRooms |-> {}]

\* Which workflows the requests of a run may be.
OffboardAndAny == [r \in {r1, r2} |-> IF r = r1 THEN {"offboard"} ELSE Kind]
AccessAndAny ==
    [r \in {r1, r2} |-> IF r = r1 THEN {"reactivate", "delete", "invite"} ELSE Kind]
AnyAlone == [r \in {r1} |-> Kind]

\* Keycloak's ids are interchangeable, and so are the sessions of a family.
Interchangeable == Permutations({i1, i2, i3}) \cup Permutations({o1, o2})
TwoIds == Permutations({i1, i2})
=============================================================================
