--------------------------- MODULE LifecycleProofs ---------------------------
(***************************************************************************)
(* Proofs about Lifecycle, for every set of requests, rooms, sessions,     *)
(* bindings and faults.                                                    *)
(***************************************************************************)
EXTENDS Lifecycle, FiniteSetTheorems, TLAPS

-----------------------------------------------------------------------------
(***************************************************************************)
(* Type correctness.                                                       *)
(***************************************************************************)

\* Updates of a request's record that several steps make.
LEMMA StageType ==
    ASSUME NEW q \in Request, NEW s \in Stage
    PROVE  [q EXCEPT !.stage = s] \in Request
  BY DEF Request

LEMMA OutType ==
    ASSUME NEW q \in Request, NEW o \in {"none", "ok", "warned", "partial", "err", "cut"}
    PROVE  [q EXCEPT !.out = o] \in Request
  BY DEF Request

LEMMA MoveType ==
    ASSUME NEW q \in Request, NEW s \in Stage, NEW w \in BOOLEAN
    PROVE  [q EXCEPT !.stage = s, !.res = "none", !.warn = w] \in Request
  BY DEF Request

LEMMA SettleType ==
    ASSUME NEW q \in Request
    PROVE  Settle(q) \in Request
  BY DEF Settle, Request

LEMMA AfterType ==
    ASSUME NEW q
    PROVE  /\ AfterSessions(q) \in Stage
           /\ AfterRoom(q) \in Stage
           /\ AfterGrants(q) \in Stage
           /\ \A f : AfterFind(q, f) \in Stage
  BY DEF AfterSessions, AfterRoom, AfterGrants, AfterFind, Stage

LEMMA ProceedType ==
    ASSUME NEW q \in Request
    PROVE  Proceed(q) \in Request
<1>1. CASE q.stage = "finish"
  <2>1. FinishedOnce(q) \in Request
    BY DEF FinishedOnce, Request
  <2>2. QED
    BY <1>1, <2>1, AfterType, StageType DEF Proceed
<1>2. CASE q.stage = "disable" /\ q.kind = "offboard"
  <2>1. Proceed(q) = [q EXCEPT !.stage = IF HasSynapse /\ Bound # {} THEN "expand" ELSE "find",
                     !.todo = IF HasSynapse THEN Bound ELSE {},
                     !.warn = @ \/ (~HasSynapse /\ Bound # {})]
    BY <1>2 DEF Proceed
  <2>2. \A s \in Stage, t \in SUBSET Rooms, w \in BOOLEAN :
            [q EXCEPT !.stage = s, !.todo = t, !.warn = w] \in Request
    BY DEF Request
  <2>3. (IF HasSynapse /\ Bound # {} THEN "expand" ELSE "find") \in Stage
    BY DEF Stage
  <2>4. (IF HasSynapse THEN Bound ELSE {}) \in SUBSET Rooms
    BY RoomsAssumption
  <2>5. (q.warn \/ (~HasSynapse /\ Bound # {})) \in BOOLEAN
    OBVIOUS
  <2>6. [q EXCEPT !.stage = IF HasSynapse /\ Bound # {} THEN "expand" ELSE "find",
                  !.todo = IF HasSynapse THEN Bound ELSE {},
                  !.warn = @ \/ (~HasSynapse /\ Bound # {})] \in Request
    BY <2>2, <2>3, <2>4, <2>5
  <2>7. QED
    BY <2>1, <2>6
<1>3. CASE q.stage = "kick"
  BY <1>3, AfterType, StageType DEF Proceed
<1>4. CASE /\ q.stage \notin {"finish", "kick"}
           /\ ~(q.stage = "disable" /\ q.kind = "offboard")
  <2>1. PICK s \in {"find", "disable", "remove", "email", "end"} :
               Proceed(q) = [q EXCEPT !.stage = s]
    BY <1>4 DEF Proceed
  <2>2. s \in Stage
    BY DEF Stage
  <2>3. [q EXCEPT !.stage = s] \in Request
    BY <2>2, StageType
  <2>4. QED
    BY <2>1, <2>3
<1>5. QED
  BY <1>1, <1>2, <1>3, <1>4

\* The three ways a step leaves req, and the two it leaves faults.
LEMMA BecomeType ==
    ASSUME TypeOK, NEW r \in Req, NEW q \in Request, Become(r, q)
    PROVE  req' \in [Req -> Request]
  BY DEF Become, TypeOK

LEMMA GoToType ==
    ASSUME TypeOK, NEW r \in Req, NEW s \in Stage, NEW w \in BOOLEAN, GoTo(r, s, w)
    PROVE  req' \in [Req -> Request]
<1>1. req[r] \in Request /\ (req[r].warn \/ w) \in BOOLEAN
  BY DEF TypeOK
<1>2. [req[r] EXCEPT !.stage = s, !.res = "none", !.warn = @ \/ w] \in Request
  BY <1>1, MoveType
<1>3. QED
  BY <1>2, SettleType, BecomeType DEF GoTo

LEMMA AbortType ==
    ASSUME TypeOK, NEW r \in Req,
           NEW o \in {"none", "ok", "warned", "partial", "err", "cut"}, Abort(r, o)
    PROVE  req' \in [Req -> Request]
  BY OutType, BecomeType DEF Abort, TypeOK

LEMMA FaultType ==
    ASSUME TypeOK
    PROVE  /\ Fault => faults' \in 0..MaxFaults
           /\ NoFault => faults' \in 0..MaxFaults
<1>1. faults \in 0..MaxFaults /\ MaxFaults \in Nat
  BY BoundsAssumption DEF TypeOK
<1>2. Fault => faults' \in 0..MaxFaults
  BY <1>1 DEF Fault
<1>3. NoFault => faults' \in 0..MaxFaults
  BY <1>1 DEF NoFault
<1>4. QED
  BY <1>2, <1>3

LEMMA AnsweredType ==
    ASSUME TypeOK, NEW r \in Req, NEW a, NEW o \in Object, Answered(r, a, o)
    PROVE  /\ req' \in [Req -> Request]
           /\ tried' \subseteq Call
           /\ faults' \in 0..MaxFaults
           /\ audit' = audit
<1>1. [req[r] EXCEPT !.res = IF a = "ok" THEN "ok" ELSE "err", !.obj = o] \in Request
  <2>1. \A q \in Request, v \in {"ok", "err"} : [q EXCEPT !.res = v, !.obj = o] \in Request
    BY DEF Request
  <2>2. QED
    BY <2>1 DEF TypeOK
<1>2. req[r].stage \in Stage
  BY DEF TypeOK, Request
<1>3. tried' \subseteq Call
  BY <1>2 DEF Answered, Tries, TypeOK, Call
<1>4. QED
  BY <1>1, <1>3, BecomeType, FaultType DEF Answered, Costs

LEMMA ShiftType ==
    ASSUME TypeOK, NEW r \in Req
    PROVE  /\ Raise(r) => raised' \subseteq Req /\ lowered' \subseteq Req
           /\ Lower(r) => raised' \subseteq Req /\ lowered' \subseteq Req
           /\ NoShift => raised' \subseteq Req /\ lowered' \subseteq Req
  BY DEF Raise, Lower, NoShift, Others, TypeOK

LEMMA IdleType == Idle \in Request
  BY DEF Idle, Request, Object, Stage

LEMMA StartType ==
    ASSUME TypeOK, NEW r \in Req, Start(r)
    PROVE  TypeOK'
<1>1. \A k \in Kind, i \in Ids \cup {None}, st \in Stage : Of(k, i, st) \in Request
  BY IdleType DEF Of, Request
<1>2. \A k \in Kind, st \in Stage, s \in Sessions :
          [Of(k, None, st) EXCEPT !.todo = {s}] \in Request
  BY <1>1 DEF Request
<1>3. \A k \in Kind, i \in Ids \cup {None}, st \in Stage :
          [Of(k, i, st) EXCEPT !.out = "err"] \in Request
  BY <1>1 DEF Request
<1>4. {"get_user", "logout", "finish", "check"} \subseteq Stage
  BY DEF Stage
<1>5. PICK q \in Request : Become(r, q)
  <2>1. CASE \/ SubmitDisable(r) \/ SubmitOffboard(r) \/ SubmitReactivate(r)
             \/ SubmitDelete(r) \/ SubmitLogout(r)
    <3>1. PICK k \in Kind, i \in Ids, st \in {"get_user", "logout"} :
            \/ Become(r, Of(k, i, st))
            \/ Become(r, [Of(k, i, st) EXCEPT !.out = "err"])
      BY <2>1 DEF SubmitDisable, SubmitOffboard, SubmitReactivate, SubmitDelete, SubmitLogout,
                  Seen, Kind
    <3>2. QED
      BY <1>1, <1>3, <1>4, <3>1
  <2>2. CASE SubmitRevoke(r)
    BY <1>2, <1>4, <2>2 DEF SubmitRevoke, Kind
  <2>3. CASE SubmitInvite(r)
    BY <1>1, <1>3, <1>4, <2>3 DEF SubmitInvite, Kind
  <2>4. QED
    BY <2>1, <2>2, <2>3 DEF Start
<1>6. req' \in [Req -> Request]
  BY <1>5, BecomeType
<1>7. faults' \in 0..MaxFaults
  BY FaultType DEF Start, SubmitDisable, SubmitOffboard, SubmitReactivate, SubmitDelete,
                   SubmitLogout, SubmitRevoke, SubmitInvite
<1>8. QED
  BY <1>6, <1>7 DEF Start, TypeOK, upstream, history

LEMMA CutType ==
    ASSUME TypeOK, NEW r \in Req, Cut(r)
    PROVE  TypeOK'
<1>1. req' \in [Req -> Request]
  BY AbortType DEF Cut
<1>2. QED
  BY <1>1 DEF Cut, TypeOK, upstream, history

\* A read changes nothing but the request and the count of faults.
LEMMA ReadType ==
    ASSUME TypeOK, NEW r \in Req, req' \in [Req -> Request], faults' \in 0..MaxFaults,
           UNCHANGED <<upstream, audit, history>>
    PROVE  TypeOK'
  BY DEF TypeOK, upstream, history

LEMMA GetUserType ==
    ASSUME TypeOK, NEW r \in Req, GetUser(r)
    PROVE  TypeOK'
<1>1. req' \in [Req -> Request]
  <2>1. {"find_sessions", "enable", "find"} \subseteq Stage
    BY DEF Stage
  <2>2. PICK st \in Stage : Abort(r, "err") \/ GoTo(r, st, FALSE)
    BY <2>1 DEF GetUser
  <2>3. QED
    BY <2>2, AbortType, GoToType
<1>2. QED
  BY <1>1, FaultType, ReadType DEF GetUser

LEMMA GetUserByEmailType ==
    ASSUME TypeOK, NEW r \in Req, GetUserByEmail(r)
    PROVE  TypeOK'
<1>1. "find" \in Stage
  BY DEF Stage
<1>2. req' \in [Req -> Request]
  BY <1>1, AbortType, GoToType DEF GetUserByEmail
<1>3. QED
  BY <1>2, FaultType, ReadType DEF GetUserByEmail

LEMMA FindSessionsType ==
    ASSUME TypeOK, NEW r \in Req, FindSessions(r)
    PROVE  TypeOK'
<1>1. "list_sessions" \in Stage
  BY DEF Stage
<1>2. req' \in [Req -> Request]
  BY <1>1, AfterType, GoToType DEF FindSessions
<1>3. QED
  BY <1>2, FaultType, ReadType DEF FindSessions

LEMMA FindType ==
    ASSUME TypeOK, NEW r \in Req, Find(r)
    PROVE  TypeOK'
<1>1. \A f \in {"unknown", "none"} \cup Known :
        Settle([req[r] EXCEPT !.found = f, !.stage = AfterFind(req[r], f),
                              !.warn = @ \/ (f = "unknown" /\ LookupWarns(req[r]))])
          \in Request
  <2>1. TAKE f \in {"unknown", "none"} \cup Known
  <2>2. \A q \in Request, st \in Stage, w \in BOOLEAN :
            [q EXCEPT !.found = f, !.stage = st, !.warn = w] \in Request
    BY DEF Request
  <2>3. req[r] \in Request
    BY DEF TypeOK
  <2>4. (req[r].warn \/ (f = "unknown" /\ LookupWarns(req[r]))) \in BOOLEAN
    OBVIOUS
  <2>5. [req[r] EXCEPT !.found = f, !.stage = AfterFind(req[r], f),
                       !.warn = @ \/ (f = "unknown" /\ LookupWarns(req[r]))] \in Request
    BY <2>2, <2>3, <2>4, AfterType
  <2>6. QED
    BY <2>5, SettleType
<1>2. mas \in {"unknown", "none"} \cup Known
  BY DEF TypeOK
<1>3. req' \in [Req -> Request]
  BY <1>1, <1>2, BecomeType DEF Find
<1>4. QED
  BY <1>3, FaultType, ReadType DEF Find

LEMMA ListSessionsType ==
    ASSUME TypeOK, NEW r \in Req, ListSessions(r)
    PROVE  TypeOK'
<1>1. PICK C \in Listing(Compat), O \in Listing(OAuth2), lost \in SUBSET {"compat", "oauth2"} :
        /\ faults + Cardinality(lost) <= MaxFaults
        /\ faults' = faults + Cardinality(lost)
        /\ LET p == [req[r] EXCEPT
                     !.todo = (IF "compat" \in lost THEN {} ELSE C)
                              \cup (IF "oauth2" \in lost THEN {} ELSE O),
                     !.warn = @ \/ lost # {}]
           IN  Become(r, [p EXCEPT !.stage = AfterSessions(p)])
  BY DEF ListSessions
<1> DEFINE t == (IF "compat" \in lost THEN {} ELSE C)
                  \cup (IF "oauth2" \in lost THEN {} ELSE O)
           p == [req[r] EXCEPT !.todo = t, !.warn = @ \/ lost # {}]
<1>2. req' \in [Req -> Request]
  <2>1. t \in SUBSET (Sessions \cup Rooms \cup Grants)
    BY DEF Listing, ActiveSessions
  <2>2. (req[r].warn \/ lost # {}) \in BOOLEAN
    OBVIOUS
  <2>3. \A q \in Request, u \in SUBSET (Sessions \cup Rooms \cup Grants), w \in BOOLEAN :
            [q EXCEPT !.todo = u, !.warn = w] \in Request
    BY DEF Request
  <2>4. req[r] \in Request
    BY DEF TypeOK
  <2>5. p \in Request
    BY <2>1, <2>2, <2>3, <2>4
  <2>6. Become(r, [p EXCEPT !.stage = AfterSessions(p)])
    BY <1>1
  <2>7. HIDE DEF p
  <2>8. QED
    BY <2>5, <2>6, StageType, AfterType, BecomeType
<1>3. faults' \in 0..MaxFaults
  <2>1. IsFiniteSet({"compat", "oauth2"})
    <3>1. IsFiniteSet(({} \cup {"compat"}) \cup {"oauth2"})
      BY FS_EmptySet, FS_AddElement
    <3>2. ({} \cup {"compat"}) \cup {"oauth2"} = {"compat", "oauth2"}
      OBVIOUS
    <3>3. QED
      BY <3>1, <3>2
  <2>2. Cardinality(lost) \in Nat
    BY <2>1, FS_Subset, FS_CardinalityType
  <2>3. faults \in Nat /\ MaxFaults \in Nat
    BY BoundsAssumption DEF TypeOK
  <2>4. QED
    BY <1>1, <2>2, <2>3
<1>4. QED
  BY <1>2, <1>3, ReadType DEF ListSessions

LEMMA GetSpaceChildrenType ==
    ASSUME TypeOK, NEW r \in Req, GetSpaceChildren(r)
    PROVE  TypeOK'
<1>1. PICK b \in Rooms : \E near \in SUBSET Rooms, w \in BOOLEAN :
        Become(r, [req[r] EXCEPT !.stage = "visit", !.root = b, !.near = near,
                                 !.todo = @ \ {b}, !.warn = @ \/ w])
  BY RoomsAssumption DEF GetSpaceChildren
<1>2. PICK near \in SUBSET Rooms, w \in BOOLEAN :
        Become(r, [req[r] EXCEPT !.stage = "visit", !.root = b, !.near = near,
                                 !.todo = @ \ {b}, !.warn = @ \/ w])
  BY <1>1
<1>3. \A q \in Request, st \in Stage, t \in SUBSET (Sessions \cup Rooms \cup Grants), v \in BOOLEAN :
        [q EXCEPT !.stage = st, !.root = b, !.near = near, !.todo = t, !.warn = v] \in Request
  BY ZenonT(60) DEF Request
<1>4. req[r] \in Request /\ "visit" \in Stage
  BY DEF TypeOK, Stage
<1>5. req[r].todo \ {b} \in SUBSET (Sessions \cup Rooms \cup Grants)
  BY <1>4 DEF Request
<1>6. (req[r].warn \/ w) \in BOOLEAN
  OBVIOUS
<1>7. [req[r] EXCEPT !.stage = "visit", !.root = b, !.near = near,
                     !.todo = @ \ {b}, !.warn = @ \/ w] \in Request
  BY <1>3, <1>4, <1>5, <1>6
<1>8. req' \in [Req -> Request]
  BY <1>2, <1>7, BecomeType
<1>9. QED
  BY <1>8, FaultType, ReadType DEF GetSpaceChildren

LEMMA GetJoinedRoomMembersType ==
    ASSUME TypeOK, NEW r \in Req, GetJoinedRoomMembers(r)
    PROVE  TypeOK'
<1>1. PICK t \in req[r].near :
         LET p == [req[r] EXCEPT !.near = @ \ {t}, !.obj = t]
         IN  \/ Become(r, [p EXCEPT !.stage = "kick"])
             \/ Become(r, [p EXCEPT !.stage = AfterRoom(p)])
             \/ Become(r, [p EXCEPT !.stage = AfterRoom(p), !.warn = TRUE])
  BY DEF GetJoinedRoomMembers
<1> DEFINE p == [req[r] EXCEPT !.near = @ \ {t}, !.obj = t]
<1>2. p \in Request
  <2>1. \A q \in Request, n \in SUBSET Rooms, o \in Object :
            [q EXCEPT !.near = n, !.obj = o] \in Request
    BY DEF Request
  <2>2. req[r] \in Request
    BY DEF TypeOK
  <2>3. req[r].near \subseteq Rooms
    BY <2>2 DEF Request
  <2>4. t \in Object
    BY <2>3 DEF Object
  <2>5. QED
    BY <2>1, <2>2, <2>3, <2>4
<1>3. \A q \in Request, st \in Stage : [q EXCEPT !.stage = st, !.warn = TRUE] \in Request
  BY DEF Request
<1>4. "kick" \in Stage
  BY DEF Stage
<1>5. \/ Become(r, [p EXCEPT !.stage = "kick"])
      \/ Become(r, [p EXCEPT !.stage = AfterRoom(p)])
      \/ Become(r, [p EXCEPT !.stage = AfterRoom(p), !.warn = TRUE])
  BY <1>1
<1> HIDE DEF p
<1>6. req' \in [Req -> Request]
  BY <1>2, <1>3, <1>4, <1>5, StageType, AfterType, BecomeType
<1>7. QED
  BY <1>6, FaultType, ReadType DEF GetJoinedRoomMembers

LEMMA FinishSessionType ==
    ASSUME TypeOK, NEW r \in Req, FinishSession(r)
    PROVE  TypeOK'
<1>1. PICK s \in Sessions : \E a :
         /\ Answered(r, a, s)
         /\ sess' = IF Applied(a) THEN [sess EXCEPT ![s] = "finished"] ELSE sess
  BY DEF FinishSession
<1>2. s \in Object
  BY DEF Object
<1>3. QED
  BY <1>1, <1>2, AnsweredType, ShiftType DEF FinishSession, TypeOK

LEMMA LogoutUserType ==
    ASSUME TypeOK, NEW r \in Req, LogoutUser(r)
    PROVE  TypeOK'
<1>1. PICK a : Answered(r, a, None) /\ sso' = (sso /\ ~Applied(a))
  BY DEF LogoutUser
<1>2. None \in Object
  BY DEF Object
<1>3. sso' \in BOOLEAN
  BY <1>1
<1>4. QED
  BY <1>1, <1>2, <1>3, AnsweredType, ShiftType DEF LogoutUser, TypeOK

LEMMA DisableUserType ==
    ASSUME TypeOK, NEW r \in Req, DisableUser(r)
    PROVE  TypeOK'
<1>1. PICK a : /\ Answered(r, a, None)
               /\ kc' = IF Applied(a) THEN [kc EXCEPT ![req[r].id] = "disabled"] ELSE kc
               /\ IF Applied(a) THEN Lower(r) ELSE NoShift
  BY DEF DisableUser
<1>2. None \in Object
  BY DEF Object
<1>3. QED
  BY <1>1, <1>2, AnsweredType, ShiftType DEF DisableUser, TypeOK

LEMMA EnableUserType ==
    ASSUME TypeOK, NEW r \in Req, EnableUser(r)
    PROVE  TypeOK'
<1>1. PICK a : /\ Answered(r, a, None)
               /\ kc' = IF Applied(a) THEN [kc EXCEPT ![req[r].id] = "enabled"] ELSE kc
               /\ IF Applied(a) THEN Raise(r) ELSE NoShift
  BY DEF EnableUser
<1>2. None \in Object
  BY DEF Object
<1>3. QED
  BY <1>1, <1>2, AnsweredType, ShiftType DEF EnableUser, TypeOK

LEMMA DeleteUserType ==
    ASSUME TypeOK, NEW r \in Req, DeleteUser(r)
    PROVE  TypeOK'
<1>1. PICK a : /\ Answered(r, a, None)
               /\ kc' = IF Applied(a) THEN [kc EXCEPT ![req[r].id] = "gone"] ELSE kc
               /\ sso' = (sso /\ ~Applied(a))
               /\ grants' = IF Applied(a) THEN {} ELSE grants
               /\ IF Applied(a) THEN Lower(r) ELSE NoShift
  BY DEF DeleteUser
<1>2. None \in Object
  BY DEF Object
<1>3. sso' \in BOOLEAN
  BY <1>1
<1>4. QED
  BY <1>1, <1>2, <1>3, AnsweredType, ShiftType DEF DeleteUser, TypeOK

LEMMA DeactivateUserType ==
    ASSUME TypeOK, NEW r \in Req, DeactivateUser(r)
    PROVE  TypeOK'
<1>1. PICK a : /\ Answered(r, a, None)
               /\ mas' = IF Applied(a) THEN "deactivated" ELSE mas
               /\ sess' = [s \in Sessions |->
                     IF Applied(a) /\ sess[s] = "active" THEN "finished" ELSE sess[s]]
               /\ IF Applied(a) THEN Lower(r) ELSE NoShift
  BY DEF DeactivateUser
<1>2. None \in Object
  BY DEF Object
<1>3. sess' \in [Sessions -> {"unused", "active", "finished"}]
  BY <1>1 DEF TypeOK
<1>4. mas' \in {"none"} \cup Known
  BY <1>1 DEF TypeOK, Known
<1>5. QED
  BY <1>1, <1>2, <1>3, <1>4, AnsweredType, ShiftType DEF DeactivateUser, TypeOK

LEMMA ReactivateUserType ==
    ASSUME TypeOK, NEW r \in Req, ReactivateUser(r)
    PROVE  TypeOK'
<1>1. PICK a : /\ Answered(r, a, None)
               /\ mas' = IF Applied(a) THEN "active" ELSE mas
               /\ IF Applied(a) THEN Raise(r) ELSE NoShift
  BY DEF ReactivateUser
<1>2. None \in Object
  BY DEF Object
<1>3. mas' \in {"none"} \cup Known
  BY <1>1 DEF TypeOK, Known
<1>4. QED
  BY <1>1, <1>2, <1>3, AnsweredType, ShiftType DEF ReactivateUser, TypeOK

LEMMA KickUserType ==
    ASSUME TypeOK, NEW r \in Req, KickUser(r)
    PROVE  TypeOK'
<1>1. PICK a : /\ Answered(r, a, req[r].obj)
               /\ rooms' = IF Applied(a) THEN rooms \ {req[r].obj} ELSE rooms
  BY DEF KickUser
<1>2. req[r].obj \in Object
  BY DEF TypeOK, Request
<1>3. QED
  BY <1>1, <1>2, AnsweredType, ShiftType DEF KickUser, TypeOK

LEMMA SendInviteEmailType ==
    ASSUME TypeOK, NEW r \in Req, SendInviteEmail(r)
    PROVE  TypeOK'
<1>1. PICK a : Answered(r, a, None)
  BY DEF SendInviteEmail
<1>2. None \in Object
  BY DEF Object
<1>3. QED
  BY <1>1, <1>2, AnsweredType, ShiftType DEF SendInviteEmail, TypeOK, upstream

LEMMA CreateUserType ==
    ASSUME TypeOK, NEW r \in Req, CreateUser(r)
    PROVE  TypeOK'
<1>1. PICK i \in Ids : \E a :
         LET p == [req[r] EXCEPT !.id = i, !.todo = Grants] IN
         /\ Costs(a)
         /\ Tries(r, None)
         /\ Become(r, IF a = "ok" THEN [p EXCEPT !.stage = AfterGrants(p)]
                                  ELSE [req[r] EXCEPT !.out = "err"])
         /\ kc' = IF Applied(a) THEN [kc EXCEPT ![i] = "enabled"] ELSE kc
         /\ IF Applied(a) THEN Raise(r) ELSE NoShift
  BY DEF CreateUser
<1> DEFINE p == [req[r] EXCEPT !.id = i, !.todo = Grants]
<1>2. req[r] \in Request
  BY DEF TypeOK
<1>3. p \in Request
  BY <1>2 DEF Request
<1>4. tried' \subseteq Call
  BY <1>1, <1>2 DEF Tries, TypeOK, Call, Object, Request
<1>5. req' \in [Req -> Request]
  <2>1. \/ Become(r, [p EXCEPT !.stage = AfterGrants(p)])
        \/ Become(r, [req[r] EXCEPT !.out = "err"])
    BY <1>1
  <2>2. HIDE DEF p
  <2>3. QED
    BY <1>2, <1>3, <2>1, StageType, OutType, AfterType, BecomeType
<1>6. kc' \in [Ids -> {"absent", "enabled", "disabled", "gone"}]
  BY <1>1 DEF TypeOK
<1>7. faults' \in 0..MaxFaults
  BY <1>1, FaultType DEF Costs
<1>8. raised' \subseteq Req /\ lowered' \subseteq Req
  BY <1>1, ShiftType
<1>9. QED
  BY <1>4, <1>5, <1>6, <1>7, <1>8 DEF CreateUser, TypeOK

LEMMA AddGrantType ==
    ASSUME TypeOK, NEW r \in Req, AddGrant(r)
    PROVE  TypeOK'
<1>1. PICK g \in Grants : \E a :
         LET p == [req[r] EXCEPT !.todo = @ \ {g},
                                 !.given = IF a = "ok" THEN @ \cup {g} ELSE @]
         IN  /\ Costs(a)
             /\ IF a = "skipped" THEN UNCHANGED tried ELSE Tries(r, None)
             /\ Become(r, [p EXCEPT !.stage = AfterGrants(p)])
             /\ grants' = IF Applied(a) THEN grants \cup {g} ELSE grants
  BY DEF AddGrant
<1>2. PICK a :
         LET p == [req[r] EXCEPT !.todo = @ \ {g},
                                 !.given = IF a = "ok" THEN @ \cup {g} ELSE @]
         IN  /\ Costs(a)
             /\ IF a = "skipped" THEN UNCHANGED tried ELSE Tries(r, None)
             /\ Become(r, [p EXCEPT !.stage = AfterGrants(p)])
             /\ grants' = IF Applied(a) THEN grants \cup {g} ELSE grants
  BY <1>1
<1> DEFINE p == [req[r] EXCEPT !.todo = @ \ {g},
                               !.given = IF a = "ok" THEN @ \cup {g} ELSE @]
<1>3. req[r] \in Request
  BY DEF TypeOK
<1>4. p \in Request
  <2>1. \A q \in Request, t \in SUBSET (Sessions \cup Rooms \cup Grants), v \in SUBSET Grants :
            [q EXCEPT !.todo = t, !.given = v] \in Request
    BY DEF Request
  <2>2. req[r].todo \in SUBSET (Sessions \cup Rooms \cup Grants) /\ req[r].given \in SUBSET Grants
    BY <1>3 DEF Request
  <2>3. (IF a = "ok" THEN req[r].given \cup {g} ELSE req[r].given) \in SUBSET Grants
    BY <2>2
  <2>4. req[r].todo \ {g} \in SUBSET (Sessions \cup Rooms \cup Grants)
    BY <2>2
  <2>5. QED
    BY <1>3, <2>1, <2>3, <2>4
<1>5. req' \in [Req -> Request]
  <2>1. Become(r, [p EXCEPT !.stage = AfterGrants(p)])
    BY <1>2
  <2>2. HIDE DEF p
  <2>3. QED
    BY <1>4, <2>1, StageType, AfterType, BecomeType
<1>6. tried' \subseteq Call
  BY <1>2, <1>3 DEF Tries, TypeOK, Call, Object, Request
<1>7. grants' \subseteq Grants /\ faults' \in 0..MaxFaults
  BY <1>2, FaultType DEF Costs, TypeOK
<1>8. QED
  BY <1>5, <1>6, <1>7, ShiftType DEF AddGrant, TypeOK

LEMMA AuditType ==
    ASSUME TypeOK, NEW r \in Req, Audit(r)
    PROVE  TypeOK'
<1>1. PICK logged \in BOOLEAN :
         /\ IF logged THEN NoFault ELSE Fault
         /\ audit' = IF logged THEN audit \cup {Entry(r, req[r])} ELSE audit
         /\ LET ok == logged /\ req[r].res = "ok"
                p  == [req[r] EXCEPT !.lost = @ \/ ~logged]
            IN  \/ Become(r, Settle([Proceed(p) EXCEPT !.res = "none", !.warn = @ \/ ~ok]))
                \/ Become(r, [p EXCEPT !.out = IF logged /\ PartlyDone(req[r]) THEN "partial"
                                                                              ELSE "err"])
  BY DEF Audit
<1> DEFINE p == [req[r] EXCEPT !.lost = @ \/ ~logged]
           m == [Proceed(p) EXCEPT !.res = "none", !.warn = @ \/ ~(logged /\ req[r].res = "ok")]
           o == IF logged /\ PartlyDone(req[r]) THEN "partial" ELSE "err"
<1>2. req[r] \in Request
  BY DEF TypeOK
<1>3. p \in Request
  <2>1. \A q \in Request, v \in BOOLEAN : [q EXCEPT !.lost = v] \in Request
    BY DEF Request
  <2>2. (req[r].lost \/ ~logged) \in BOOLEAN
    OBVIOUS
  <2>3. QED
    BY <1>2, <2>1, <2>2
<1>4. m \in Request
  <2>1. \A q \in Request, v \in BOOLEAN : [q EXCEPT !.res = "none", !.warn = v] \in Request
    BY DEF Request
  <2>2. (Proceed(p).warn \/ ~(logged /\ req[r].res = "ok")) \in BOOLEAN
    OBVIOUS
  <2>3. Proceed(p) \in Request
    <3> HIDE DEF p
    <3> QED
      BY <1>3, ProceedType
  <2>4. QED
    BY <2>1, <2>2, <2>3
<1>5. req' \in [Req -> Request]
  <2>1. Become(r, Settle(m)) \/ Become(r, [p EXCEPT !.out = o])
    BY <1>1
  <2>2. o \in {"none", "ok", "warned", "partial", "err", "cut"}
    OBVIOUS
  <2> HIDE DEF p, m, o
  <2>3. QED
    BY <1>3, <1>4, <2>1, <2>2, SettleType, OutType, BecomeType
<1>6. Entry(r, req[r]) \in AuditEntry
  <2>1. req[r].stage \in Stage /\ req[r].obj \in Object /\ req[r].given \in SUBSET Grants
    BY <1>2 DEF Request
  <2>2. QED
    BY <2>1 DEF Entry, AuditEntry
<1>7. audit' \subseteq AuditEntry
  BY <1>1, <1>6 DEF TypeOK
<1>8. faults' \in 0..MaxFaults
  BY <1>1, FaultType
<1>9. QED
  BY <1>5, <1>7, <1>8 DEF Audit, TypeOK, upstream, history

LEMMA PersonType ==
    ASSUME TypeOK, Person
    PROVE  TypeOK'
<1>1. ASSUME NEW s \in Sessions, Login(s)
      PROVE  TypeOK'
  <2>1. sess' \in [Sessions -> {"unused", "active", "finished"}]
    BY <1>1 DEF Login, TypeOK
  <2>2. QED
    BY <1>1, <2>1 DEF Login, TypeOK, Known, history
<1>2. ASSUME NEW t \in Rooms, Join(t)
      PROVE  TypeOK'
  BY <1>2 DEF Join, TypeOK, history
<1>3. QED
  BY <1>1, <1>2 DEF Person

LEMMA InitType ==
    ASSUME Init
    PROVE  TypeOK
<1>1. req \in [Req -> Request]
  BY IdleType DEF Init
<1>2. sso \in BOOLEAN
  <2>1. (\E i \in Ids : kc[i] \in Live) \in BOOLEAN
    OBVIOUS
  <2>2. sso = FALSE \/ sso = (\E i \in Ids : kc[i] \in Live)
    BY DEF Init
  <2>3. QED
    BY <2>1, <2>2
<1>3. 0 \in 0..MaxFaults
  BY BoundsAssumption
<1>4. rooms \subseteq Rooms
  BY DEF Init
<1>5. /\ kc \in [Ids -> {"absent", "enabled", "disabled", "gone"}]
      /\ sess \in [Sessions -> {"unused", "active", "finished"}]
  BY DEF Init
<1>6. QED
  BY <1>1, <1>2, <1>3, <1>4, <1>5 DEF Init, TypeOK, Known

LEMMA StepType ==
    ASSUME TypeOK, NEW r \in Req, Step(r)
    PROVE  TypeOK'
  BY GetUserType, FindSessionsType, ListSessionsType, FindType, GetSpaceChildrenType,
     GetJoinedRoomMembersType, GetUserByEmailType, FinishSessionType, LogoutUserType,
     DisableUserType, EnableUserType, DeleteUserType, DeactivateUserType,
     ReactivateUserType, KickUserType, CreateUserType, AddGrantType,
     SendInviteEmailType, AuditType
  DEF Step, Read, Mutate

LEMMA NextType == TypeOK /\ [Next]_vars => TypeOK'
<1>1. ASSUME TypeOK, Next
      PROVE  TypeOK'
  BY <1>1, StartType, CutType, StepType, PersonType DEF Next, Program
<1>2. ASSUME TypeOK, UNCHANGED vars
      PROVE  TypeOK'
  BY <1>2 DEF TypeOK, vars, upstream, history
<1>3. QED
  BY <1>1, <1>2

\* Every reachable state is well typed, however many requests, rooms, sessions
\* and faults there are: the workflows never leave their stages, and an audit
\* entry is always about a known object.
THEOREM TypeCorrect == Spec => []TypeOK
  <1>1. Init => TypeOK
  BY InitType
<1>2. QED
  BY <1>1, NextType, PTL DEF Spec

-----------------------------------------------------------------------------
(***************************************************************************)
(* An offboarding that reports success without a warning has taken every   *)
(* access away: the proof of CleanOffboard for every set of requests,      *)
(* rooms, bindings, sessions and faults.                                   *)
(*                                                                         *)
(* CleanOffboard is not inductive.  It is the last step of what the        *)
(* workflow builds up: past the disabling no Keycloak user is enabled, so  *)
(* nobody logs in or joins; the mapped rooms the person is still in are    *)
(* among those the loop has yet to visit; MAS is dealt with before the     *)
(* end.  Every other request either leaves that alone or gives access      *)
(* back, and then the offboarding is in raised.                            *)
(***************************************************************************)

(***************************************************************************)
(* The inductive invariant.                                                *)
(***************************************************************************)
EnabledIn(K) == \E i \in Ids : K[i] = "enabled"

Looping == {"expand", "visit", "kick"}
PastDisable == Looping \cup {"find", "deactivate", "end"}
BeforeDisable == {"get_user", "find_sessions", "list_sessions", "finish", "logout"}
Audited == {"finish", "logout", "disable", "kick", "deactivate"}

\* Rooms the kick loop has still to visit, and those it has still to deal with.
ToVisit(q) ==
    q.near \cup (q.todo \cap Rooms) \cup UNION {Children[b] : b \in q.todo \cap Rooms}
Left(q) ==
    (IF q.stage \in Looping THEN ToVisit(q) ELSE {})
    \cup (IF q.stage = "kick" /\ q.res # "ok" THEN {q.obj} ELSE {})

Locked(q) == q.stage \in PastDisable \/ (q.stage = "disable" /\ q.res = "ok")
Closed(q) == (q.stage = "deactivate" /\ q.res = "ok") \/ (q.stage = "end" /\ ~q.warn)

\* What an offboarding that has come as far as q can rely on, when Keycloak's
\* users are K, the MAS account is m and the person is in the rooms R.
Off(q, K, m, R) ==
    /\ q.stage \in BeforeDisable \cup {"disable"} \cup PastDisable
    /\ q.res # "none" => q.stage \in Audited
    /\ q.stage \notin {"visit", "kick"} => q.near = {}
    /\ Locked(q) => ~EnabledIn(K)
    /\ Closed(q) => m # "active"
    /\ q.stage \in PastDisable /\ ~q.warn => R \cap Mapped \subseteq Left(q)
    /\ q.out = "ok" => q.stage = "end" /\ ~q.warn

OneLiveId == \A i, j \in Ids : kc[i] \in Live /\ kc[j] \in Live => i = j
LockedOut == mas # "active" => ActiveSessions = {}
OffInv ==
    \A r \in Req \ raised : req[r].kind = "offboard" => Off(req[r], kc, mas, rooms)

IInv == TypeOK /\ OneLiveId /\ LockedOut /\ OffInv

LEMMA IInvSafe == IInv => CleanOffboard
<1> SUFFICES ASSUME IInv, NEW r \in Req \ raised,
                    req[r].kind = "offboard", req[r].out = "ok"
             PROVE  ~Enabled /\ mas # "active" /\ ActiveSessions = {} /\ rooms \cap Mapped = {}
  BY DEF CleanOffboard
<1>1. Off(req[r], kc, mas, rooms)
  BY DEF IInv, OffInv
<1>2. req[r].stage = "end" /\ ~req[r].warn
  BY <1>1 DEF Off
<1>3. ~Enabled
  BY <1>1, <1>2 DEF Off, Locked, PastDisable, EnabledIn, Enabled
<1>4. mas # "active"
  BY <1>1, <1>2 DEF Off, Closed
<1>5. ActiveSessions = {}
  BY <1>4 DEF IInv, LockedOut
<1>6. Left(req[r]) = {}
  BY <1>2 DEF Left, Looping
<1>7. rooms \cap Mapped = {}
  BY <1>1, <1>2, <1>6 DEF Off, PastDisable
<1>8. QED
  BY <1>3, <1>4, <1>5, <1>7

LEMMA IInvInit == Init => IInv
<1> SUFFICES ASSUME Init PROVE IInv
  OBVIOUS
<1>1. TypeOK
  BY InitType
<1>2. OneLiveId
  BY DEF Init, OneLiveId
<1>3. LockedOut
  BY DEF Init, LockedOut
<1>4. OffInv
  BY DEF Init, OffInv, Idle
<1>5. QED
  BY <1>1, <1>2, <1>3, <1>4 DEF IInv

-----------------------------------------------------------------------------
(***************************************************************************)
(* At most one Keycloak user at a time, and no sessions without an account. *)
(***************************************************************************)
LEMMA BecomeReq ==
    ASSUME TypeOK, NEW r \in Req, NEW q, Become(r, q)
    PROVE  /\ req'[r] = q
           /\ \A p \in Req \ {r} : req'[p] = req[p]
  BY DEF Become, TypeOK

LEMMA OneLiveStep ==
    ASSUME TypeOK, OneLiveId, [Next]_vars
    PROVE  OneLiveId'
<1>1. CASE kc' = kc
  BY <1>1 DEF OneLiveId
<1>2. ASSUME NEW r \in Req, DisableUser(r) \/ EnableUser(r) \/ DeleteUser(r)
      PROVE  OneLiveId'
  <2>1. \/ kc' = kc
        \/ /\ kc[req[r].id] \in Live
           /\ \E v \in {"disabled", "enabled", "gone"} : kc' = [kc EXCEPT ![req[r].id] = v]
    BY <1>2 DEF DisableUser, EnableUser, DeleteUser, Answers, Applied
  <2>2. QED
    BY <2>1 DEF OneLiveId, TypeOK, Live
<1>3. ASSUME NEW r \in Req, CreateUser(r)
      PROVE  OneLiveId'
  <2>1. \/ kc' = kc
        \/ /\ \A j \in Ids : kc[j] \notin Live
           /\ \E i \in Ids : kc' = [kc EXCEPT ![i] = "enabled"]
    BY <1>3 DEF CreateUser, Answers, Applied
  <2>2. QED
    BY <2>1 DEF OneLiveId, TypeOK, Live
<1>4. kc' = kc \/ \E r \in Req : DisableUser(r) \/ EnableUser(r) \/ DeleteUser(r) \/ CreateUser(r)
  BY DEF Next, Program, Person, Start, Cut, Step, Read, Mutate, Audit, Login, Join,
         GetUser, FindSessions, ListSessions, Find, GetSpaceChildren,
         GetJoinedRoomMembers, GetUserByEmail, FinishSession, LogoutUser,
         DeactivateUser, ReactivateUser, KickUser, AddGrant, SendInviteEmail, vars, upstream
<1>5. QED
  BY <1>1, <1>2, <1>3, <1>4

LEMMA LockedOutStep ==
    ASSUME TypeOK, LockedOut, [Next]_vars
    PROVE  LockedOut'
<1>1. CASE mas' = mas /\ sess' = sess
  BY <1>1 DEF LockedOut, ActiveSessions
<1>2. ASSUME NEW r \in Req, FinishSession(r)
      PROVE  LockedOut'
  <2>1. mas' = mas /\ \A s \in Sessions : sess'[s] = "active" => sess[s] = "active"
    BY <1>2 DEF FinishSession, TypeOK
  <2>2. QED
    BY <2>1 DEF LockedOut, ActiveSessions
<1>3. ASSUME NEW r \in Req, DeactivateUser(r)
      PROVE  LockedOut'
  <2>1. \/ mas' = mas /\ \A s \in Sessions : sess'[s] = sess[s]
        \/ \A s \in Sessions : sess'[s] # "active"
    BY <1>3 DEF DeactivateUser, TypeOK
  <2>2. QED
    BY <2>1 DEF LockedOut, ActiveSessions
<1>4. ASSUME NEW r \in Req, ReactivateUser(r)
      PROVE  LockedOut'
  <2>1. sess' = sess /\ (mas' = mas \/ mas' = "active")
    BY <1>4 DEF ReactivateUser
  <2>2. QED
    BY <2>1 DEF LockedOut, ActiveSessions
<1>5. ASSUME NEW s \in Sessions, Login(s)
      PROVE  LockedOut'
  BY <1>5 DEF Login, LockedOut
<1>6. ASSUME NEW r \in Req, Start(r) \/ Cut(r) \/ Read(r) \/ Audit(r)
      PROVE  mas' = mas /\ sess' = sess
  BY <1>6 DEF Start, Cut, Read, Audit, GetUser, FindSessions, ListSessions, Find,
              GetSpaceChildren, GetJoinedRoomMembers, GetUserByEmail, upstream
<1>7. ASSUME NEW r \in Req, Mutate(r)
      PROVE  \/ mas' = mas /\ sess' = sess
             \/ FinishSession(r) \/ DeactivateUser(r) \/ ReactivateUser(r)
  BY <1>7 DEF Mutate, LogoutUser, DisableUser, EnableUser, DeleteUser, KickUser,
              CreateUser, AddGrant, SendInviteEmail, upstream
<1>8. ASSUME NEW t \in Rooms, Join(t)
      PROVE  mas' = mas /\ sess' = sess
  BY <1>8 DEF Join
<1>9. CASE UNCHANGED vars
  BY <1>1, <1>9 DEF vars, upstream
<1>10. QED
  BY <1>1, <1>2, <1>3, <1>4, <1>5, <1>6, <1>7, <1>8, <1>9 DEF Next, Program, Person, Step

-----------------------------------------------------------------------------
(***************************************************************************)
(* What a request's own moves make of Off.                                 *)
(***************************************************************************)

\* A request that is not past the disabling, or failed, owes nothing.
LEMMA EarlyOff ==
    ASSUME NEW q, NEW K, NEW m, NEW R,
           q.stage \in BeforeDisable \cup {"disable"},
           q.stage = "disable" => q.res # "ok",
           q.res # "none" => q.stage \in Audited,
           q.near = {}, q.out # "ok"
    PROVE  Off(q, K, m, R)
  BY DEF Off, Locked, Closed, BeforeDisable, PastDisable, Looping

LEMMA StoppedOff ==
    ASSUME NEW q \in Request, NEW K, NEW m, NEW R, Off(q, K, m, R),
           NEW o \in {"err", "cut", "partial"}
    PROVE  Off([q EXCEPT !.out = o], K, m, R)
  BY DEF Off, Locked, Closed, Left, ToVisit, Request

LEMMA SettleOff ==
    ASSUME NEW q \in Request, NEW K, NEW m, NEW R, Off(q, K, m, R)
    PROVE  Off(Settle(q), K, m, R)
  BY DEF Off, Locked, Closed, Left, ToVisit, Request, Settle

LEMMA SettleEarly ==
    ASSUME NEW q, q.stage # "end"
    PROVE  Settle(q) = q
  BY DEF Settle

\* What is to be shown of an action of an offboarding r.
Offboarding(r) ==
    /\ TypeOK /\ OneLiveId /\ TypeOK'
    /\ req[r].kind = "offboard"
    /\ Off(req[r], kc, mas, rooms)

LEMMA AbortOff ==
    ASSUME NEW r \in Req, Offboarding(r), NEW o \in {"err", "cut"}, Abort(r, o),
           kc' = kc, mas' = mas, rooms' = rooms
    PROVE  Off(req'[r], kc', mas', rooms')
<1>1. req[r] \in Request
  BY DEF Offboarding, TypeOK
<1>2. req'[r] = [req[r] EXCEPT !.out = o]
  BY BecomeReq DEF Abort, Offboarding
<1>3. Off([req[r] EXCEPT !.out = o], kc, mas, rooms)
  BY <1>1, StoppedOff DEF Offboarding
<1>4. QED
  BY <1>2, <1>3

\* On to a stage before the disabling.
LEMMA GoToOff ==
    ASSUME NEW r \in Req, Offboarding(r), req[r].near = {}, req[r].out = "none",
           NEW s \in BeforeDisable, NEW w \in BOOLEAN, GoTo(r, s, w)
    PROVE  Off(req'[r], kc', mas', rooms')
<1> DEFINE q == [req[r] EXCEPT !.stage = s, !.res = "none", !.warn = @ \/ w]
<1>1. req[r] \in Request /\ req'[r] \in Request
  BY DEF Offboarding, TypeOK
<1>2. q.stage = s /\ q.near = {} /\ q.out = "none" /\ q.res = "none"
  BY <1>1 DEF Request
<1>3. s # "end" /\ s # "disable"
  BY DEF BeforeDisable
<1>4. req'[r] = Settle(q)
  BY BecomeReq DEF GoTo, Offboarding
<1> HIDE DEF q
<1>5. req'[r] = q
  BY <1>2, <1>3, <1>4, SettleEarly
<1>6. QED
  BY <1>1, <1>2, <1>3, <1>5, EarlyOff

LEMMA AtOff ==
    ASSUME NEW r \in Req, Offboarding(r), NEW s, At(r, s)
    PROVE  /\ req[r].stage = s /\ req[r].res = "none" /\ req[r].out = "none"
           /\ s \notin {"visit", "kick"} => req[r].near = {}
  BY DEF At, Offboarding, Off

LEMMA GetUserOff ==
    ASSUME NEW r \in Req, Offboarding(r), GetUser(r)
    PROVE  Off(req'[r], kc', mas', rooms')
<1>1. req[r].near = {} /\ req[r].out = "none"
  BY AtOff DEF GetUser
<1>2. kc' = kc /\ mas' = mas /\ rooms' = rooms
  BY DEF GetUser, upstream
<1>3. GoTo(r, "find_sessions", FALSE) \/ Abort(r, "err")
  BY DEF GetUser, Offboarding
<1>4. QED
  BY <1>1, <1>2, <1>3, AbortOff, GoToOff DEF BeforeDisable

LEMMA AfterSessionsOff ==
    ASSUME NEW q, q.kind = "offboard"
    PROVE  AfterSessions(q) \in {"finish", "logout"}
  BY DEF AfterSessions

LEMMA FindSessionsOff ==
    ASSUME NEW r \in Req, Offboarding(r), FindSessions(r)
    PROVE  Off(req'[r], kc', mas', rooms')
<1>1. req[r].near = {} /\ req[r].out = "none"
  BY AtOff DEF FindSessions
<1>2. AfterSessions(req[r]) \in BeforeDisable /\ "list_sessions" \in BeforeDisable
  BY AfterSessionsOff DEF Offboarding, BeforeDisable
<1>3. QED
  BY <1>1, <1>2, GoToOff DEF FindSessions

LEMMA ListSessionsOff ==
    ASSUME NEW r \in Req, Offboarding(r), ListSessions(r)
    PROVE  Off(req'[r], kc', mas', rooms')
<1>1. req[r].near = {} /\ req[r].out = "none" /\ req[r].res = "none"
  BY AtOff DEF ListSessions
<1>2. req[r] \in Request /\ req'[r] \in Request
  BY DEF Offboarding, TypeOK
<1>3. PICK C, O, lost :
        LET p == [req[r] EXCEPT
                     !.todo = (IF "compat" \in lost THEN {} ELSE C)
                              \cup (IF "oauth2" \in lost THEN {} ELSE O),
                     !.warn = @ \/ lost # {}]
        IN  Become(r, [p EXCEPT !.stage = AfterSessions(p)])
  BY DEF ListSessions
<1> DEFINE p == [req[r] EXCEPT
                     !.todo = (IF "compat" \in lost THEN {} ELSE C)
                              \cup (IF "oauth2" \in lost THEN {} ELSE O),
                     !.warn = @ \/ lost # {}]
<1>4. p.kind = "offboard" /\ p.near = {} /\ p.out = "none" /\ p.res = "none"
  BY <1>1, <1>2 DEF Request, Offboarding
<1>5. Become(r, [p EXCEPT !.stage = AfterSessions(p)])
  BY <1>3
<1>6. p = [p EXCEPT !.stage = p.stage] /\ DOMAIN p = DOMAIN req[r]
  BY <1>2 DEF Request
<1> HIDE DEF p
<1>7. req'[r] = [p EXCEPT !.stage = AfterSessions(p)]
  BY <1>5, BecomeReq DEF Offboarding
<1>8. /\ req'[r].stage \in {"finish", "logout"} /\ req'[r].near = {}
      /\ req'[r].out = "none" /\ req'[r].res = "none"
  BY <1>2, <1>4, <1>6, <1>7, AfterSessionsOff DEF Request
<1>9. QED
  BY <1>2, <1>8, EarlyOff DEF BeforeDisable

LEMMA FindOff ==
    ASSUME NEW r \in Req, Offboarding(r), Find(r)
    PROVE  Off(req'[r], kc', mas', rooms')
<1>1. /\ req[r].stage = "find" /\ req[r].near = {} /\ req[r].out = "none"
      /\ req[r].res = "none" /\ req[r].kind = "offboard"
  BY AtOff DEF Find, Offboarding
<1>2. req[r] \in Request
  BY DEF Offboarding, TypeOK
<1>3. kc' = kc /\ mas' = mas /\ rooms' = rooms
  BY DEF Find, upstream
<1>4. ~EnabledIn(kc) /\ (req[r].warn \/ rooms \cap Mapped = {})
  <2>1. Left(req[r]) = {}
    BY <1>1 DEF Left, Looping
  <2>2. QED
    BY <1>1, <2>1 DEF Offboarding, Off, Locked, PastDisable
<1>5. PICK f : /\ f = mas \/ f = "unknown"
               /\ Become(r, Settle([req[r] EXCEPT !.found = f,
                      !.stage = AfterFind(req[r], f),
                      !.warn = @ \/ (f = "unknown" /\ LookupWarns(req[r]))]))
  BY DEF Find
<1> DEFINE q == [req[r] EXCEPT !.found = f,
                      !.stage = AfterFind(req[r], f),
                      !.warn = @ \/ (f = "unknown" /\ LookupWarns(req[r]))]
<1>6. /\ q.stage = IF f \in Known THEN "deactivate" ELSE "end"
      /\ q.warn = (req[r].warn \/ f = "unknown")
      /\ q.near = {} /\ q.out = "none" /\ q.res = "none"
  BY <1>1, <1>2 DEF Request, AfterFind, LookupWarns
<1>7. req'[r] = Settle(q)
  BY <1>5, BecomeReq DEF Offboarding
<1>8. q \in Request
  <2>1. \A v \in {"unknown", "none"} \cup Known, st \in Stage, w \in BOOLEAN :
            [req[r] EXCEPT !.found = v, !.stage = st, !.warn = w] \in Request
    BY <1>2 DEF Request
  <2>2. f \in {"unknown", "none"} \cup Known
    BY <1>5 DEF Offboarding, TypeOK
  <2>3. (req[r].warn \/ (f = "unknown" /\ LookupWarns(req[r]))) \in BOOLEAN
    OBVIOUS
  <2>4. QED
    BY <2>1, <2>2, <2>3, AfterType
<1> HIDE DEF q
<1>9. Off(q, kc, mas, rooms)
  BY <1>4, <1>5, <1>6 DEF Off, Locked, Closed, Left, PastDisable, Looping, Known
<1>10. QED
  BY <1>3, <1>7, <1>8, <1>9, SettleOff

LEMMA GetSpaceChildrenOff ==
    ASSUME NEW r \in Req, Offboarding(r), GetSpaceChildren(r)
    PROVE  Off(req'[r], kc', mas', rooms')
<1>1. /\ req[r].stage = "expand" /\ req[r].near = {} /\ req[r].out = "none"
      /\ req[r].res = "none"
  BY AtOff DEF GetSpaceChildren
<1>2. req[r] \in Request
  BY DEF Offboarding, TypeOK
<1>3. kc' = kc /\ mas' = mas /\ rooms' = rooms
  BY DEF GetSpaceChildren, upstream
<1>4. PICK b \in req[r].todo \cap Rooms :
        \/ Become(r, [req[r] EXCEPT !.stage = "visit", !.root = b, !.near = {b} \cup Children[b],
                                    !.todo = @ \ {b}, !.warn = @ \/ FALSE])
        \/ Become(r, [req[r] EXCEPT !.stage = "visit", !.root = b, !.near = {b},
                                    !.todo = @ \ {b}, !.warn = @ \/ TRUE])
  BY DEF GetSpaceChildren
<1>5. PICK near \in SUBSET Rooms, w \in BOOLEAN :
        /\ w \/ near = {b} \cup Children[b]
        /\ Become(r, [req[r] EXCEPT !.stage = "visit", !.root = b, !.near = near,
                                    !.todo = @ \ {b}, !.warn = @ \/ w])
  BY <1>4, RoomsAssumption
<1>6. req'[r] = [req[r] EXCEPT !.stage = "visit", !.root = b, !.near = near,
                               !.todo = @ \ {b}, !.warn = @ \/ w]
  BY <1>5, BecomeReq DEF Offboarding
<1>7. /\ req'[r].stage = "visit" /\ req'[r].out = "none" /\ req'[r].res = "none"
      /\ req'[r].near = near /\ req'[r].todo = req[r].todo \ {b}
      /\ req'[r].warn = (req[r].warn \/ w)
  BY <1>1, <1>2, <1>6 DEF Request
<1>8. ~EnabledIn(kc) /\ (req[r].warn \/ rooms \cap Mapped \subseteq Left(req[r]))
  BY <1>1 DEF Offboarding, Off, Locked, PastDisable, Looping
<1>9. ~req'[r].warn => Left(req[r]) \subseteq Left(req'[r])
  BY <1>1, <1>4, <1>5, <1>7 DEF Left, ToVisit, Looping
<1>10. QED
  BY <1>3, <1>7, <1>8, <1>9 DEF Off, Locked, Closed, PastDisable, Looping

\* What is left once a room of near has been dealt with.
LEMMA AfterRoomLeft ==
    ASSUME NEW q, NEW p, p.stage = AfterRoom(q), p.todo = q.todo, p.near = q.near
    PROVE  /\ p.stage \in {"visit", "expand", "find"}
           /\ p.stage # "visit" => p.near = {}
           /\ ToVisit(q) \subseteq Left(p)
<1>1. CASE q.near # {}
  BY <1>1 DEF AfterRoom, Left, ToVisit, Looping
<1>2. CASE q.near = {} /\ q.todo # {}
  BY <1>2 DEF AfterRoom, Left, ToVisit, Looping
<1>3. CASE q.near = {} /\ q.todo = {}
  BY <1>3 DEF AfterRoom, Left, ToVisit, Looping
<1>4. QED
  BY <1>1, <1>2, <1>3

LEMMA GetJoinedRoomMembersOff ==
    ASSUME NEW r \in Req, Offboarding(r), GetJoinedRoomMembers(r)
    PROVE  Off(req'[r], kc', mas', rooms')
<1>1. req[r].stage = "visit" /\ req[r].out = "none" /\ req[r].res = "none"
  BY AtOff DEF GetJoinedRoomMembers
<1>2. req[r] \in Request
  BY DEF Offboarding, TypeOK
<1>3. kc' = kc /\ mas' = mas /\ rooms' = rooms
  BY DEF GetJoinedRoomMembers, upstream
<1>4. PICK t \in req[r].near :
         LET p == [req[r] EXCEPT !.near = @ \ {t}, !.obj = t]
         IN  \/ Become(r, [p EXCEPT !.stage = "kick"])
             \/ t \notin rooms /\ Become(r, [p EXCEPT !.stage = AfterRoom(p)])
             \/ Become(r, [p EXCEPT !.stage = AfterRoom(p), !.warn = TRUE])
  BY DEF GetJoinedRoomMembers
<1> DEFINE p == [req[r] EXCEPT !.near = @ \ {t}, !.obj = t]
<1>5. \/ req'[r] = [p EXCEPT !.stage = "kick"]
      \/ t \notin rooms /\ req'[r] = [p EXCEPT !.stage = AfterRoom(p)]
      \/ req'[r] = [p EXCEPT !.stage = AfterRoom(p), !.warn = TRUE]
  BY <1>4, BecomeReq DEF Offboarding
<1>6. /\ p.near = req[r].near \ {t} /\ p.todo = req[r].todo /\ p.stage = "visit"
      /\ p.obj = t /\ p.out = "none" /\ p.res = "none" /\ p.warn = req[r].warn
      /\ DOMAIN p = DOMAIN req[r]
  BY <1>1, <1>2 DEF Request
<1>7. DOMAIN req[r] = {"kind", "id", "stage", "res", "obj", "todo", "root", "near",
                       "found", "given", "warn", "lost", "out"}
  BY <1>2 DEF Request
<1>8. ~EnabledIn(kc) /\ (req[r].warn \/ rooms \cap Mapped \subseteq Left(req[r]))
  BY <1>1 DEF Offboarding, Off, Locked, PastDisable, Looping
<1>9. Left(req[r]) = ToVisit(p) \cup {t}
  BY <1>1, <1>4, <1>6 DEF Left, ToVisit, Looping
<1> HIDE DEF p
<1>10. CASE req'[r] = [p EXCEPT !.stage = "kick"]
  <2>1. /\ req'[r].stage = "kick" /\ req'[r].near = p.near /\ req'[r].todo = p.todo
        /\ req'[r].obj = t /\ req'[r].out = "none" /\ req'[r].res = "none"
        /\ req'[r].warn = req[r].warn
    BY <1>6, <1>7, <1>10
  <2>2. Left(req[r]) \subseteq Left(req'[r])
    BY <1>9, <2>1 DEF Left, ToVisit, Looping
  <2>3. QED
    BY <1>3, <1>8, <2>1, <2>2 DEF Off, Locked, Closed, PastDisable, Looping
<1>11. CASE t \notin rooms /\ req'[r] = [p EXCEPT !.stage = AfterRoom(p)]
  <2>1. /\ req'[r].stage = AfterRoom(p) /\ req'[r].near = p.near /\ req'[r].todo = p.todo
        /\ req'[r].out = "none" /\ req'[r].res = "none" /\ req'[r].warn = req[r].warn
    BY <1>6, <1>7, <1>11
  <2>2. CASE req[r].warn
    <3>1. /\ req'[r].stage \in {"visit", "expand", "find"}
          /\ req'[r].stage # "visit" => req'[r].near = {}
      BY <2>1 DEF AfterRoom
    <3>2. QED
      BY <1>3, <1>8, <2>1, <2>2, <3>1 DEF Off, Locked, Closed, PastDisable, Looping
  <2>3. CASE ~req[r].warn
    <3>1. rooms \cap Mapped \subseteq ToVisit(p)
      BY <1>8, <1>9, <1>11, <2>3
    <3>2. /\ req'[r].stage \in {"visit", "expand", "find"}
          /\ req'[r].stage # "visit" => req'[r].near = {}
          /\ ToVisit(p) \subseteq Left(req'[r])
      BY <2>1, AfterRoomLeft
    <3>3. QED
      BY <1>3, <1>8, <2>1, <3>1, <3>2 DEF Off, Locked, Closed, PastDisable, Looping
  <2>4. QED
    BY <2>2, <2>3
<1>12. CASE req'[r] = [p EXCEPT !.stage = AfterRoom(p), !.warn = TRUE]
  <2>1. /\ req'[r].stage = AfterRoom(p) /\ req'[r].near = p.near
        /\ req'[r].out = "none" /\ req'[r].res = "none" /\ req'[r].warn
    BY <1>6, <1>7, <1>12
  <2>2. /\ req'[r].stage \in {"visit", "expand", "find"}
        /\ req'[r].stage # "visit" => req'[r].near = {}
    BY <2>1 DEF AfterRoom
  <2>3. QED
    BY <1>3, <1>8, <2>1, <2>2 DEF Off, Locked, Closed, PastDisable, Looping
<1>13. QED
  BY <1>5, <1>10, <1>11, <1>12

\* The answer to a call of r's stage.
LEMMA AnsweredReq ==
    ASSUME NEW r \in Req, Offboarding(r), NEW a, NEW o, Answered(r, a, o)
    PROVE  /\ req'[r].res = IF a = "ok" THEN "ok" ELSE "err"
           /\ req'[r].obj = o
           /\ req'[r].stage = req[r].stage /\ req'[r].near = req[r].near
           /\ req'[r].todo = req[r].todo /\ req'[r].warn = req[r].warn
           /\ req'[r].out = req[r].out
<1>1. req[r] \in Request
  BY DEF Offboarding, TypeOK
<1>2. req'[r] = [req[r] EXCEPT !.res = IF a = "ok" THEN "ok" ELSE "err", !.obj = o]
  BY BecomeReq DEF Answered, Offboarding
<1>3. QED
  BY <1>1, <1>2 DEF Request

LEMMA FinishSessionOff ==
    ASSUME NEW r \in Req, Offboarding(r), FinishSession(r)
    PROVE  Off(req'[r], kc', mas', rooms')
<1>1. req[r].stage = "finish" /\ req[r].near = {} /\ req[r].out = "none"
  BY AtOff DEF FinishSession
<1>2. PICK a, s : Answered(r, a, s)
  BY DEF FinishSession
<1>3. req'[r].stage = "finish" /\ req'[r].near = {} /\ req'[r].out = "none"
  BY <1>1, <1>2, AnsweredReq
<1>4. QED
  BY <1>3, EarlyOff DEF BeforeDisable, Audited, Offboarding, TypeOK

LEMMA LogoutUserOff ==
    ASSUME NEW r \in Req, Offboarding(r), LogoutUser(r)
    PROVE  Off(req'[r], kc', mas', rooms')
<1>1. req[r].stage = "logout" /\ req[r].near = {} /\ req[r].out = "none"
  BY AtOff DEF LogoutUser
<1>2. PICK a : Answered(r, a, None)
  BY DEF LogoutUser
<1>3. req'[r].stage = "logout" /\ req'[r].near = {} /\ req'[r].out = "none"
  BY <1>1, <1>2, AnsweredReq
<1>4. QED
  BY <1>3, EarlyOff DEF BeforeDisable, Audited, Offboarding, TypeOK

\* Disabling the one live user leaves nobody enabled.
LEMMA DisableUserOff ==
    ASSUME NEW r \in Req, Offboarding(r), DisableUser(r)
    PROVE  Off(req'[r], kc', mas', rooms')
<1>1. req[r].stage = "disable" /\ req[r].near = {} /\ req[r].out = "none"
  BY AtOff DEF DisableUser
<1>2. PICK a \in Answers(kc[req[r].id] \in Live) :
        /\ Answered(r, a, None)
        /\ kc' = IF Applied(a) THEN [kc EXCEPT ![req[r].id] = "disabled"] ELSE kc
  BY DEF DisableUser
<1>3. /\ req'[r].stage = "disable" /\ req'[r].near = {} /\ req'[r].out = "none"
      /\ req'[r].res = "ok" => a = "ok"
  BY <1>1, <1>2, AnsweredReq
<1>4. CASE a # "ok"
  BY <1>3, <1>4, EarlyOff DEF Audited, Offboarding, TypeOK
<1>5. CASE a = "ok"
  <2>1. kc[req[r].id] \in Live /\ kc' = [kc EXCEPT ![req[r].id] = "disabled"]
    BY <1>2, <1>5 DEF Answers, Applied
  <2>2. ~EnabledIn(kc')
    BY <2>1 DEF EnabledIn, Offboarding, OneLiveId, TypeOK, Live
  <2>3. QED
    BY <1>3, <2>2 DEF Off, Closed, Audited, PastDisable, Looping
<1>6. QED
  BY <1>4, <1>5

LEMMA KickUserOff ==
    ASSUME NEW r \in Req, Offboarding(r), KickUser(r)
    PROVE  Off(req'[r], kc', mas', rooms')
<1>1. req[r].stage = "kick" /\ req[r].res = "none" /\ req[r].out = "none"
  BY AtOff DEF KickUser
<1>2. PICK a \in Answers(req[r].obj \in rooms) :
        /\ Answered(r, a, req[r].obj)
        /\ rooms' = IF Applied(a) THEN rooms \ {req[r].obj} ELSE rooms
  BY DEF KickUser
<1>3. kc' = kc /\ mas' = mas
  BY DEF KickUser
<1>4. /\ req'[r].stage = "kick" /\ req'[r].out = "none" /\ req'[r].near = req[r].near
      /\ req'[r].todo = req[r].todo /\ req'[r].warn = req[r].warn
      /\ req'[r].obj = req[r].obj
      /\ req'[r].res = IF a = "ok" THEN "ok" ELSE "err"
  BY <1>1, <1>2, AnsweredReq
<1>5. ~EnabledIn(kc) /\ (req[r].warn \/ rooms \cap Mapped \subseteq Left(req[r]))
  BY <1>1 DEF Offboarding, Off, Locked, PastDisable, Looping
<1>6. /\ Left(req[r]) = ToVisit(req[r]) \cup {req[r].obj}
      /\ Left(req'[r]) = ToVisit(req[r]) \cup (IF a = "ok" THEN {} ELSE {req[r].obj})
  BY <1>1, <1>4 DEF Left, ToVisit, Looping
<1>7. rooms \cap Mapped \subseteq Left(req[r]) => rooms' \cap Mapped \subseteq Left(req'[r])
  BY <1>2, <1>6 DEF Applied
<1>8. QED
  BY <1>3, <1>4, <1>5, <1>7 DEF Off, Locked, Closed, Audited, PastDisable, Looping

LEMMA DeactivateUserOff ==
    ASSUME NEW r \in Req, Offboarding(r), DeactivateUser(r)
    PROVE  Off(req'[r], kc', mas', rooms')
<1>1. /\ req[r].stage = "deactivate" /\ req[r].out = "none" /\ req[r].near = {}
  BY AtOff DEF DeactivateUser
<1>2. PICK a : /\ Answered(r, a, None)
               /\ mas' = IF Applied(a) THEN "deactivated" ELSE mas
  BY DEF DeactivateUser
<1>3. kc' = kc /\ rooms' = rooms
  BY DEF DeactivateUser
<1>4. /\ req'[r].stage = "deactivate" /\ req'[r].out = "none" /\ req'[r].near = {}
      /\ req'[r].warn = req[r].warn /\ req'[r].res = IF a = "ok" THEN "ok" ELSE "err"
  BY <1>1, <1>2, AnsweredReq
<1>5. ~EnabledIn(kc) /\ (req[r].warn \/ rooms \cap Mapped \subseteq Left(req[r]))
  BY <1>1 DEF Offboarding, Off, Locked, PastDisable, Looping
<1>6. Left(req[r]) = {} /\ Left(req'[r]) = {}
  BY <1>1, <1>4 DEF Left, Looping
<1>7. req'[r].res = "ok" => mas' # "active"
  BY <1>2, <1>4 DEF Applied
<1>8. QED
  BY <1>3, <1>4, <1>5, <1>6, <1>7 DEF Off, Locked, Closed, Audited, PastDisable, Looping

\* Where an offboarding goes once a call and its audit entry are behind it.
LEMMA ProceedOff ==
    ASSUME NEW q \in Request, q.kind = "offboard", q.stage \in Audited
    PROVE  /\ Proceed(q).near = q.near /\ Proceed(q).out = q.out
           /\ q.stage = "finish" => Proceed(q).stage \in {"finish", "logout"}
           /\ q.stage = "logout" => Proceed(q).stage = "disable"
           /\ q.stage = "deactivate" =>
                 Proceed(q).stage = "end" /\ Proceed(q).warn = q.warn
           /\ q.stage = "kick" =>
                 /\ Proceed(q).stage = AfterRoom(q)
                 /\ Proceed(q).todo = q.todo /\ Proceed(q).warn = q.warn
           /\ q.stage = "disable" =>
                 /\ Proceed(q).stage \in {"expand", "find"}
                 /\ Proceed(q).warn \/ Proceed(q).stage = "expand" \/ Bound = {}
                 /\ Proceed(q).stage = "expand" => Proceed(q).todo = Bound
<1>1. CASE q.stage = "finish"
  <2>1. Proceed(q) = [FinishedOnce(q) EXCEPT !.stage = AfterSessions(FinishedOnce(q))]
    BY <1>1 DEF Proceed
  <2>2. FinishedOnce(q) \in Request /\ FinishedOnce(q).kind = "offboard"
        /\ FinishedOnce(q).near = q.near /\ FinishedOnce(q).out = q.out
    BY DEF FinishedOnce, Request
  <2>3. AfterSessions(FinishedOnce(q)) \in {"finish", "logout"}
    BY <2>2, AfterSessionsOff
  <2>4. QED
    BY <1>1, <2>1, <2>2, <2>3 DEF Request
<1>2. CASE q.stage = "logout"
  BY <1>2 DEF Proceed, Request
<1>3. CASE q.stage = "deactivate"
  BY <1>3 DEF Proceed, Request
<1>4. CASE q.stage = "kick"
  BY <1>4 DEF Proceed, Request
<1>5. CASE q.stage = "disable"
  <2>1. Proceed(q) = [q EXCEPT !.stage = IF HasSynapse /\ Bound # {} THEN "expand" ELSE "find",
                     !.todo = IF HasSynapse THEN Bound ELSE {},
                     !.warn = @ \/ (~HasSynapse /\ Bound # {})]
    BY <1>5 DEF Proceed
  <2>2. /\ Proceed(q).stage = IF HasSynapse /\ Bound # {} THEN "expand" ELSE "find"
        /\ Proceed(q).todo = IF HasSynapse THEN Bound ELSE {}
        /\ Proceed(q).warn = (q.warn \/ (~HasSynapse /\ Bound # {}))
        /\ Proceed(q).near = q.near /\ Proceed(q).out = q.out
    BY <2>1 DEF Request
  <2>3. QED
    BY <1>5, <2>2
<1>6. QED
  BY <1>1, <1>2, <1>3, <1>4, <1>5 DEF Audited

LEMMA AuditOff ==
    ASSUME NEW r \in Req, Offboarding(r), Audit(r)
    PROVE  Off(req'[r], kc', mas', rooms')
<1>1. PICK logged \in BOOLEAN :
         LET ok == logged /\ req[r].res = "ok"
             p  == [req[r] EXCEPT !.lost = @ \/ ~logged]
         IN  \/ /\ ok \/ WarnOnly(req[r])
                /\ Become(r, Settle([Proceed(p) EXCEPT !.res = "none", !.warn = @ \/ ~ok]))
             \/ Become(r, [p EXCEPT !.out = IF logged /\ PartlyDone(req[r]) THEN "partial"
                                                                           ELSE "err"])
  BY DEF Audit
<1> DEFINE ok == logged /\ req[r].res = "ok"
           p == [req[r] EXCEPT !.lost = @ \/ ~logged]
           m == [Proceed(p) EXCEPT !.res = "none", !.warn = @ \/ ~ok]
           o == IF logged /\ PartlyDone(req[r]) THEN "partial" ELSE "err"
<1>2. /\ req[r] \in Request /\ req[r].kind = "offboard"
      /\ req[r].out = "none" /\ req[r].res # "none" /\ req[r].stage \in Audited
  BY DEF Offboarding, TypeOK, Audit, Off
<1>3. kc' = kc /\ mas' = mas /\ rooms' = rooms
  BY DEF Audit, upstream
<1>4. p \in Request
  <2>1. \A v \in BOOLEAN : [req[r] EXCEPT !.lost = v] \in Request
    BY <1>2 DEF Request
  <2>2. (req[r].lost \/ ~logged) \in BOOLEAN
    OBVIOUS
  <2>3. QED
    BY <2>1, <2>2
<1>5. /\ p.kind = "offboard" /\ p.stage = req[r].stage /\ p.near = req[r].near
      /\ p.todo = req[r].todo /\ p.warn = req[r].warn /\ p.out = "none"
      /\ p.obj = req[r].obj /\ p.res = req[r].res
  BY <1>2 DEF Request
<1>6. Off(p, kc, mas, rooms)
  <2>1. Left(p) = Left(req[r])
    BY <1>5 DEF Left, ToVisit
  <2> HIDE DEF p
  <2>2. QED
    BY <1>2, <1>5, <2>1 DEF Offboarding, Off, Locked, Closed
<1>7. \/ (ok \/ WarnOnly(req[r])) /\ req'[r] = Settle(m)
      \/ req'[r] = [p EXCEPT !.out = o]
  BY <1>1, BecomeReq DEF Offboarding
<1>8. CASE req'[r] = [p EXCEPT !.out = o]
  <2>1. o \in {"err", "cut", "partial"}
    OBVIOUS
  <2> HIDE DEF p, o
  <2>2. Off([p EXCEPT !.out = o], kc, mas, rooms)
    BY <1>4, <1>6, <2>1, StoppedOff
  <2>3. QED
    BY <1>3, <1>8, <2>2
<1>9. CASE (ok \/ WarnOnly(req[r])) /\ req'[r] = Settle(m)
  <2> HIDE DEF p
  <2>1. Proceed(p) \in Request
    BY <1>4, ProceedType
  <2>2. m \in Request
    <3>1. \A q \in Request, v \in BOOLEAN : [q EXCEPT !.res = "none", !.warn = v] \in Request
      BY DEF Request
    <3>2. (Proceed(p).warn \/ ~ok) \in BOOLEAN
      OBVIOUS
    <3>3. QED
      BY <2>1, <3>1, <3>2
  <2>3. /\ m.stage = Proceed(p).stage /\ m.near = Proceed(p).near /\ m.todo = Proceed(p).todo
        /\ m.out = Proceed(p).out /\ m.res = "none"
    BY <2>1 DEF Request
  <2>4. m.warn <=> Proceed(p).warn \/ ~ok
    BY <2>1 DEF Request
  <2>5. m.near = p.near /\ m.out = "none"
    BY <1>2, <1>4, <1>5, <2>3, ProceedOff
  <2> HIDE DEF m
  <2>6. ASSUME p.stage \in {"finish", "logout"}
       PROVE  Off(m, kc, mas, rooms)
    <3>1. m.stage \in {"finish", "logout", "disable"}
      BY <1>2, <1>4, <1>5, <2>3, <2>6, ProceedOff
    <3>2. m.near = {} /\ m.res = "none" /\ m.out = "none"
      BY <1>6, <2>3, <2>5, <2>6 DEF Off
    <3> HIDE DEF ok, o
    <3>3. QED
      BY <3>1, <3>2, EarlyOff DEF BeforeDisable
  <2>7. ASSUME p.stage = "disable"
       PROVE  Off(m, kc, mas, rooms)
    <3>1. ok /\ p.res = "ok"
      BY <1>2, <1>5, <1>9, <2>7 DEF WarnOnly
    <3>2. ~EnabledIn(kc) /\ m.near = {}
      BY <1>6, <2>5, <2>7, <3>1 DEF Off, Locked
    <3>3. /\ m.stage \in {"expand", "find"} /\ m.res = "none" /\ m.out = "none"
          /\ m.warn \/ m.stage = "expand" \/ Bound = {}
          /\ m.stage = "expand" => m.todo = Bound
      <4>1. /\ Proceed(p).stage \in {"expand", "find"}
            /\ Proceed(p).warn \/ Proceed(p).stage = "expand" \/ Bound = {}
            /\ Proceed(p).stage = "expand" => Proceed(p).todo = Bound
        BY <1>2, <1>4, <1>5, <2>7, ProceedOff
      <4>2. QED
        BY <2>3, <2>4, <2>5, <3>1, <4>1
    <3>4. ~m.warn => rooms \cap Mapped \subseteq Left(m)
      <4>1. Bound \subseteq Rooms
        BY RoomsAssumption
      <4>2. Bound = {} => Mapped = {}
        BY DEF Mapped
      <4>3. m.stage = "expand" => Mapped \subseteq Left(m)
        BY <3>3, <4>1 DEF Left, ToVisit, Looping, Mapped
      <4>4. QED
        BY <3>3, <4>2, <4>3
    <3>5. QED
      BY <3>2, <3>3, <3>4 DEF Off, Locked, Closed, PastDisable, Looping
  <2>8. ASSUME p.stage = "kick"
       PROVE  Off(m, kc, mas, rooms)
    <3>1. /\ m.stage = AfterRoom(p) /\ m.todo = p.todo /\ m.near = p.near
          /\ m.res = "none" /\ m.out = "none"
          /\ m.warn \/ (ok /\ ~p.warn)
      <4>1. /\ Proceed(p).stage = AfterRoom(p)
            /\ Proceed(p).todo = p.todo /\ (Proceed(p).warn <=> p.warn)
        BY <1>2, <1>4, <1>5, <2>8, ProceedOff
      <4>2. QED
        BY <2>3, <2>4, <2>5, <4>1
    <3>2. /\ m.stage \in {"visit", "expand", "find"}
          /\ m.stage # "visit" => m.near = {}
          /\ ToVisit(p) \subseteq Left(m)
      BY <3>1, AfterRoomLeft
    <3>3. ~EnabledIn(kc) /\ (p.warn \/ rooms \cap Mapped \subseteq Left(p))
      BY <1>6, <2>8 DEF Off, Locked, PastDisable, Looping
    <3>4. ok => Left(p) = ToVisit(p)
      BY <1>5, <2>8 DEF Left, Looping
    <3>5. m.warn \/ rooms \cap Mapped \subseteq Left(m)
      BY <3>1, <3>2, <3>3, <3>4
    <3>6. QED
      BY <3>1, <3>2, <3>3, <3>5 DEF Off, Locked, Closed, PastDisable, Looping
  <2>9. ASSUME p.stage = "deactivate"
       PROVE  Off(m, kc, mas, rooms)
    <3>1. ok /\ p.res = "ok"
      BY <1>2, <1>5, <1>9, <2>9 DEF WarnOnly
    <3>2. m.stage = "end" /\ (m.warn <=> p.warn) /\ m.res = "none" /\ m.out = "none"
      <4>1. Proceed(p).stage = "end" /\ (Proceed(p).warn <=> p.warn)
        BY <1>2, <1>4, <1>5, <2>9, ProceedOff
      <4>2. QED
        BY <2>3, <2>4, <2>5, <3>1, <4>1
    <3>3. /\ ~EnabledIn(kc) /\ mas # "active" /\ m.near = {}
          /\ p.warn \/ rooms \cap Mapped \subseteq Left(p)
      BY <1>6, <2>5, <2>9, <3>1 DEF Off, Locked, Closed, PastDisable
    <3>4. Left(p) = {}
      BY <2>9 DEF Left, Looping
    <3>5. QED
      BY <3>2, <3>3, <3>4 DEF Off, Locked, Closed, PastDisable
  <2>10. Off(m, kc, mas, rooms)
    BY <1>2, <1>5, <2>6, <2>7, <2>8, <2>9 DEF Audited
  <2>11. QED
    BY <1>3, <1>9, <2>2, <2>10, SettleOff
<1>10. QED
  BY <1>7, <1>8, <1>9

LEMMA CutOff ==
    ASSUME NEW r \in Req, Offboarding(r), Cut(r)
    PROVE  Off(req'[r], kc', mas', rooms')
  BY AbortOff DEF Cut, upstream

LEMMA StepOff ==
    ASSUME NEW r \in Req, Offboarding(r), Step(r)
    PROVE  Off(req'[r], kc', mas', rooms')
<1>1. req[r].stage \in BeforeDisable \cup {"disable"} \cup PastDisable
  BY DEF Offboarding, Off
<1>2. req[r].stage \notin {"check", "enable", "remove", "reactivate", "create", "grant", "email"}
  BY <1>1 DEF BeforeDisable, PastDisable, Looping
<1>3. ~GetUserByEmail(r) /\ ~EnableUser(r) /\ ~DeleteUser(r) /\ ~ReactivateUser(r)
  BY <1>2 DEF At, GetUserByEmail, EnableUser, DeleteUser, ReactivateUser
<1>4. ~CreateUser(r) /\ ~AddGrant(r) /\ ~SendInviteEmail(r)
  BY <1>2 DEF At, CreateUser, AddGrant, SendInviteEmail
<1>5. QED
  BY <1>3, <1>4, GetUserOff, FindSessionsOff, ListSessionsOff, FindOff,
     GetSpaceChildrenOff, GetJoinedRoomMembersOff, FinishSessionOff, LogoutUserOff,
     DisableUserOff, KickUserOff, DeactivateUserOff, AuditOff
  DEF Step, Read, Mutate

LEMMA StartOff ==
    ASSUME NEW r \in Req, TypeOK, Start(r), req'[r].kind = "offboard"
    PROVE  Off(req'[r], kc', mas', rooms')
<1>1. SUFFICES ASSUME NEW q, Become(r, q), q.kind = "offboard",
                      q.stage = "get_user", q.res = "none", q.near = {}, q.out # "ok"
               PROVE  Off(req'[r], kc', mas', rooms')
  <2>1. CASE SubmitOffboard(r)
    <3>1. PICK i : \/ Become(r, Of("offboard", i, "get_user"))
                   \/ Become(r, [Of("offboard", i, "get_user") EXCEPT !.out = "err"])
      BY <2>1 DEF SubmitOffboard
    <3>2. QED
      BY <3>1 DEF Of, Idle
  <2>2. CASE SubmitDisable(r) \/ SubmitReactivate(r) \/ SubmitDelete(r) \/ SubmitLogout(r)
    <3>1. PICK k \in {"disable", "reactivate", "delete", "logout"} :
                       \E i, s : Become(r, Of(k, i, s))
      BY <2>2 DEF SubmitDisable, SubmitReactivate, SubmitDelete, SubmitLogout
    <3>2. PICK i, s : Become(r, Of(k, i, s))
      BY <3>1
    <3>3. req'[r].kind = k
      BY ZenonT(60), <3>2, BecomeReq DEF Of, Idle
    <3>4. QED
      BY <3>1, <3>3
  <2>3. CASE SubmitRevoke(r)
    <3>1. PICK s : Become(r, [Of("revoke", None, "finish") EXCEPT !.todo = {s}])
      BY <2>3 DEF SubmitRevoke
    <3>2. [Of("revoke", None, "finish") EXCEPT !.todo = {s}].kind = "revoke"
      BY DEF Of, Idle
    <3>3. req'[r].kind = "revoke"
      BY <3>1, <3>2, BecomeReq
    <3>4. QED
      BY <3>3
  <2>4. CASE SubmitInvite(r)
    <3>1. PICK q \in {Of("invite", None, "check"),
                      [Of("invite", None, "check") EXCEPT !.out = "err"]} : Become(r, q)
      BY <2>4 DEF SubmitInvite
    <3>2. QED
      BY ZenonT(60), <3>1, BecomeReq DEF Of, Idle
  <2>5. QED
    BY <2>1, <2>2, <2>3, <2>4 DEF Start
<1>2. req'[r] = q
  BY <1>1, BecomeReq
<1>3. QED
  BY <1>1, <1>2, EarlyOff DEF BeforeDisable

-----------------------------------------------------------------------------
(***************************************************************************)
(* What the moves of other requests, and of the person, make of it.        *)
(***************************************************************************)

\* A step that gives no access.
Steady ==
    /\ EnabledIn(kc') => EnabledIn(kc)
    /\ mas' = "active" => mas = "active"
    /\ rooms' \subseteq rooms

LEMMA SteadyOff ==
    ASSUME NEW q, Off(q, kc, mas, rooms), Steady
    PROVE  Off(q, kc', mas', rooms')
  BY DEF Off, Steady

\* While somebody is enabled no offboarding is past the disabling.
LEMMA EarlyAnyOff ==
    ASSUME NEW q, Off(q, kc, mas, rooms), EnabledIn(kc)
    PROVE  \A K, m, R : Off(q, K, m, R)
  BY DEF Off, Locked, Closed, PastDisable

LEMMA MovesOwn ==
    ASSUME NEW p \in Req, Start(p) \/ Cut(p) \/ Step(p)
    PROVE  \E q : Become(p, q)
<1>1. CASE Start(p) \/ Cut(p)
  BY <1>1 DEF Start, Cut, Abort, SubmitDisable, SubmitOffboard, SubmitReactivate,
     SubmitDelete, SubmitLogout, SubmitRevoke, SubmitInvite
<1>2. CASE GetUser(p) \/ FindSessions(p) \/ GetUserByEmail(p)
  BY <1>2 DEF GetUser, FindSessions, GetUserByEmail, GoTo, Abort
<1>3. CASE Find(p) \/ ListSessions(p)
  BY <1>3 DEF Find, ListSessions
<1>4. CASE GetSpaceChildren(p) \/ GetJoinedRoomMembers(p)
  BY <1>4 DEF GetSpaceChildren, GetJoinedRoomMembers
<1>5. CASE FinishSession(p) \/ LogoutUser(p) \/ DisableUser(p) \/ EnableUser(p) \/ DeleteUser(p)
  BY <1>5 DEF FinishSession, LogoutUser, DisableUser, EnableUser, DeleteUser, Answered
<1>6. CASE DeactivateUser(p) \/ ReactivateUser(p) \/ KickUser(p) \/ SendInviteEmail(p)
  BY <1>6 DEF DeactivateUser, ReactivateUser, KickUser, SendInviteEmail, Answered
<1>7. CASE CreateUser(p) \/ AddGrant(p)
  BY <1>7 DEF CreateUser, AddGrant
<1>8. CASE Audit(p)
  BY <1>8 DEF Audit
<1>9. QED
  BY <1>1, <1>2, <1>3, <1>4, <1>5, <1>6, <1>7, <1>8 DEF Step, Read, Mutate

LEMMA OthersSteady ==
    ASSUME TypeOK, NEW p \in Req, Start(p) \/ Cut(p) \/ Step(p),
           NEW r \in Req \ {p}, req[r].kind # "none", r \notin raised'
    PROVE  r \notin raised /\ Steady
<1>1. r \in Others(p)
  BY DEF Others
<1>2. CASE UNCHANGED <<kc, mas, rooms, raised>>
  BY <1>2 DEF Steady
<1>3. CASE DisableUser(p) \/ DeleteUser(p)
  <2>1. \E v \in {"disabled", "gone"} : kc' = kc \/ kc' = [kc EXCEPT ![req[p].id] = v]
    BY <1>3 DEF DisableUser, DeleteUser
  <2>2. EnabledIn(kc') => EnabledIn(kc)
    BY <2>1 DEF EnabledIn, TypeOK
  <2>3. mas' = mas /\ rooms' = rooms /\ raised' = raised
    BY <1>3 DEF DisableUser, DeleteUser, Lower, NoShift
  <2>4. QED
    BY <2>2, <2>3 DEF Steady
<1>4. CASE EnableUser(p) \/ CreateUser(p) \/ ReactivateUser(p)
  <2>1. \/ kc' = kc /\ mas' = mas /\ raised' = raised
        \/ Raise(p)
    BY <1>4 DEF EnableUser, CreateUser, ReactivateUser, NoShift
  <2>2. rooms' = rooms
    BY <1>4 DEF EnableUser, CreateUser, ReactivateUser
  <2>3. QED
    BY <1>1, <2>1, <2>2 DEF Raise, Steady
<1>5. CASE DeactivateUser(p)
  BY <1>5 DEF DeactivateUser, Lower, NoShift, Steady
<1>6. CASE KickUser(p)
  BY <1>6 DEF KickUser, NoShift, Steady
<1>7. CASE FinishSession(p) \/ LogoutUser(p) \/ AddGrant(p) \/ SendInviteEmail(p)
  BY <1>2, <1>7 DEF FinishSession, LogoutUser, AddGrant, SendInviteEmail, NoShift, upstream
<1>8. CASE Start(p) \/ Cut(p) \/ Read(p) \/ Audit(p)
  BY <1>2, <1>8 DEF Start, Cut, Read, Audit, upstream, history, GetUser, FindSessions,
     ListSessions, Find, GetSpaceChildren, GetJoinedRoomMembers, GetUserByEmail
<1>9. QED
  BY <1>3, <1>4, <1>5, <1>6, <1>7, <1>8 DEF Step, Mutate

LEMMA KindKept ==
    ASSUME TypeOK, NEW r \in Req, Cut(r) \/ Step(r)
    PROVE  req'[r].kind = req[r].kind
<1>1. req[r] \in Request
  BY DEF TypeOK
<1>2. ASSUME NEW s, NEW w, GoTo(r, s, w)
      PROVE  req'[r].kind = req[r].kind
  <2>1. req'[r] = Settle([req[r] EXCEPT !.stage = s, !.res = "none", !.warn = @ \/ w])
    BY <1>2, BecomeReq DEF GoTo
  <2>2. QED
    BY <1>1, <2>1 DEF Settle, Request
<1>3. ASSUME NEW o, Abort(r, o)
      PROVE  req'[r].kind = req[r].kind
  <2>1. req'[r] = [req[r] EXCEPT !.out = o]
    BY <1>3, BecomeReq DEF Abort
  <2>2. QED
    BY <1>1, <2>1 DEF Request
<1>4. ASSUME NEW a, NEW o, Answered(r, a, o)
      PROVE  req'[r].kind = req[r].kind
  <2>1. req'[r] = [req[r] EXCEPT !.res = IF a = "ok" THEN "ok" ELSE "err", !.obj = o]
    BY <1>4, BecomeReq DEF Answered
  <2>2. QED
    BY <1>1, <2>1 DEF Request
<1>5. CASE Cut(r) \/ GetUser(r) \/ FindSessions(r) \/ GetUserByEmail(r)
  <2>1. (\E s, w : GoTo(r, s, w)) \/ (\E o : Abort(r, o))
    BY <1>5 DEF Cut, GetUser, FindSessions, GetUserByEmail
  <2>2. QED
    BY <1>2, <1>3, <2>1
<1>6. CASE ListSessions(r)
  <2>1. PICK t, w : LET p == [req[r] EXCEPT !.todo = t, !.warn = w]
                    IN  Become(r, [p EXCEPT !.stage = AfterSessions(p)])
    BY <1>6 DEF ListSessions
  <2>2. \E s : req'[r] = [[req[r] EXCEPT !.todo = t, !.warn = w] EXCEPT !.stage = s]
    BY <2>1, BecomeReq
  <2>3. QED
    BY <1>1, <2>2 DEF Request
<1>7. CASE Find(r)
  <2>1. PICK f, s, w : Become(r, Settle([req[r] EXCEPT !.found = f, !.stage = s, !.warn = w]))
    BY <1>7 DEF Find
  <2>2. req'[r] = Settle([req[r] EXCEPT !.found = f, !.stage = s, !.warn = w])
    BY <2>1, BecomeReq
  <2>3. QED
    BY <1>1, <2>2 DEF Settle, Request
<1>8. CASE GetSpaceChildren(r)
  <2>1. PICK b, n, t, w :
          Become(r, [req[r] EXCEPT !.stage = "visit", !.root = b, !.near = n, !.todo = t, !.warn = w])
    BY <1>8 DEF GetSpaceChildren
  <2>2. req'[r] = [req[r] EXCEPT !.stage = "visit", !.root = b, !.near = n, !.todo = t, !.warn = w]
    BY <2>1, BecomeReq
  <2>3. QED
    BY <1>1, <2>2 DEF Request
<1>9. CASE GetJoinedRoomMembers(r)
  <2>1. PICK n, t, s :
          LET p == [req[r] EXCEPT !.near = n, !.obj = t]
          IN  \/ Become(r, [p EXCEPT !.stage = s])
              \/ Become(r, [p EXCEPT !.stage = s, !.warn = TRUE])
    BY <1>9 DEF GetJoinedRoomMembers
  <2>2. \/ req'[r] = [[req[r] EXCEPT !.near = n, !.obj = t] EXCEPT !.stage = s]
        \/ req'[r] = [[req[r] EXCEPT !.near = n, !.obj = t] EXCEPT !.stage = s, !.warn = TRUE]
    BY <2>1, BecomeReq
  <2>3. QED
    BY <1>1, <2>2 DEF Request
<1>10. CASE \/ FinishSession(r) \/ LogoutUser(r) \/ DisableUser(r) \/ EnableUser(r)
            \/ DeleteUser(r) \/ DeactivateUser(r) \/ ReactivateUser(r)
            \/ KickUser(r) \/ SendInviteEmail(r)
  BY <1>4, <1>10 DEF FinishSession, LogoutUser, DisableUser, EnableUser, DeleteUser,
     DeactivateUser, ReactivateUser, KickUser, SendInviteEmail
<1>11. CASE CreateUser(r) \/ AddGrant(r)
  <2>1. PICK i, t, g, s :
          \/ Become(r, [req[r] EXCEPT !.out = "err"])
          \/ Become(r, [[req[r] EXCEPT !.id = i, !.todo = t] EXCEPT !.stage = s])
          \/ Become(r, [[req[r] EXCEPT !.todo = t, !.given = g] EXCEPT !.stage = s])
    BY <1>11 DEF CreateUser, AddGrant
  <2>2. \/ req'[r] = [req[r] EXCEPT !.out = "err"]
        \/ req'[r] = [[req[r] EXCEPT !.id = i, !.todo = t] EXCEPT !.stage = s]
        \/ req'[r] = [[req[r] EXCEPT !.todo = t, !.given = g] EXCEPT !.stage = s]
    BY <2>1, BecomeReq
  <2>3. QED
    BY <1>1, <2>2 DEF Request
<1>12. CASE Audit(r)
  <2>1. PICK logged :
         LET ok == logged /\ req[r].res = "ok"
             p  == [req[r] EXCEPT !.lost = @ \/ ~logged]
         IN  \/ Become(r, Settle([Proceed(p) EXCEPT !.res = "none", !.warn = @ \/ ~ok]))
             \/ Become(r, [p EXCEPT !.out = IF logged /\ PartlyDone(req[r]) THEN "partial"
                                                                           ELSE "err"])
    BY <1>12 DEF Audit
  <2> DEFINE p == [req[r] EXCEPT !.lost = @ \/ ~logged]
  <2>2. p \in Request /\ p.kind = req[r].kind
    <3>1. \A v \in BOOLEAN : [req[r] EXCEPT !.lost = v] \in Request
      BY <1>1 DEF Request
    <3>2. (req[r].lost \/ ~logged) \in BOOLEAN
      OBVIOUS
    <3>3. p.kind = req[r].kind
      BY <1>1 DEF Request
    <3>4. QED
      BY <3>1, <3>2, <3>3
  <2>3. \/ \E w : req'[r] = Settle([Proceed(p) EXCEPT !.res = "none", !.warn = w])
        \/ \E o : req'[r] = [p EXCEPT !.out = o]
    BY <2>1, BecomeReq
  <2> HIDE DEF p
  <2>4. Proceed(p) \in Request /\ Proceed(p).kind = p.kind
    <3>1. Proceed(p) \in Request
      BY <2>2, ProceedType
    <3>2. Proceed(p).kind = p.kind
      BY <2>2 DEF Proceed, FinishedOnce, Request
    <3>3. QED
      BY <3>1, <3>2
  <2>5. QED
    BY <2>2, <2>3, <2>4 DEF Settle, Request
<1>13. QED
  BY <1>5, <1>6, <1>7, <1>8, <1>9, <1>10, <1>11, <1>12 DEF Step, Read, Mutate

LEMMA OffInvStep ==
    ASSUME IInv, TypeOK', [Next]_vars
    PROVE  OffInv'
<1> SUFFICES ASSUME NEW r \in Req \ raised', req'[r].kind = "offboard"
             PROVE  Off(req'[r], kc', mas', rooms')
  BY DEF OffInv
<1>1. r \notin raised /\ req[r].kind = "offboard" => Off(req[r], kc, mas, rooms)
  BY DEF IInv, OffInv
<1>2. CASE UNCHANGED vars
  BY <1>1, <1>2 DEF vars, upstream, history
<1>3. CASE Person
  <2>1. EnabledIn(kc) /\ req' = req /\ raised' = raised
    BY <1>3 DEF Person, Login, Join, Enabled, EnabledIn, history
  <2>2. QED
    BY <1>1, <2>1, EarlyAnyOff
<1>4. ASSUME NEW p \in Req, Start(p) \/ Cut(p) \/ Step(p), p # r
      PROVE  Off(req'[r], kc', mas', rooms')
  <2>1. req'[r] = req[r]
    BY <1>4, MovesOwn, BecomeReq DEF IInv
  <2>2. r \notin raised /\ Steady
    BY <1>4, <2>1, OthersSteady DEF IInv
  <2>3. QED
    BY <1>1, <2>1, <2>2, SteadyOff
<1>5. CASE Start(r)
  BY <1>5, StartOff DEF IInv
<1>6. CASE Cut(r) \/ Step(r)
  <2>1. req[r].kind = "offboard"
    BY <1>6, KindKept DEF IInv
  <2>2. r \notin raised
    <3>1. CASE Cut(r)
      BY <3>1 DEF Cut, history
    <3>2. CASE Step(r)
      BY <3>2 DEF Step, Read, Mutate, Audit, history, GetUser, FindSessions, ListSessions,
         Find, GetSpaceChildren, GetJoinedRoomMembers, GetUserByEmail, FinishSession,
         LogoutUser, DisableUser, EnableUser, DeleteUser, DeactivateUser, ReactivateUser,
         KickUser, CreateUser, AddGrant, SendInviteEmail, Raise, Lower, NoShift
    <3>3. QED
      BY <1>6, <3>1, <3>2
  <2>3. Offboarding(r)
    BY <1>1, <2>1, <2>2 DEF Offboarding, IInv
  <2>4. QED
    BY <1>6, <2>3, CutOff, StepOff
<1>7. QED
  BY <1>2, <1>3, <1>4, <1>5, <1>6 DEF Next, Program

LEMMA IInvStep == IInv /\ [Next]_vars => IInv'
<1> SUFFICES ASSUME IInv, [Next]_vars PROVE IInv'
  OBVIOUS
<1>1. TypeOK'
  BY NextType DEF IInv
<1>2. OneLiveId'
  BY OneLiveStep DEF IInv
<1>3. LockedOut'
  BY LockedOutStep DEF IInv
<1>4. OffInv'
  BY <1>1, OffInvStep
<1>5. QED
  BY <1>1, <1>2, <1>3, <1>4 DEF IInv

-----------------------------------------------------------------------------
\* Whatever other admins, the person and the faults do: an offboarding that
\* returns without a warning, and since whose start no other request has given
\* access, leaves no enabled user, no active MAS account, no session and no
\* mapped room (offboard_user).
THEOREM OffboardIsClean == Spec => []CleanOffboard
<1>1. Init => IInv
  BY IInvInit
<1>2. QED
  BY <1>1, IInvStep, IInvSafe, PTL DEF Spec

\* A person whose MAS account is not active has no session, and Keycloak never
\* holds two live users of the person: what the workflows count on when they
\* leave sessions that MAS ends by itself alone.
THEOREM LockedOutAlways == Spec => [](LockedOut /\ OneLiveId)
<1>1. Init => IInv
  BY IInvInit
<1>2. IInv => LockedOut /\ OneLiveId
  BY DEF IInv
<1>3. QED
  BY <1>1, <1>2, IInvStep, PTL DEF Spec

-----------------------------------------------------------------------------
(***************************************************************************)
(* What the audit log and the results of the other workflows are worth:    *)
(* the proofs of AuditTrail, SuccessEntriesHold, CleanReactivate,          *)
(* DeleteClosesAuth and ReinviteUsable.                                    *)
(*                                                                         *)
(* All of them rest on the route a request takes: which stages its kind    *)
(* has, and what has been done for good once a stage is behind it.  What a *)
(* request has built up outlives the steps of the others, unless they      *)
(* count as giving or taking access; its own later steps never undo it,    *)
(* because no route has two stages that move access opposite ways.         *)
(***************************************************************************)
StagesOf(k) ==
    CASE k = "disable"    -> {"get_user", "find_sessions", "list_sessions", "finish",
                              "disable", "end"}
      [] k = "offboard"   -> {"get_user", "find_sessions", "list_sessions", "finish",
                              "logout", "disable"} \cup PastDisable
      [] k = "reactivate" -> {"get_user", "enable", "find", "reactivate", "end"}
      [] k = "delete"     -> {"get_user", "find", "deactivate", "remove", "end"}
      [] k = "invite"     -> {"check", "find", "create", "grant", "reactivate", "email", "end"}
      [] k = "revoke"     -> {"finish", "end"}
      [] k = "logout"     -> {"logout", "end"}
      [] OTHER            -> {"idle"}

\* Stages whose call is followed by an audit entry, and those of an invite whose
\* user has been created.
Answerable == {"finish", "logout", "disable", "enable", "kick", "deactivate",
               "reactivate", "remove", "email"}
Created == {"grant", "reactivate", "email", "end"}

Routed(q) ==
    /\ q.stage \in StagesOf(q.kind)
    /\ q.res # "none" => q.stage \in Answerable
    /\ q.res # "none" /\ q.stage = "finish" => q.obj \in Sessions
    /\ q.kind \in {"disable", "offboard", "reactivate", "delete", "logout"} => q.id \in Ids
    /\ q.kind = "invite" /\ q.stage \in Created => q.id \in Ids
    /\ q.out = "ok" => q.stage = "end" /\ ~q.warn
    /\ q.out = "warned" => q.stage = "end"
    /\ q.out = "partial" => q.stage = "remove"

\* What a request that gives access has given when it has come as far as q,
\* Keycloak's users being K, the MAS account m and the grants G.
Opened(q, K, m, G) ==
    /\ q.stage = "enable" /\ q.res = "ok" => K[q.id] = "enabled"
    /\ q.stage = "reactivate" /\ q.res = "ok" => m # "deactivated"
    /\ q.kind = "reactivate" =>
          /\ q.stage \in {"find", "reactivate", "end"} => K[q.id] = "enabled"
          /\ q.stage = "end" /\ ~q.warn => m # "deactivated"
    /\ q.kind = "invite" =>
          /\ q.given \subseteq G
          /\ q.stage \in Created => K[q.id] = "enabled"
          /\ q.stage \in Created \cup {"create"} /\ q.found \in {"none", "active"} =>
                m # "deactivated"
          /\ q.stage \in {"email", "end"} /\ q.found = "deactivated" => m # "deactivated"

\* The same of a delete.
Shut(q, m) ==
    q.kind = "delete" =>
        /\ q.stage = "deactivate" /\ q.res = "ok" => m = "deactivated"
        /\ q.found \in Known /\ q.stage \in {"remove", "end"} => m = "deactivated"

\* An entry, and a call, of a request that has come as far as q.
EntryFits(e, q) ==
    /\ e.step \in StagesOf(q.kind) \cap Answerable
    /\ e.step = "kick" => q.stage \in PastDisable
    /\ e.step = "finish" => e.obj \in Sessions
CallFits(t, q) ==
    /\ q.kind # "none"
    /\ t.step \in {"create", "grant"} =>
          q.kind = "invite" /\ (q.stage \in Created \/ q.out # "none")

Onward(q, p) ==
    /\ p.kind = q.kind
    /\ q.kind = "offboard" /\ q.stage \in PastDisable => p.stage \in PastDisable
    /\ q.kind = "invite" /\ (q.stage \in Created \/ q.out # "none") =>
          p.stage \in Created \/ p.out # "none"

\* What is kept of request r.
Fine(r) ==
    /\ Routed(req[r])
    /\ r \notin lowered => Opened(req[r], kc, mas, grants)
    /\ r \notin raised => Shut(req[r], mas)

AllFine == \A r \in Req : Fine(r)

\* A step of r's own, and what it comes to.
OwnStep(r) == TypeOK /\ TypeOK' /\ Fine(r)
Advances(r) ==
    /\ Onward(req[r], req'[r])
    /\ Routed(req'[r])
    /\ r \notin lowered => Opened(req'[r], kc', mas', grants')
    /\ r \notin raised => Shut(req'[r], mas')

LEMMA AtIs ==
    ASSUME NEW r \in Req, OwnStep(r), NEW s, At(r, s)
    PROVE  /\ req[r] \in Request /\ req'[r] \in Request
           /\ req[r].stage = s /\ req[r].res = "none" /\ req[r].out = "none"
           /\ s \in StagesOf(req[r].kind)
  BY DEF At, OwnStep, TypeOK, Fine, Routed

\* A request that stops where it is.
LEMMA AbortAdvances ==
    ASSUME NEW r \in Req, OwnStep(r), NEW o \in {"err", "cut"}, Abort(r, o),
           req[r].out = "none", kc' = kc, mas' = mas, grants' = grants
    PROVE  Advances(r)
<1>1. req[r] \in Request
  BY DEF OwnStep, TypeOK
<1>2. req'[r] = [req[r] EXCEPT !.out = o]
  BY BecomeReq DEF Abort, OwnStep
<1> DEFINE p == req'[r]
<1>3. /\ p.kind = req[r].kind /\ p.id = req[r].id /\ p.stage = req[r].stage
      /\ p.res = req[r].res /\ p.obj = req[r].obj /\ p.found = req[r].found
      /\ p.given = req[r].given /\ p.warn = req[r].warn /\ p.out = o
  BY <1>1, <1>2 DEF Request
<1>4. Onward(req[r], p)
  BY <1>3 DEF Onward
<1>5. Routed(p)
  BY <1>3 DEF OwnStep, Fine, Routed
<1>6. r \notin lowered => Opened(p, kc, mas, grants)
  BY <1>3 DEF OwnStep, Fine, Opened
<1>7. r \notin raised => Shut(p, mas)
  BY <1>3 DEF OwnStep, Fine, Shut
<1>8. QED
  BY <1>4, <1>5, <1>6, <1>7 DEF Advances

\* Fields a read leaves alone.
SameFields(q, p) ==
    p.kind = q.kind /\ p.id = q.id /\ p.given = q.given /\ p.lost = q.lost

LEMMA GoToIs ==
    ASSUME NEW r \in Req, TypeOK, NEW s \in Stage \ {"end"}, NEW w \in BOOLEAN, GoTo(r, s, w)
    PROVE  /\ SameFields(req[r], req'[r]) /\ req'[r].found = req[r].found
           /\ req'[r].out = req[r].out /\ req'[r].stage = s /\ req'[r].res = "none"
<1> DEFINE q == [req[r] EXCEPT !.stage = s, !.res = "none", !.warn = @ \/ w]
<1>1. req[r] \in Request
  BY DEF TypeOK
<1>2. q.stage = s
  BY <1>1 DEF Request
<1>3. req'[r] = Settle(q)
  BY BecomeReq DEF GoTo
<1>4. req'[r] = q
  <2> HIDE DEF q
  <2> QED
    BY <1>2, <1>3, SettleEarly
<1>5. QED
  BY <1>1, <1>4 DEF Request, SameFields

\* A read that goes on to stage s, before anything is given or taken.
LEMMA GoToAdvances ==
    ASSUME NEW r \in Req, OwnStep(r), req[r].out = "none",
           NEW s \in {"find_sessions", "list_sessions", "finish", "logout", "disable",
                      "enable", "find"},
           s \in StagesOf(req[r].kind), s = "find" => req[r].kind \in {"delete", "invite"},
           req[r].stage \in {"get_user", "check", "find_sessions"},
           NEW w \in BOOLEAN, GoTo(r, s, w), kc' = kc, mas' = mas, grants' = grants
    PROVE  Advances(r)
<1> DEFINE p == req'[r]
<1>1. s \in Stage \ {"end"}
  BY DEF Stage
<1>2. /\ SameFields(req[r], p) /\ p.found = req[r].found
      /\ p.out = "none" /\ p.stage = s /\ p.res = "none"
  BY <1>1, GoToIs DEF OwnStep
<1>3. Onward(req[r], p)
  BY <1>2 DEF Onward, SameFields, PastDisable, Looping, Created
<1>4. Routed(p)
  BY <1>2 DEF OwnStep, Fine, Routed, SameFields, Created
<1>5. r \notin lowered => Opened(p, kc, mas, grants)
  BY <1>2 DEF OwnStep, Fine, Opened, SameFields, Created
<1>6. r \notin raised => Shut(p, mas)
  BY <1>2 DEF OwnStep, Fine, Shut, SameFields
<1>7. QED
  BY <1>3, <1>4, <1>5, <1>6 DEF Advances

LEMMA GetUserAdvances ==
    ASSUME NEW r \in Req, OwnStep(r), GetUser(r)
    PROVE  Advances(r)
<1>1. /\ req[r].stage = "get_user" /\ req[r].out = "none"
      /\ "get_user" \in StagesOf(req[r].kind)
  BY AtIs DEF GetUser
<1>2. kc' = kc /\ mas' = mas /\ grants' = grants
  BY DEF GetUser, upstream
<1>3. req[r].kind \in {"disable", "offboard", "reactivate", "delete"}
  BY <1>1 DEF StagesOf
<1>4. \/ Abort(r, "err")
      \/ req[r].kind \in {"disable", "offboard"} /\ GoTo(r, "find_sessions", FALSE)
      \/ req[r].kind = "reactivate" /\ GoTo(r, "enable", FALSE)
      \/ req[r].kind = "delete" /\ GoTo(r, "find", FALSE)
  BY <1>3 DEF GetUser
<1>5. QED
  BY <1>1, <1>2, <1>4, AbortAdvances, GoToAdvances DEF StagesOf

LEMMA GetUserByEmailAdvances ==
    ASSUME NEW r \in Req, OwnStep(r), GetUserByEmail(r)
    PROVE  Advances(r)
<1>1. /\ req[r].stage = "check" /\ req[r].out = "none"
      /\ "check" \in StagesOf(req[r].kind)
  BY AtIs DEF GetUserByEmail
<1>2. kc' = kc /\ mas' = mas /\ grants' = grants
  BY DEF GetUserByEmail, upstream
<1>3. req[r].kind = "invite"
  BY <1>1 DEF StagesOf, PastDisable, Looping
<1>4. Abort(r, "err") \/ GoTo(r, "find", FALSE)
  BY DEF GetUserByEmail
<1>5. QED
  BY <1>1, <1>2, <1>3, <1>4, AbortAdvances, GoToAdvances DEF StagesOf

LEMMA AfterSessionsIs ==
    ASSUME NEW q, q.kind \in {"disable", "offboard"}
    PROVE  /\ AfterSessions(q) \in {"finish", "logout", "disable"}
           /\ AfterSessions(q) \in StagesOf(q.kind)
  BY DEF AfterSessions, StagesOf

LEMMA FindSessionsAdvances ==
    ASSUME NEW r \in Req, OwnStep(r), FindSessions(r)
    PROVE  Advances(r)
<1>1. /\ req[r].stage = "find_sessions" /\ req[r].out = "none"
      /\ "find_sessions" \in StagesOf(req[r].kind)
  BY AtIs DEF FindSessions
<1>2. kc' = kc /\ mas' = mas /\ grants' = grants
  BY DEF FindSessions, upstream
<1>3. req[r].kind \in {"disable", "offboard"}
  BY <1>1 DEF StagesOf, PastDisable, Looping
<1>4. PICK s \in {"list_sessions", AfterSessions(req[r])}, w \in BOOLEAN : GoTo(r, s, w)
  BY DEF FindSessions
<1>5. s \in {"list_sessions", "finish", "logout", "disable"} /\ s \in StagesOf(req[r].kind)
  BY <1>3, <1>4, AfterSessionsIs DEF StagesOf
<1>6. QED
  BY <1>1, <1>2, <1>4, <1>5, GoToAdvances

LEMMA ListSessionsAdvances ==
    ASSUME NEW r \in Req, OwnStep(r), ListSessions(r)
    PROVE  Advances(r)
<1>1. /\ req[r].stage = "list_sessions" /\ req[r].out = "none" /\ req[r].res = "none"
      /\ req[r] \in Request /\ "list_sessions" \in StagesOf(req[r].kind)
  BY AtIs DEF ListSessions
<1>2. kc' = kc /\ mas' = mas /\ grants' = grants
  BY DEF ListSessions, upstream
<1>3. req[r].kind \in {"disable", "offboard"}
  BY <1>1 DEF StagesOf, PastDisable, Looping
<1>4. PICK t, w : LET p == [req[r] EXCEPT !.todo = t, !.warn = w]
                  IN  Become(r, [p EXCEPT !.stage = AfterSessions(p)])
  BY DEF ListSessions
<1> DEFINE q == [req[r] EXCEPT !.todo = t, !.warn = w]
           p == req'[r]
<1>5. q.kind = req[r].kind
  BY <1>1 DEF Request
<1>6. PICK s \in {"finish", "logout", "disable"} :
         s = AfterSessions(q) /\ s \in StagesOf(req[r].kind)
  <2> HIDE DEF q
  <2> QED
    BY <1>3, <1>5, AfterSessionsIs
<1>7. p = [q EXCEPT !.stage = s]
  BY <1>4, <1>6, BecomeReq DEF OwnStep
<1>8. /\ SameFields(req[r], p) /\ p.found = req[r].found
      /\ p.out = "none" /\ p.stage = s /\ p.res = "none"
  BY <1>1, <1>7 DEF Request, SameFields
<1>9. Onward(req[r], p)
  BY <1>1, <1>8 DEF Onward, SameFields, PastDisable, Looping, Created
<1>10. Routed(p)
  BY <1>3, <1>6, <1>8 DEF OwnStep, Fine, Routed, SameFields, Created
<1>11. r \notin lowered => Opened(p, kc, mas, grants)
  BY <1>3, <1>8 DEF OwnStep, Fine, Opened, SameFields, Created
<1>12. r \notin raised => Shut(p, mas)
  BY <1>3, <1>8 DEF OwnStep, Fine, Shut, SameFields
<1>13. QED
  BY <1>2, <1>9, <1>10, <1>11, <1>12 DEF Advances

LEMMA FindAdvances ==
    ASSUME NEW r \in Req, OwnStep(r), Find(r)
    PROVE  Advances(r)
<1>1. /\ req[r].stage = "find" /\ req[r].out = "none" /\ req[r].res = "none"
      /\ req[r] \in Request /\ "find" \in StagesOf(req[r].kind)
  BY AtIs DEF Find
<1>2. kc' = kc /\ mas' = mas /\ grants' = grants
  BY DEF Find, upstream
<1>3. req[r].kind \in {"offboard", "reactivate", "delete", "invite"}
  BY <1>1 DEF StagesOf
<1>4. PICK f \in {mas, "unknown"}, w \in BOOLEAN :
         /\ Become(r, Settle([req[r] EXCEPT !.found = f, !.stage = AfterFind(req[r], f),
                                            !.warn = w]))
         /\ f = "unknown" => w \/ req[r].kind = "invite"
  BY <1>1 DEF Find, LookupWarns, Request
<1> DEFINE q == [req[r] EXCEPT !.found = f, !.stage = AfterFind(req[r], f), !.warn = w]
           p == req'[r]
<1>5. /\ SameFields(req[r], q) /\ q.found = f /\ q.stage = AfterFind(req[r], f)
      /\ q.out = "none" /\ q.res = "none" /\ q.warn = w
  BY <1>1 DEF Request, SameFields
<1>6. p = Settle(q)
  BY <1>4, BecomeReq DEF OwnStep
<1>7. q \in Request
  <2>1. f \in {"unknown", "none"} \cup Known
    BY <1>4 DEF OwnStep, TypeOK
  <2>2. AfterFind(req[r], f) \in Stage
    BY AfterType
  <2>3. QED
    BY <1>1, <2>1, <2>2 DEF Request
<1>8. /\ SameFields(req[r], p) /\ p.found = f /\ p.stage = AfterFind(req[r], f)
      /\ p.res = "none" /\ p.warn = w
      /\ p.out = IF p.stage = "end" THEN (IF w THEN "warned" ELSE "ok") ELSE "none"
  <2> HIDE DEF q
  <2> QED
    BY <1>5, <1>6, <1>7 DEF Settle, SameFields, Request
<1>9. /\ req[r].kind = "offboard" => p.stage \in {"deactivate", "end"}
      /\ req[r].kind = "reactivate" =>
            p.stage \in {"reactivate", "end"} /\ (p.stage = "end" <=> f # "deactivated")
      /\ req[r].kind = "delete" =>
            p.stage \in {"deactivate", "remove"} /\ (p.stage = "remove" <=> f \notin Known)
      /\ req[r].kind = "invite" => p.stage = "create"
  BY <1>8 DEF AfterFind, Known
<1>10. mas \in {"none"} \cup Known
  BY DEF OwnStep, TypeOK
<1>11. Onward(req[r], p)
  BY <1>1, <1>8, <1>9 DEF Onward, SameFields, PastDisable, Looping, Created
<1>12. Routed(p)
  BY <1>3, <1>8, <1>9 DEF OwnStep, Fine, Routed, SameFields, Created, StagesOf, PastDisable
<1>13. r \notin lowered => Opened(p, kc, mas, grants)
  BY <1>1, <1>3, <1>4, <1>8, <1>9, <1>10 DEF OwnStep, Fine, Opened, SameFields, Created, Known
<1>14. r \notin raised => Shut(p, mas)
  BY <1>3, <1>8, <1>9 DEF OwnStep, Fine, Shut, SameFields
<1>15. QED
  BY <1>2, <1>11, <1>12, <1>13, <1>14 DEF Advances

\* The loop over rooms is an offboarding's: it gives nothing and opens nothing.
LEMMA LoopAdvances ==
    ASSUME NEW r \in Req, OwnStep(r), req[r].kind = "offboard", req[r].out = "none",
           req'[r].kind = "offboard", req'[r].id = req[r].id, req'[r].out = "none",
           req'[r].res = "none", req'[r].stage \in Looping \cup {"find"}
    PROVE  Advances(r)
<1> DEFINE p == req'[r]
<1>1. Onward(req[r], p)
  BY DEF Onward, PastDisable
<1>2. Routed(p)
  BY DEF OwnStep, Fine, Routed, StagesOf, PastDisable, Looping
<1>3. Opened(p, kc', mas', grants') /\ Shut(p, mas')
  BY DEF Opened, Shut, Looping
<1>4. QED
  BY <1>1, <1>2, <1>3 DEF Advances

LEMMA GetSpaceChildrenAdvances ==
    ASSUME NEW r \in Req, OwnStep(r), GetSpaceChildren(r)
    PROVE  Advances(r)
<1>1. /\ req[r].out = "none" /\ req[r].res = "none" /\ req[r] \in Request
      /\ "expand" \in StagesOf(req[r].kind)
  BY AtIs DEF GetSpaceChildren
<1>2. req[r].kind = "offboard"
  BY <1>1 DEF StagesOf
<1>3. PICK b, n, t, w :
        Become(r, [req[r] EXCEPT !.stage = "visit", !.root = b, !.near = n, !.todo = t, !.warn = w])
  BY DEF GetSpaceChildren
<1>4. req'[r] = [req[r] EXCEPT !.stage = "visit", !.root = b, !.near = n, !.todo = t, !.warn = w]
  BY <1>3, BecomeReq DEF OwnStep
<1>5. /\ req'[r].kind = "offboard" /\ req'[r].id = req[r].id /\ req'[r].out = "none"
      /\ req'[r].res = "none" /\ req'[r].stage = "visit"
  BY <1>1, <1>2, <1>4 DEF Request
<1>6. QED
  BY <1>1, <1>2, <1>5, LoopAdvances DEF Looping

LEMMA GetJoinedRoomMembersAdvances ==
    ASSUME NEW r \in Req, OwnStep(r), GetJoinedRoomMembers(r)
    PROVE  Advances(r)
<1>1. /\ req[r].out = "none" /\ req[r].res = "none" /\ req[r] \in Request
      /\ "visit" \in StagesOf(req[r].kind)
  BY AtIs DEF GetJoinedRoomMembers
<1>2. req[r].kind = "offboard"
  BY <1>1 DEF StagesOf
<1>3. PICK n, t, s, w :
        /\ \/ Become(r, [[req[r] EXCEPT !.near = n, !.obj = t] EXCEPT !.stage = s])
           \/ Become(r, [[req[r] EXCEPT !.near = n, !.obj = t] EXCEPT !.stage = s, !.warn = w])
        /\ s \in Looping \cup {"find"}
  BY DEF GetJoinedRoomMembers, AfterRoom, Looping
<1>4. \/ req'[r] = [[req[r] EXCEPT !.near = n, !.obj = t] EXCEPT !.stage = s]
      \/ req'[r] = [[req[r] EXCEPT !.near = n, !.obj = t] EXCEPT !.stage = s, !.warn = w]
  BY <1>3, BecomeReq DEF OwnStep
<1>5. /\ req'[r].kind = "offboard" /\ req'[r].id = req[r].id /\ req'[r].out = "none"
      /\ req'[r].res = "none" /\ req'[r].stage = s
  BY <1>1, <1>2, <1>4 DEF Request
<1>6. QED
  BY <1>1, <1>2, <1>3, <1>5, LoopAdvances

-----------------------------------------------------------------------------
(***************************************************************************)
(* The calls.                                                              *)
(***************************************************************************)
LEMMA AnsweredIs ==
    ASSUME NEW r \in Req, TypeOK, NEW a, NEW o, Answered(r, a, o)
    PROVE  /\ SameFields(req[r], req'[r]) /\ req'[r].found = req[r].found
           /\ req'[r].stage = req[r].stage /\ req'[r].warn = req[r].warn
           /\ req'[r].out = req[r].out /\ req'[r].obj = o
           /\ req'[r].res = IF a = "ok" THEN "ok" ELSE "err"
<1>1. req[r] \in Request
  BY DEF TypeOK
<1>2. req'[r] = [req[r] EXCEPT !.res = IF a = "ok" THEN "ok" ELSE "err", !.obj = o]
  BY BecomeReq DEF Answered
<1>3. QED
  BY <1>1, <1>2 DEF Request, SameFields

LEMMA AnsweredAdvances ==
    ASSUME NEW r \in Req, OwnStep(r), NEW s \in Answerable, At(r, s), NEW a, NEW o,
           Answered(r, a, o), s = "finish" => o \in Sessions,
           s = "enable" /\ a = "ok" => kc'[req[r].id] = "enabled",
           s = "reactivate" /\ a = "ok" => mas' # "deactivated",
           s = "deactivate" /\ a = "ok" => mas' = "deactivated",
           s \in {"disable", "remove", "enable"} \/ kc' = kc,
           s \in {"deactivate", "reactivate"} \/ mas' = mas,
           s = "reactivate" => mas' # "deactivated" \/ mas' = mas,
           s = "remove" \/ grants' = grants
    PROVE  Advances(r)
<1> DEFINE p == req'[r]
<1>1. /\ req[r].stage = s /\ req[r].res = "none" /\ req[r].out = "none"
      /\ s \in StagesOf(req[r].kind)
  BY AtIs
<1>2. /\ SameFields(req[r], p) /\ p.found = req[r].found
      /\ p.stage = s /\ p.warn = req[r].warn
      /\ p.out = "none" /\ p.obj = o /\ p.res = IF a = "ok" THEN "ok" ELSE "err"
  BY <1>1, AnsweredIs DEF OwnStep
<1>3. Onward(req[r], p)
  BY <1>1, <1>2 DEF Onward, SameFields
<1>4. Routed(p)
  BY <1>1, <1>2 DEF OwnStep, Fine, Routed, SameFields
<1>5. ASSUME r \notin lowered
      PROVE  Opened(p, kc', mas', grants')
  <2>1. Opened(req[r], kc, mas, grants)
    BY <1>5 DEF OwnStep, Fine
  <2>2. CASE p.kind = "reactivate"
    <3>1. s \in {"enable", "reactivate"}
      BY <1>1, <1>2, <2>2 DEF SameFields, StagesOf, Answerable
    <3>2. QED
      BY <1>1, <1>2, <2>1, <2>2, <3>1 DEF SameFields, Opened
  <2>3. CASE p.kind = "invite"
    <3>1. s \in {"reactivate", "email"}
      BY <1>1, <1>2, <2>3 DEF SameFields, StagesOf, Answerable
    <3>2. QED
      BY <1>1, <1>2, <2>1, <2>3, <3>1 DEF SameFields, Opened
  <2>4. QED
    BY <1>1, <1>2, <2>2, <2>3 DEF Opened, SameFields
<1>6. ASSUME r \notin raised
      PROVE  Shut(p, mas')
  <2>1. Shut(req[r], mas)
    BY <1>6 DEF OwnStep, Fine
  <2>2. p.kind = "delete" => s \in {"deactivate", "remove"}
    BY <1>1, <1>2 DEF SameFields, StagesOf, Answerable
  <2>3. QED
    BY <1>1, <1>2, <2>1, <2>2 DEF SameFields, Shut
<1>7. QED
  BY <1>3, <1>4, <1>5, <1>6 DEF Advances

LEMMA FinishSessionAdvances ==
    ASSUME NEW r \in Req, OwnStep(r), FinishSession(r)
    PROVE  Advances(r)
<1>1. PICK s \in Sessions : \E a : Answered(r, a, s)
  BY DEF FinishSession
<1>2. PICK a : Answered(r, a, s)
  BY <1>1
<1>3. QED
  BY <1>2, AnsweredAdvances DEF FinishSession, Answerable

LEMMA LogoutUserAdvances ==
    ASSUME NEW r \in Req, OwnStep(r), LogoutUser(r)
    PROVE  Advances(r)
<1>1. PICK a : Answered(r, a, None)
  BY DEF LogoutUser
<1>2. QED
  BY <1>1, AnsweredAdvances DEF LogoutUser, Answerable

LEMMA DisableUserAdvances ==
    ASSUME NEW r \in Req, OwnStep(r), DisableUser(r)
    PROVE  Advances(r)
<1>1. PICK a : Answered(r, a, None)
  BY DEF DisableUser
<1>2. QED
  BY <1>1, AnsweredAdvances DEF DisableUser, Answerable

\* The id a request works on is one of Keycloak's by the time it is used.
LEMMA IdIs ==
    ASSUME NEW r \in Req, OwnStep(r), NEW s \in {"disable", "enable", "remove"}, At(r, s)
    PROVE  req[r].id \in Ids
<1>1. req[r].stage = s /\ s \in StagesOf(req[r].kind)
  BY AtIs
<1>2. req[r].kind \in {"disable", "offboard", "reactivate", "delete"}
  BY <1>1 DEF StagesOf, PastDisable, Looping
<1>3. QED
  BY <1>2 DEF OwnStep, Fine, Routed

LEMMA EnableUserAdvances ==
    ASSUME NEW r \in Req, OwnStep(r), EnableUser(r)
    PROVE  Advances(r)
<1>1. PICK a : /\ Answered(r, a, None)
               /\ kc' = IF Applied(a) THEN [kc EXCEPT ![req[r].id] = "enabled"] ELSE kc
  BY DEF EnableUser
<1>2. req[r].id \in Ids
  BY IdIs DEF EnableUser
<1>3. a = "ok" => kc'[req[r].id] = "enabled"
  BY <1>1, <1>2 DEF OwnStep, TypeOK, Applied
<1>4. QED
  BY <1>1, <1>3, AnsweredAdvances DEF EnableUser, Answerable

LEMMA DeleteUserAdvances ==
    ASSUME NEW r \in Req, OwnStep(r), DeleteUser(r)
    PROVE  Advances(r)
<1>1. PICK a : Answered(r, a, None)
  BY DEF DeleteUser
<1>2. QED
  BY <1>1, AnsweredAdvances DEF DeleteUser, Answerable

LEMMA DeactivateUserAdvances ==
    ASSUME NEW r \in Req, OwnStep(r), DeactivateUser(r)
    PROVE  Advances(r)
<1>1. PICK a : /\ Answered(r, a, None)
               /\ mas' = IF Applied(a) THEN "deactivated" ELSE mas
  BY DEF DeactivateUser
<1>2. a = "ok" => mas' = "deactivated"
  BY <1>1 DEF Applied
<1>3. QED
  BY <1>1, <1>2, AnsweredAdvances DEF DeactivateUser, Answerable

LEMMA ReactivateUserAdvances ==
    ASSUME NEW r \in Req, OwnStep(r), ReactivateUser(r)
    PROVE  Advances(r)
<1>1. PICK a : /\ Answered(r, a, None)
               /\ mas' = IF Applied(a) THEN "active" ELSE mas
  BY DEF ReactivateUser
<1>2. (a = "ok" => mas' # "deactivated") /\ (mas' # "deactivated" \/ mas' = mas)
  BY <1>1 DEF Applied
<1>3. QED
  BY <1>1, <1>2, AnsweredAdvances DEF ReactivateUser, Answerable

LEMMA KickUserAdvances ==
    ASSUME NEW r \in Req, OwnStep(r), KickUser(r)
    PROVE  Advances(r)
<1>1. PICK a : Answered(r, a, req[r].obj)
  BY DEF KickUser
<1>2. QED
  BY <1>1, AnsweredAdvances DEF KickUser, Answerable

LEMMA SendInviteEmailAdvances ==
    ASSUME NEW r \in Req, OwnStep(r), SendInviteEmail(r)
    PROVE  Advances(r)
<1>1. PICK a : Answered(r, a, None)
  BY DEF SendInviteEmail
<1>2. QED
  BY <1>1, AnsweredAdvances DEF SendInviteEmail, Answerable, upstream

\* Once the grants are through: a mail, or first the reactivation it takes.
LEMMA AfterGrantsIs ==
    ASSUME NEW q
    PROVE  /\ AfterGrants(q) \in {"grant", "reactivate", "email"}
           /\ AfterGrants(q) = "email" => q.found # "deactivated"
  BY DEF AfterGrants

LEMMA CreateUserIs ==
    ASSUME NEW r \in Req, OwnStep(r), CreateUser(r)
    PROVE  \/ Abort(r, "err") /\ (kc' = kc \/ \E i \in Ids : kc' = [kc EXCEPT ![i] = "enabled"])
           \/ \E i \in Ids :
                /\ kc' = [kc EXCEPT ![i] = "enabled"]
                /\ LET p == [req[r] EXCEPT !.id = i, !.todo = Grants]
                   IN  Become(r, [p EXCEPT !.stage = AfterGrants(p)])
  BY DEF CreateUser, Abort, Applied

LEMMA CreateUserAdvances ==
    ASSUME NEW r \in Req, OwnStep(r), CreateUser(r)
    PROVE  Advances(r)
<1>1. /\ req[r].stage = "create" /\ req[r].out = "none" /\ req[r].res = "none"
      /\ req[r] \in Request /\ "create" \in StagesOf(req[r].kind)
  BY AtIs DEF CreateUser
<1>2. req[r].kind = "invite"
  BY <1>1 DEF StagesOf, PastDisable, Looping
<1>3. mas' = mas /\ grants' = grants
  BY DEF CreateUser
<1> DEFINE p == req'[r]
<1>4. CASE Abort(r, "err")
  <2>1. p = [req[r] EXCEPT !.out = "err"]
    BY <1>4, BecomeReq DEF Abort, OwnStep
  <2>2. /\ SameFields(req[r], p) /\ p.stage = "create" /\ p.res = "none"
        /\ p.found = req[r].found /\ p.out = "err"
    BY <1>1, <2>1 DEF Request, SameFields
  <2>3. Onward(req[r], p) /\ Routed(p)
    BY <1>1, <1>2, <2>2 DEF Onward, Routed, SameFields, Created, OwnStep, Fine
  <2>4. r \notin lowered => Opened(p, kc', mas, grants)
    BY <1>1, <1>2, <2>2 DEF Opened, SameFields, Created, OwnStep, Fine
  <2>5. Shut(p, mas)
    BY <1>2, <2>2 DEF Shut, SameFields
  <2>6. QED
    BY <1>3, <2>3, <2>4, <2>5 DEF Advances
<1>5. CASE \E i \in Ids :
             /\ kc' = [kc EXCEPT ![i] = "enabled"]
             /\ LET q == [req[r] EXCEPT !.id = i, !.todo = Grants]
                IN  Become(r, [q EXCEPT !.stage = AfterGrants(q)])
  <2>1. PICK i \in Ids :
             /\ kc' = [kc EXCEPT ![i] = "enabled"]
             /\ LET q == [req[r] EXCEPT !.id = i, !.todo = Grants]
                IN  Become(r, [q EXCEPT !.stage = AfterGrants(q)])
    BY <1>5
  <2> DEFINE q == [req[r] EXCEPT !.id = i, !.todo = Grants]
  <2>2. q.found = req[r].found
    BY <1>1 DEF Request
  <2>3. PICK s \in {"grant", "reactivate", "email"} :
           s = AfterGrants(q) /\ (s = "email" => req[r].found # "deactivated")
    <3> HIDE DEF q
    <3> QED
      BY <2>2, AfterGrantsIs
  <2>4. p = [q EXCEPT !.stage = s]
    BY <2>1, <2>3, BecomeReq DEF OwnStep
  <2>5. /\ p.kind = "invite" /\ p.id = i /\ p.given = req[r].given /\ p.stage = s
        /\ p.res = "none" /\ p.found = req[r].found /\ p.out = "none"
    BY <1>1, <1>2, <2>4 DEF Request
  <2>6. Onward(req[r], p) /\ Routed(p)
    BY <1>1, <1>2, <2>5 DEF Onward, Routed, Created, StagesOf
  <2>7. kc'[i] = "enabled"
    BY <2>1 DEF OwnStep, TypeOK
  <2>8. r \notin lowered => Opened(p, kc', mas, grants)
    BY <1>1, <1>2, <2>3, <2>5, <2>7 DEF Opened, Created, OwnStep, Fine
  <2>9. Shut(p, mas)
    BY <2>5 DEF Shut
  <2>10. QED
    BY <1>3, <2>6, <2>8, <2>9 DEF Advances
<1>6. QED
  BY <1>4, <1>5, CreateUserIs

LEMMA AddGrantAdvances ==
    ASSUME NEW r \in Req, OwnStep(r), AddGrant(r)
    PROVE  Advances(r)
<1>1. /\ req[r].stage = "grant" /\ req[r].out = "none" /\ req[r].res = "none"
      /\ req[r] \in Request /\ "grant" \in StagesOf(req[r].kind)
  BY AtIs DEF AddGrant
<1>2. req[r].kind = "invite"
  BY <1>1 DEF StagesOf, PastDisable, Looping
<1>3. mas' = mas /\ kc' = kc
  BY DEF AddGrant
<1>4. PICK g, a :
         LET q == [req[r] EXCEPT !.todo = @ \ {g},
                                 !.given = IF a = "ok" THEN @ \cup {g} ELSE @]
         IN  /\ Become(r, [q EXCEPT !.stage = AfterGrants(q)])
             /\ grants' = IF Applied(a) THEN grants \cup {g} ELSE grants
  BY DEF AddGrant
<1> DEFINE q == [req[r] EXCEPT !.todo = @ \ {g}, !.given = IF a = "ok" THEN @ \cup {g} ELSE @]
           p == req'[r]
<1>5. q.found = req[r].found
  BY <1>1 DEF Request
<1>6. PICK s \in {"grant", "reactivate", "email"} :
         s = AfterGrants(q) /\ (s = "email" => req[r].found # "deactivated")
  <2> HIDE DEF q
  <2> QED
    BY <1>5, AfterGrantsIs
<1>7. p = [q EXCEPT !.stage = s]
  BY <1>4, <1>6, BecomeReq DEF OwnStep
<1>8. /\ p.kind = "invite" /\ p.id = req[r].id /\ p.stage = s /\ p.res = "none"
      /\ p.found = req[r].found /\ p.out = "none"
      /\ p.given = IF a = "ok" THEN req[r].given \cup {g} ELSE req[r].given
  BY <1>1, <1>2, <1>7 DEF Request
<1>9. Onward(req[r], p) /\ Routed(p)
  BY <1>1, <1>2, <1>8 DEF Onward, Routed, Created, StagesOf, OwnStep, Fine
<1>10. req[r].given \subseteq grants => p.given \subseteq grants'
  BY <1>4, <1>8 DEF Applied
<1>11. r \notin lowered => Opened(p, kc, mas, grants')
  BY <1>1, <1>2, <1>6, <1>8, <1>10 DEF Opened, Created, OwnStep, Fine
<1>12. Shut(p, mas)
  BY <1>8 DEF Shut
<1>13. QED
  BY <1>3, <1>9, <1>11, <1>12 DEF Advances

\* The stage s that follows a call of q and its entry.
Follows(q, s) ==
    /\ s \in StagesOf(q.kind)
    /\ q.kind = "offboard" /\ q.stage \in PastDisable => s \in PastDisable
    /\ q.kind = "reactivate" => s = IF q.stage = "enable" THEN "find" ELSE "end"
    /\ q.kind = "delete" => s = IF q.stage = "deactivate" THEN "remove" ELSE "end"
    /\ q.kind = "invite" => s = IF q.stage = "reactivate" THEN "email" ELSE "end"

LEMMA ProceedIs ==
    ASSUME NEW q \in Request, q.stage \in StagesOf(q.kind) \cap Answerable
    PROVE  /\ SameFields(q, Proceed(q)) /\ Proceed(q).found = q.found
           /\ Proceed(q).out = q.out
           /\ q.warn => Proceed(q).warn
           /\ Follows(q, Proceed(q).stage)
<1>1. CASE q.stage = "finish"
  <2>1. Proceed(q) = [FinishedOnce(q) EXCEPT !.stage = AfterSessions(FinishedOnce(q))]
    BY <1>1 DEF Proceed
  <2>2. /\ FinishedOnce(q) \in Request /\ SameFields(q, FinishedOnce(q))
        /\ FinishedOnce(q).found = q.found /\ FinishedOnce(q).out = q.out
        /\ FinishedOnce(q).warn = q.warn
    BY DEF FinishedOnce, Request, SameFields
  <2>3. q.kind \in {"disable", "offboard", "revoke"}
    BY <1>1 DEF StagesOf
  <2>4. PICK s \in StagesOf(q.kind) : s = AfterSessions(FinishedOnce(q))
    BY <2>2, <2>3 DEF AfterSessions, StagesOf, SameFields
  <2>5. Proceed(q).stage = s
    BY <2>1, <2>2, <2>4 DEF Request
  <2>6. Follows(q, s)
    BY <1>1, <2>3, <2>4 DEF Follows, PastDisable, Looping
  <2>7. QED
    BY <2>1, <2>2, <2>5, <2>6 DEF Request, SameFields
<1>2. CASE q.stage = "disable" /\ q.kind = "offboard"
  <2>1. Proceed(q) = [q EXCEPT !.stage = IF HasSynapse /\ Bound # {} THEN "expand" ELSE "find",
                     !.todo = IF HasSynapse THEN Bound ELSE {},
                     !.warn = @ \/ (~HasSynapse /\ Bound # {})]
    BY <1>2 DEF Proceed
  <2>2. /\ Proceed(q).stage = IF HasSynapse /\ Bound # {} THEN "expand" ELSE "find"
        /\ Proceed(q).warn = (q.warn \/ (~HasSynapse /\ Bound # {}))
        /\ SameFields(q, Proceed(q)) /\ Proceed(q).found = q.found /\ Proceed(q).out = q.out
    BY <2>1 DEF Request, SameFields
  <2>3. Proceed(q).stage \in {"expand", "find"}
    BY <2>2
  <2>4. Follows(q, Proceed(q).stage)
    BY <1>2, <2>3 DEF Follows, StagesOf, PastDisable, Looping
  <2>5. QED
    BY <2>2, <2>4
<1>3. CASE q.stage \notin {"finish"} /\ ~(q.stage = "disable" /\ q.kind = "offboard")
  <2>1. PICK s : /\ Proceed(q) = [q EXCEPT !.stage = s]
                 /\ s = CASE q.stage = "kick" -> AfterRoom(q)
                          [] q.stage = "enable" -> "find"
                          [] q.stage = "logout" /\ q.kind = "offboard" -> "disable"
                          [] q.stage = "deactivate" /\ q.kind = "delete" -> "remove"
                          [] q.stage = "reactivate" /\ q.kind = "invite" -> "email"
                          [] OTHER -> "end"
    BY <1>3 DEF Proceed
  <2>2. /\ Proceed(q).stage = s /\ SameFields(q, Proceed(q)) /\ Proceed(q).found = q.found
        /\ Proceed(q).out = q.out /\ Proceed(q).warn = q.warn
    BY <2>1 DEF Request, SameFields
  <2>3. AfterRoom(q) \in {"visit", "expand", "find"}
    BY DEF AfterRoom
  <2>4. Follows(q, s)
    BY <1>3, <2>1, <2>3 DEF Follows, StagesOf, Answerable, PastDisable, Looping
  <2>5. QED
    BY <2>2, <2>4
<1>4. QED
  BY <1>1, <1>2, <1>3

\* What an audit insert, which may fail, makes of its request.
LEMMA AuditIs ==
    ASSUME NEW r \in Req, OwnStep(r), Audit(r)
    PROVE  /\ req[r].res # "none" /\ req[r].out = "none"
           /\ UNCHANGED <<upstream, history>>
           /\ req'[r].kind = req[r].kind /\ req'[r].id = req[r].id
           /\ req'[r].given = req[r].given /\ req'[r].found = req[r].found
           /\ \E logged \in BOOLEAN :
                /\ audit' = IF logged THEN audit \cup {Entry(r, req[r])} ELSE audit
                /\ req'[r].lost <=> req[r].lost \/ ~logged
                /\ \/ /\ Follows(req[r], req'[r].stage) /\ req'[r].res = "none"
                      /\ ~(logged /\ req[r].res = "ok") => WarnOnly(req[r]) /\ req'[r].warn
                      /\ req[r].warn => req'[r].warn
                      /\ req'[r].out = IF req'[r].stage # "end" THEN "none"
                                       ELSE IF req'[r].warn THEN "warned" ELSE "ok"
                   \/ /\ req'[r].stage = req[r].stage /\ req'[r].res = req[r].res
                      /\ req'[r].obj = req[r].obj /\ req'[r].out \in {"err", "partial"}
                      /\ req'[r].out = "partial" => req[r].stage = "remove"
<1>1. PICK logged \in BOOLEAN :
         /\ audit' = IF logged THEN audit \cup {Entry(r, req[r])} ELSE audit
         /\ LET ok == logged /\ req[r].res = "ok"
                p  == [req[r] EXCEPT !.lost = @ \/ ~logged]
            IN  \/ /\ ok \/ WarnOnly(req[r])
                   /\ Become(r, Settle([Proceed(p) EXCEPT !.res = "none", !.warn = @ \/ ~ok]))
                \/ Become(r, [p EXCEPT !.out = IF logged /\ PartlyDone(req[r]) THEN "partial"
                                                                              ELSE "err"])
  BY DEF Audit
<1> DEFINE ok == logged /\ req[r].res = "ok"
           q == [req[r] EXCEPT !.lost = @ \/ ~logged]
           z == [Proceed(q) EXCEPT !.res = "none", !.warn = @ \/ ~ok]
<1>2. req[r] \in Request /\ req'[r] \in Request
  BY DEF OwnStep, TypeOK
<1>3. req[r].res # "none" /\ req[r].out = "none" /\ UNCHANGED <<upstream, history>>
  BY DEF Audit
<1>4. /\ q \in Request
      /\ q.kind = req[r].kind /\ q.id = req[r].id /\ q.given = req[r].given
      /\ q.found = req[r].found /\ q.stage = req[r].stage /\ q.warn = req[r].warn
      /\ q.res = req[r].res /\ q.obj = req[r].obj
      /\ q.out = "none" /\ (q.lost <=> req[r].lost \/ ~logged)
  <2>1. (req[r].lost \/ ~logged) \in BOOLEAN
    OBVIOUS
  <2>2. \A v \in BOOLEAN : [req[r] EXCEPT !.lost = v] \in Request
    BY <1>2 DEF Request
  <2>3. q \in Request
    BY <2>1, <2>2
  <2>4. QED
    BY <1>2, <1>3, <2>3 DEF Request
<1>5. q.stage \in StagesOf(q.kind) \cap Answerable
  BY <1>3, <1>4 DEF OwnStep, Fine, Routed
<1>6. CASE (ok \/ WarnOnly(req[r])) /\ req'[r] = Settle(z)
  <2>1. /\ SameFields(q, Proceed(q)) /\ Proceed(q).found = q.found
        /\ Proceed(q).out = q.out /\ (q.warn => Proceed(q).warn)
        /\ Follows(q, Proceed(q).stage) /\ Proceed(q) \in Request
    <3> HIDE DEF q
    <3> QED
      BY <1>4, <1>5, ProceedIs, ProceedType
  <2>2. Follows(req[r], Proceed(q).stage)
    BY <1>4, <2>1 DEF Follows
  <2>3. z \in Request
    <3>1. (Proceed(q).warn \/ ~ok) \in BOOLEAN
      OBVIOUS
    <3>2. \A v \in BOOLEAN : [Proceed(q) EXCEPT !.res = "none", !.warn = v] \in Request
      <4> HIDE DEF q
      <4> QED
        BY <2>1 DEF Request
    <3>3. QED
      BY <3>1, <3>2
  <2>4. /\ SameFields(q, z) /\ z.found = q.found /\ z.out = q.out /\ z.stage = Proceed(q).stage
        /\ z.res = "none" /\ (z.warn <=> Proceed(q).warn \/ ~ok)
    <3> HIDE DEF q, ok
    <3> QED
      BY <2>1 DEF Request, SameFields
  <2>5. /\ SameFields(q, Settle(z)) /\ Settle(z).found = q.found /\ Settle(z).res = "none"
        /\ Settle(z).stage = z.stage /\ Settle(z).warn = z.warn
        /\ Settle(z).out = IF z.stage # "end" THEN "none"
                           ELSE IF z.warn THEN "warned" ELSE "ok"
    <3>1. SameFields(q, z) /\ z.found = q.found /\ z.out = "none" /\ z.res = "none"
      BY <1>4, <2>4
    <3> HIDE DEF q, z
    <3> QED
      BY <2>3, <3>1 DEF Settle, Request, SameFields
  <2>6. ~(logged /\ req[r].res = "ok") => WarnOnly(req[r]) /\ z.warn
    BY <1>6, <2>4
  <2>7. req[r].warn => z.warn
    BY <1>4, <2>1, <2>4
  <2> HIDE DEF q, z, ok
  <2>8. QED
    BY <1>1, <1>3, <1>4, <1>6, <2>2, <2>4, <2>5, <2>6, <2>7 DEF SameFields
<1>7. CASE req'[r] = [q EXCEPT !.out = IF logged /\ PartlyDone(req[r]) THEN "partial" ELSE "err"]
  <2>1. PICK o \in {"err", "partial"} :
          o = (IF logged /\ PartlyDone(req[r]) THEN "partial" ELSE "err")
          /\ (o = "partial" => req[r].stage = "remove")
    BY DEF PartlyDone
  <2>2. req'[r] = [q EXCEPT !.out = o]
    BY <1>7, <2>1
  <2> HIDE DEF q
  <2>3. /\ SameFields(q, req'[r]) /\ req'[r].found = q.found /\ req'[r].stage = q.stage
        /\ req'[r].res = q.res /\ req'[r].obj = q.obj /\ req'[r].out = o
    BY <1>4, <2>2 DEF Request, SameFields
  <2>4. QED
    BY <1>1, <1>3, <1>4, <2>1, <2>3 DEF SameFields
<1>8. \/ req'[r] = Settle(z) /\ (ok \/ WarnOnly(req[r]))
      \/ req'[r] = [q EXCEPT !.out = IF logged /\ PartlyDone(req[r]) THEN "partial" ELSE "err"]
  BY <1>1, BecomeReq DEF OwnStep
<1>9. QED
  BY <1>6, <1>7, <1>8

LEMMA AuditAdvances ==
    ASSUME NEW r \in Req, OwnStep(r), Audit(r)
    PROVE  Advances(r)
<1> DEFINE q == req[r]
           p == req'[r]
<1>1. /\ q.res # "none" /\ q.out = "none" /\ q.stage \in StagesOf(q.kind) \cap Answerable
      /\ q \in Request
      /\ p.kind = q.kind /\ p.id = q.id /\ p.given = q.given /\ p.found = q.found
  BY AuditIs DEF OwnStep, Fine, Routed, TypeOK
<1>2. kc' = kc /\ mas' = mas /\ grants' = grants
  BY AuditIs DEF upstream
<1>3. CASE /\ Follows(q, p.stage) /\ p.res = "none"
           /\ q.res # "ok" => WarnOnly(q) /\ p.warn
           /\ q.warn => p.warn
           /\ p.out = IF p.stage # "end" THEN "none" ELSE IF p.warn THEN "warned" ELSE "ok"
  <2>1. q.kind = "reactivate" => q.stage \in {"enable", "reactivate"}
    BY <1>1 DEF StagesOf, Answerable
  <2>2. q.kind = "delete" => q.stage \in {"deactivate", "remove"}
    BY <1>1 DEF StagesOf, Answerable
  <2>3. q.kind = "invite" => q.stage \in {"reactivate", "email"}
    BY <1>1 DEF StagesOf, Answerable
  <2>4. q.res = "ok" \/ q.kind \in {"disable", "offboard"}
        \/ (q.kind = "reactivate" /\ q.stage = "reactivate" /\ p.warn)
    BY <1>3 DEF WarnOnly
  <2>5. Onward(q, p)
    BY <1>1, <1>3, <2>3 DEF Onward, Follows, Created
  <2>6. Routed(p)
    <3>1. q.kind = "invite" => q.id \in Ids
      BY <2>3 DEF OwnStep, Fine, Routed, Created
    <3>2. QED
      BY <1>1, <1>3, <3>1 DEF Routed, Follows, OwnStep, Fine
  <2>7. ASSUME r \notin lowered
        PROVE  Opened(p, kc, mas, grants)
    <3>1. Opened(q, kc, mas, grants)
      BY <2>7 DEF OwnStep, Fine
    <3>2. CASE q.kind = "reactivate"
      BY <1>1, <1>3, <2>1, <2>4, <3>1, <3>2 DEF Opened, Follows
    <3>3. CASE q.kind = "invite"
      BY <1>1, <1>3, <2>3, <2>4, <3>1, <3>3 DEF Opened, Follows, Created
    <3>4. QED
      BY <1>1, <1>3, <3>2, <3>3 DEF Opened
  <2>8. ASSUME r \notin raised
        PROVE  Shut(p, mas)
    <3>1. Shut(q, mas)
      BY <2>8 DEF OwnStep, Fine
    <3>2. QED
      BY <1>1, <1>3, <2>2, <2>4, <3>1 DEF Shut, Follows
  <2>9. QED
    BY <1>2, <2>5, <2>6, <2>7, <2>8 DEF Advances
<1>4. CASE /\ p.stage = q.stage /\ p.res = q.res /\ p.obj = q.obj /\ p.out \in {"err", "partial"}
           /\ p.out = "partial" => q.stage = "remove"
  <2>1. Onward(q, p)
    BY <1>1, <1>4 DEF Onward
  <2>2. Routed(p)
    BY <1>1, <1>4 DEF Routed, OwnStep, Fine
  <2>3. r \notin lowered => Opened(p, kc, mas, grants)
    <3>1. CASE q.kind \in {"reactivate", "invite"}
      <4>1. q.stage # "end"
        BY <1>1 DEF Answerable
      <4>2. QED
        BY <1>1, <1>4, <4>1 DEF Opened, OwnStep, Fine
    <3>2. QED
      BY <1>1, <1>4, <3>1 DEF Opened, OwnStep, Fine
  <2>4. r \notin raised => Shut(p, mas)
    BY <1>1, <1>4 DEF Shut, OwnStep, Fine
  <2>5. QED
    BY <1>2, <2>1, <2>2, <2>3, <2>4 DEF Advances
<1>5. QED
  BY <1>3, <1>4, AuditIs

LEMMA StepAdvances ==
    ASSUME NEW r \in Req, OwnStep(r), Cut(r) \/ Step(r)
    PROVE  Advances(r)
<1>1. CASE Cut(r)
  BY <1>1, AbortAdvances DEF Cut, upstream
<1>2. CASE Read(r)
  BY <1>2, GetUserAdvances, GetUserByEmailAdvances, FindSessionsAdvances,
     ListSessionsAdvances, FindAdvances, GetSpaceChildrenAdvances,
     GetJoinedRoomMembersAdvances DEF Read
<1>3. CASE Mutate(r)
  BY <1>3, FinishSessionAdvances, LogoutUserAdvances, DisableUserAdvances,
     EnableUserAdvances, DeleteUserAdvances, DeactivateUserAdvances,
     ReactivateUserAdvances, KickUserAdvances, CreateUserAdvances, AddGrantAdvances,
     SendInviteEmailAdvances DEF Mutate
<1>4. QED
  BY <1>1, <1>2, <1>3, AuditAdvances DEF Step

LEMMA StartIs ==
    ASSUME NEW r \in Req, TypeOK, Start(r)
    PROVE  LET p == req'[r]
           IN  /\ req[r].kind = "none" /\ p.kind # "none"
               /\ p.res = "none" /\ p.out \in {"none", "err"} /\ p.given = {}
               /\ p.found = "unknown" /\ p.lost = FALSE
               /\ p.stage \in StagesOf(p.kind) \cap {"get_user", "logout", "finish", "check"}
               /\ p.kind \in {"disable", "offboard", "reactivate", "delete", "logout"} =>
                     p.id \in Ids
<1>1. req[r].kind = "none"
  BY DEF Start
<1>2. CASE SubmitDisable(r) \/ SubmitReactivate(r) \/ SubmitDelete(r)
  <2>1. PICK k \in {"disable", "reactivate", "delete"}, i \in Ids : Become(r, Of(k, i, "get_user"))
    BY <1>2 DEF SubmitDisable, SubmitReactivate, SubmitDelete, Seen
  <2>2. req'[r] = Of(k, i, "get_user")
    BY <2>1, BecomeReq
  <2>3. QED
    BY <1>1, <2>2 DEF Of, Idle, StagesOf
<1>3. CASE SubmitOffboard(r)
  <2>1. PICK i \in Ids, o \in {"none", "err"} :
           \/ o = "none" /\ Become(r, Of("offboard", i, "get_user"))
           \/ o = "err" /\ Become(r, [Of("offboard", i, "get_user") EXCEPT !.out = "err"])
    BY <1>3 DEF SubmitOffboard, Seen
  <2>2. \/ req'[r] = Of("offboard", i, "get_user")
        \/ req'[r] = [Of("offboard", i, "get_user") EXCEPT !.out = "err"]
    BY <2>1, BecomeReq
  <2>3. QED
    BY ZenonT(60), <1>1, <2>2 DEF Of, Idle, StagesOf
<1>4. CASE SubmitLogout(r)
  <2>1. PICK i \in Ids : Become(r, Of("logout", i, "logout"))
    BY <1>4 DEF SubmitLogout, Seen
  <2>2. req'[r] = Of("logout", i, "logout")
    BY <2>1, BecomeReq
  <2>3. QED
    BY <1>1, <2>2 DEF Of, Idle, StagesOf
<1>5. CASE SubmitRevoke(r)
  <2>1. PICK s : Become(r, [Of("revoke", None, "finish") EXCEPT !.todo = {s}])
    BY <1>5 DEF SubmitRevoke
  <2>2. req'[r] = [Of("revoke", None, "finish") EXCEPT !.todo = {s}]
    BY <2>1, BecomeReq
  <2>3. QED
    BY <1>1, <2>2 DEF Of, Idle, StagesOf
<1>6. CASE SubmitInvite(r)
  <2>1. \/ req'[r] = Of("invite", None, "check")
        \/ req'[r] = [Of("invite", None, "check") EXCEPT !.out = "err"]
    BY <1>6, BecomeReq DEF SubmitInvite
  <2>2. QED
    BY ZenonT(60), <1>1, <2>1 DEF Of, Idle, StagesOf
<1>7. QED
  BY <1>2, <1>3, <1>4, <1>5, <1>6 DEF Start

LEMMA StartFine ==
    ASSUME NEW r \in Req, TypeOK, Start(r)
    PROVE  Fine(r)'
<1> DEFINE p == req'[r]
<1>1. /\ p.kind # "none"
      /\ p.res = "none" /\ p.out \in {"none", "err"} /\ p.given = {}
      /\ p.found = "unknown"
      /\ p.stage \in StagesOf(p.kind) \cap {"get_user", "logout", "finish", "check"}
      /\ p.kind \in {"disable", "offboard", "reactivate", "delete", "logout"} => p.id \in Ids
  BY StartIs
<1>2. Routed(p)
  BY <1>1 DEF Routed, Created
<1>3. Opened(p, kc', mas', grants') /\ Shut(p, mas')
  BY <1>1 DEF Opened, Shut, Created, Known
<1>4. QED
  BY <1>2, <1>3 DEF Fine

-----------------------------------------------------------------------------
(***************************************************************************)
(* The steps of the others, and of the person.                             *)
(***************************************************************************)

\* A step that takes no access, and one that gives none back.
Easing ==
    /\ \A i \in Ids : kc[i] = "enabled" => kc'[i] = "enabled"
    /\ mas' = "deactivated" => mas = "deactivated"
    /\ grants \subseteq grants'
Tight == mas = "deactivated" => mas' = "deactivated"

LEMMA EasingOpened ==
    ASSUME NEW q, Routed(q), Opened(q, kc, mas, grants), Easing
    PROVE  Opened(q, kc', mas', grants')
<1>1. q.stage = "enable" => q.kind = "reactivate"
  BY DEF Routed, StagesOf, PastDisable, Looping
<1>2. q.kind = "reactivate" => q.id \in Ids
  BY DEF Routed
<1>3. q.kind = "invite" /\ q.stage \in Created => q.id \in Ids
  BY DEF Routed
<1>4. QED
  BY <1>1, <1>2, <1>3 DEF Opened, Easing

LEMMA TightShut ==
    ASSUME NEW q, Shut(q, mas), Tight
    PROVE  Shut(q, mas')
  BY DEF Shut, Tight

LEMMA IdleFine ==
    ASSUME NEW q, Routed(q), q.kind = "none"
    PROVE  \A K, m, G : Opened(q, K, m, G) /\ Shut(q, m)
  BY DEF Routed, StagesOf, Opened, Shut

\* Every step of another request p either counts as giving or taking access, or
\* leaves the users and the account as they are.
LEMMA OthersShift ==
    ASSUME TypeOK, NEW p \in Req, Start(p) \/ Cut(p) \/ Step(p)
    PROVE  /\ raised' \in {raised, raised \cup Others(p)}
           /\ lowered' \in {lowered, lowered \cup Others(p)}
           /\ \/ /\ kc' = kc /\ mas' = mas /\ grants \subseteq grants'
              \/ /\ lowered' = lowered \cup Others(p)
                 /\ \A i \in Ids : kc'[i] = "enabled" => kc[i] = "enabled"
                 /\ mas' \in {mas, "deactivated"}
              \/ /\ raised' = raised \cup Others(p)
                 /\ \A i \in Ids : kc[i] = "enabled" => kc'[i] = "enabled"
                 /\ mas' \in {mas, "active"} /\ grants' = grants
<1>1. CASE FinishSession(p) \/ LogoutUser(p) \/ KickUser(p) \/ AddGrant(p) \/ SendInviteEmail(p)
  BY <1>1 DEF FinishSession, LogoutUser, KickUser, AddGrant, SendInviteEmail, NoShift, upstream
<1>2. CASE Start(p) \/ Cut(p) \/ Read(p) \/ Audit(p)
  BY <1>2 DEF Start, Cut, Read, Audit, upstream, history, GetUser, FindSessions,
     ListSessions, Find, GetSpaceChildren, GetJoinedRoomMembers, GetUserByEmail
<1>3. CASE DisableUser(p) \/ DeleteUser(p)
  <2>1. CASE kc' = kc /\ grants' = grants
    BY <1>3, <2>1 DEF DisableUser, DeleteUser, Lower, NoShift
  <2>2. CASE \E v \in {"disabled", "gone"} : kc' = [kc EXCEPT ![req[p].id] = v]
    <3>1. \A i \in Ids : kc'[i] = "enabled" => kc[i] = "enabled"
      BY <2>2 DEF TypeOK
    <3>2. QED
      BY <1>3, <3>1 DEF DisableUser, DeleteUser, Lower, NoShift
  <2>3. QED
    BY <1>3, <2>1, <2>2 DEF DisableUser, DeleteUser
<1>4. CASE EnableUser(p) \/ CreateUser(p)
  <2>1. CASE kc' = kc
    BY <1>4, <2>1 DEF EnableUser, CreateUser, Raise, NoShift
  <2>2. CASE \E i : kc' = [kc EXCEPT ![i] = "enabled"]
    <3>1. \A i \in Ids : kc[i] = "enabled" => kc'[i] = "enabled"
      BY <2>2 DEF TypeOK
    <3>2. QED
      BY <1>4, <3>1 DEF EnableUser, CreateUser, Raise, NoShift
  <2>3. QED
    BY <1>4, <2>1, <2>2 DEF EnableUser, CreateUser
<1>5. CASE DeactivateUser(p)
  BY <1>5 DEF DeactivateUser, Lower, NoShift
<1>6. CASE ReactivateUser(p)
  BY <1>6 DEF ReactivateUser, Raise, NoShift
<1>7. QED
  BY <1>1, <1>2, <1>3, <1>4, <1>5, <1>6 DEF Step, Mutate

LEMMA PersonEases ==
    ASSUME Person
    PROVE  /\ req' = req /\ raised' = raised /\ lowered' = lowered /\ audit' = audit
           /\ tried' = tried /\ kc' = kc /\ grants' = grants /\ Easing /\ Tight
  BY DEF Person, Login, Join, history, Easing, Tight

LEMMA FineStep ==
    ASSUME TypeOK, TypeOK', AllFine, [Next]_vars
    PROVE  AllFine'
<1> SUFFICES ASSUME NEW r \in Req PROVE Fine(r)'
  BY DEF AllFine
<1>1. Fine(r)
  BY DEF AllFine
<1>2. CASE UNCHANGED vars
  BY <1>1, <1>2 DEF vars, upstream, history, Fine
<1>3. CASE Person
  BY <1>1, <1>3, PersonEases, EasingOpened, TightShut DEF Fine
<1>4. ASSUME NEW p \in Req, Start(p) \/ Cut(p) \/ Step(p), p # r
      PROVE  Fine(r)'
  <2>1. req'[r] = req[r]
    BY <1>4, MovesOwn, BecomeReq
  <2>2. CASE req[r].kind = "none"
    BY <1>1, <2>1, <2>2, IdleFine DEF Fine
  <2>3. CASE req[r].kind # "none"
    <3>1. r \in Others(p)
      BY <1>4, <2>3 DEF Others
    <3>2. r \notin lowered' => r \notin lowered /\ Easing
      BY <1>4, <3>1, OthersShift DEF Easing
    <3>3. r \notin raised' => r \notin raised /\ Tight
      BY <1>4, <3>1, OthersShift DEF Tight
    <3>4. QED
      BY <1>1, <2>1, <3>2, <3>3, EasingOpened, TightShut DEF Fine
  <2>4. QED
    BY <2>2, <2>3
<1>5. ASSUME Cut(r) \/ Step(r)
      PROVE  Fine(r)'
  <2>1. Advances(r)
    BY <1>1, <1>5, StepAdvances DEF OwnStep
  <2>2. (r \notin raised' => r \notin raised) /\ (r \notin lowered' => r \notin lowered)
    BY <1>5, OthersShift
  <2>3. QED
    BY <2>1, <2>2 DEF Advances, Fine
<1>6. QED
  BY <1>2, <1>3, <1>4, <1>5, StartFine DEF Next, Program

LEMMA FineInit == Init => AllFine
<1> SUFFICES ASSUME Init, NEW r \in Req PROVE Fine(r)
  BY DEF AllFine
<1>1. /\ req[r].kind = "none" /\ req[r].stage = "idle" /\ req[r].res = "none"
      /\ req[r].out = "none"
  BY DEF Init, Idle
<1>2. Routed(req[r])
  BY <1>1 DEF Routed, StagesOf
<1>3. QED
  BY <1>1, <1>2, IdleFine DEF Fine

-----------------------------------------------------------------------------
(***************************************************************************)
(* The three results.                                                      *)
(***************************************************************************)
WorthInv == TypeOK /\ LockedOut /\ AllFine

LEMMA WorthInvStep == WorthInv /\ [Next]_vars => WorthInv'
  BY NextType, LockedOutStep, FineStep DEF WorthInv

LEMMA WorthInvInit == Init => WorthInv
  BY InitType, FineInit DEF WorthInv, Init, LockedOut

LEMMA ReactivateSafe == WorthInv => CleanReactivate
<1> SUFFICES ASSUME WorthInv, NEW r \in Req \ lowered,
                    req[r].kind = "reactivate", req[r].out = "ok"
             PROVE  kc[req[r].id] = "enabled" /\ mas # "deactivated"
  BY DEF CleanReactivate
<1>1. Routed(req[r]) /\ Opened(req[r], kc, mas, grants)
  BY DEF WorthInv, AllFine, Fine
<1>2. QED
  BY <1>1 DEF Routed, Opened

LEMMA InviteSafe == WorthInv => ReinviteUsable
<1> SUFFICES ASSUME WorthInv, NEW r \in Req \ lowered,
                    req[r].kind = "invite", req[r].out = "ok", req[r].found # "unknown"
             PROVE  kc[req[r].id] = "enabled" /\ mas # "deactivated"
  BY DEF ReinviteUsable
<1>1. Routed(req[r]) /\ Opened(req[r], kc, mas, grants)
  BY DEF WorthInv, AllFine, Fine
<1>2. req[r].found \in {"none", "active", "deactivated"}
  BY DEF WorthInv, TypeOK, Request, Known
<1>3. QED
  BY <1>1, <1>2 DEF Routed, Opened, Created

LEMMA DeleteSafe == WorthInv => DeleteClosesAuth
<1> SUFFICES ASSUME WorthInv, NEW r \in Req \ raised,
                    req[r].kind = "delete", req[r].found \in Known,
                    req[r].out \in {"ok", "warned", "partial"}
             PROVE  mas # "active" /\ ActiveSessions = {}
  BY DEF DeleteClosesAuth
<1>1. Routed(req[r]) /\ Shut(req[r], mas)
  BY DEF WorthInv, AllFine, Fine
<1>2. mas = "deactivated"
  BY <1>1 DEF Routed, Shut
<1>3. QED
  BY <1>2 DEF WorthInv, LockedOut

\* A reactivation that returns without a warning leaves an enabled Keycloak user
\* and no deactivated MAS account, unless another request took access since it
\* started, however many requests there are (reactivate_user).
THEOREM ReactivateIsClean == Spec => []CleanReactivate
  BY WorthInvInit, WorthInvStep, ReactivateSafe, PTL DEF Spec

\* An invite that learnt the state of the MAS account and succeeds leaves an
\* account the person can log in with: one that was deactivated has been
\* reactivated, and one that was not is untouched (invite_user).
THEOREM ReinviteIsUsable == Spec => []ReinviteUsable
  BY WorthInvInit, WorthInvStep, InviteSafe, PTL DEF Spec

\* A delete that knew of a MAS account and returns anything but an error, the
\* part success included, has left nothing that can log in, unless another
\* request gave access since it started (delete_user).
THEOREM DeleteIsClosed == Spec => []DeleteClosesAuth
  BY WorthInvInit, WorthInvStep, DeleteSafe, PTL DEF Spec

-----------------------------------------------------------------------------
(***************************************************************************)
(* The audit trail.                                                        *)
(***************************************************************************)
EntriesFit == \A e \in audit : EntryFits(e, req[e.by])
CallsFit == \A t \in tried : CallFits(t, req[t.by])
TrailInv == WorthInv /\ EntriesFit /\ CallsFit

\* The one entry, and the one call, that a step of r may add.
LEMMA AuditOnly ==
    ASSUME NEW r \in Req, Start(r) \/ Cut(r) \/ Step(r)
    PROVE  /\ audit \subseteq audit'
           /\ audit' \subseteq audit \cup {Entry(r, req[r])}
           /\ audit' = audit \/ Audit(r)
<1>1. CASE Start(r) \/ Cut(r) \/ Read(r)
  BY <1>1 DEF Start, Cut, Read, GetUser, FindSessions, ListSessions, Find, GetSpaceChildren,
     GetJoinedRoomMembers, GetUserByEmail
<1>2. CASE Mutate(r)
  BY <1>2 DEF Mutate, FinishSession, LogoutUser, DisableUser, EnableUser, DeleteUser,
     DeactivateUser, ReactivateUser, KickUser, CreateUser, AddGrant, SendInviteEmail, Answered
<1>3. CASE Audit(r)
  BY <1>3 DEF Audit
<1>4. QED
  BY <1>1, <1>2, <1>3 DEF Step

LEMMA TriedOnly ==
    ASSUME NEW r \in Req, Start(r) \/ Cut(r) \/ Step(r)
    PROVE  \/ tried' = tried
           \/ Mutate(r) /\ \E o : tried' = tried \cup {[by |-> r, step |-> req[r].stage, obj |-> o]}
<1>1. CASE Start(r) \/ Cut(r) \/ Read(r) \/ Audit(r)
  BY <1>1 DEF Start, Cut, Read, Audit, history, GetUser, FindSessions, ListSessions, Find,
     GetSpaceChildren, GetJoinedRoomMembers, GetUserByEmail
<1>2. CASE Mutate(r)
  BY <1>2 DEF Mutate, FinishSession, LogoutUser, DisableUser, EnableUser, DeleteUser,
     DeactivateUser, ReactivateUser, KickUser, CreateUser, AddGrant, SendInviteEmail,
     Answered, Tries
<1>3. QED
  BY <1>1, <1>2 DEF Step

\* Every mutating call but the two an invite does not audit leaves its answer.
LEMMA MutateIs ==
    ASSUME NEW r \in Req, TypeOK, Mutate(r)
    PROVE  \/ CreateUser(r) \/ AddGrant(r)
           \/ \E a, o : Answered(r, a, o)
  BY DEF Mutate, FinishSession, LogoutUser, DisableUser, EnableUser, DeleteUser,
     DeactivateUser, ReactivateUser, KickUser, SendInviteEmail

LEMMA CreatingIs ==
    ASSUME NEW r \in Req, OwnStep(r), CreateUser(r) \/ AddGrant(r)
    PROVE  /\ req'[r].out = "err" \/ (req'[r].out = "none" /\ req'[r].stage \in Created)
           /\ req'[r].lost = req[r].lost /\ req'[r].res = "none"
           /\ req[r].kind = "invite" /\ req'[r].kind = "invite"
           /\ req[r].stage \in {"create", "grant"}
<1>1. /\ req[r].stage \in {"create", "grant"} /\ req[r].out = "none" /\ req[r].res = "none"
      /\ req[r] \in Request /\ req[r].stage \in StagesOf(req[r].kind)
  BY AtIs DEF CreateUser, AddGrant
<1>2. req[r].kind = "invite"
  BY <1>1 DEF StagesOf, PastDisable, Looping
<1>3. PICK i, t, g, s :
        /\ \/ Become(r, [req[r] EXCEPT !.out = "err"])
           \/ Become(r, [[req[r] EXCEPT !.id = i, !.todo = t] EXCEPT !.stage = s])
           \/ Become(r, [[req[r] EXCEPT !.todo = t, !.given = g] EXCEPT !.stage = s])
        /\ s \in Created
  BY ZenonT(60), AfterGrantsIs DEF CreateUser, AddGrant, Created, AfterGrants
<1>4. \/ req'[r] = [req[r] EXCEPT !.out = "err"]
      \/ req'[r] = [[req[r] EXCEPT !.id = i, !.todo = t] EXCEPT !.stage = s]
      \/ req'[r] = [[req[r] EXCEPT !.todo = t, !.given = g] EXCEPT !.stage = s]
  BY <1>3, BecomeReq DEF OwnStep
<1>5. CASE req'[r] = [req[r] EXCEPT !.out = "err"]
  BY <1>1, <1>2, <1>5 DEF Request
<1>6. CASE req'[r] = [[req[r] EXCEPT !.id = i, !.todo = t] EXCEPT !.stage = s]
  BY <1>1, <1>2, <1>3, <1>6 DEF Request
<1>7. CASE req'[r] = [[req[r] EXCEPT !.todo = t, !.given = g] EXCEPT !.stage = s]
  BY <1>1, <1>2, <1>3, <1>7 DEF Request
<1>8. QED
  BY <1>4, <1>5, <1>6, <1>7

\* A read forgets no lost entry, leaves no answer and keeps the user's id.
LEMMA ReadLost ==
    ASSUME NEW r \in Req, TypeOK, Cut(r) \/ Read(r)
    PROVE  /\ req'[r].lost = req[r].lost /\ req'[r].res \in {"none", req[r].res}
           /\ req'[r].id = req[r].id
<1>1. req[r] \in Request
  BY DEF TypeOK
<1>2. ASSUME NEW s, NEW w, GoTo(r, s, w)
      PROVE  /\ req'[r].lost = req[r].lost /\ req'[r].res \in {"none", req[r].res}
             /\ req'[r].id = req[r].id
  <2>1. req'[r] = Settle([req[r] EXCEPT !.stage = s, !.res = "none", !.warn = @ \/ w])
    BY <1>2, BecomeReq DEF GoTo
  <2>2. QED
    BY <1>1, <2>1 DEF Settle, Request
<1>3. ASSUME NEW o, Abort(r, o)
      PROVE  /\ req'[r].lost = req[r].lost /\ req'[r].res \in {"none", req[r].res}
             /\ req'[r].id = req[r].id
  <2>1. req'[r] = [req[r] EXCEPT !.out = o]
    BY <1>3, BecomeReq DEF Abort
  <2>2. QED
    BY <1>1, <2>1 DEF Request
<1>4. CASE Cut(r) \/ GetUser(r) \/ FindSessions(r) \/ GetUserByEmail(r)
  <2>1. (\E s, w : GoTo(r, s, w)) \/ (\E o : Abort(r, o))
    BY <1>4 DEF Cut, GetUser, FindSessions, GetUserByEmail
  <2>2. QED
    BY <1>2, <1>3, <2>1
<1>5. CASE ListSessions(r)
  <2>1. PICK t, w : LET p == [req[r] EXCEPT !.todo = t, !.warn = w]
                    IN  Become(r, [p EXCEPT !.stage = AfterSessions(p)])
    BY <1>5 DEF ListSessions
  <2>2. \E s : req'[r] = [[req[r] EXCEPT !.todo = t, !.warn = w] EXCEPT !.stage = s]
    BY <2>1, BecomeReq
  <2>3. QED
    BY <1>1, <2>2 DEF Request
<1>6. CASE Find(r)
  <2>1. PICK f, s, w : Become(r, Settle([req[r] EXCEPT !.found = f, !.stage = s, !.warn = w]))
    BY <1>6 DEF Find
  <2>2. req'[r] = Settle([req[r] EXCEPT !.found = f, !.stage = s, !.warn = w])
    BY <2>1, BecomeReq
  <2>3. QED
    BY <1>1, <2>2 DEF Settle, Request
<1>7. CASE GetSpaceChildren(r)
  <2>1. PICK b, n, t, w :
          Become(r, [req[r] EXCEPT !.stage = "visit", !.root = b, !.near = n, !.todo = t, !.warn = w])
    BY <1>7 DEF GetSpaceChildren
  <2>2. req'[r] = [req[r] EXCEPT !.stage = "visit", !.root = b, !.near = n, !.todo = t, !.warn = w]
    BY <2>1, BecomeReq
  <2>3. QED
    BY <1>1, <2>2 DEF Request
<1>8. CASE GetJoinedRoomMembers(r)
  <2>1. PICK n, t, s :
          LET p == [req[r] EXCEPT !.near = n, !.obj = t]
          IN  \/ Become(r, [p EXCEPT !.stage = s])
              \/ Become(r, [p EXCEPT !.stage = s, !.warn = TRUE])
    BY <1>8 DEF GetJoinedRoomMembers
  <2>2. \/ req'[r] = [[req[r] EXCEPT !.near = n, !.obj = t] EXCEPT !.stage = s]
        \/ req'[r] = [[req[r] EXCEPT !.near = n, !.obj = t] EXCEPT !.stage = s, !.warn = TRUE]
    BY <2>1, BecomeReq
  <2>3. QED
    BY <1>1, <2>2 DEF Request
<1>9. QED
  BY <1>4, <1>5, <1>6, <1>7, <1>8 DEF Read

\* A request keeps its kind, and nothing it has behind it comes back.
LEMMA StepOnward ==
    ASSUME NEW r \in Req, OwnStep(r), Cut(r) \/ Step(r)
    PROVE  Onward(req[r], req'[r])
  BY StepAdvances DEF Advances

LEMMA FitsOnward ==
    ASSUME NEW q, NEW p, Onward(q, p)
    PROVE  /\ \A e : EntryFits(e, q) => EntryFits(e, p)
           /\ \A t : CallFits(t, q) => CallFits(t, p)
<1>1. \A k : "kick" \in StagesOf(k) => k = "offboard"
  BY DEF StagesOf
<1>2. QED
  BY <1>1 DEF Onward, EntryFits, CallFits

LEMMA EntryFitsIs ==
    ASSUME NEW r \in Req, Fine(r), req[r].res # "none"
    PROVE  EntryFits(Entry(r, req[r]), req[r])
<1>1. /\ Entry(r, req[r]).step = req[r].stage /\ Entry(r, req[r]).obj = req[r].obj
  BY DEF Entry
<1>2. QED
  BY <1>1 DEF Fine, Routed, EntryFits, PastDisable, Looping

LEMMA FitStep ==
    ASSUME TrailInv, TypeOK', [Next]_vars
    PROVE  EntriesFit' /\ CallsFit'
<1>1. CASE UNCHANGED vars
  BY <1>1 DEF vars, history, TrailInv, EntriesFit, CallsFit
<1>2. CASE Person
  BY <1>2, PersonEases DEF TrailInv, EntriesFit, CallsFit
<1>3. ASSUME NEW r \in Req, Start(r) \/ Cut(r) \/ Step(r)
      PROVE  EntriesFit' /\ CallsFit'
  <2>1. TypeOK /\ Fine(r) /\ EntriesFit /\ CallsFit
    BY DEF TrailInv, WorthInv, AllFine
  <2>2. \A p \in Req \ {r} : req'[p] = req[p]
    BY <1>3, <2>1, MovesOwn, BecomeReq
  <2>3. /\ audit \subseteq AuditEntry /\ audit' \subseteq AuditEntry
        /\ tried \subseteq Call /\ tried' \subseteq Call
    BY <2>1 DEF TypeOK
  <2>4. CASE Start(r)
    <3>1. req[r].kind = "none"
      BY <2>4 DEF Start
    <3>2. audit' = audit /\ tried' = tried
      BY <2>4 DEF Start, history
    <3>3. \A e \in audit : e.by # r
      BY <2>1, <3>1 DEF EntriesFit, EntryFits, StagesOf, Answerable
    <3>4. \A t \in tried : t.by # r
      BY <2>1, <3>1 DEF CallsFit, CallFits
    <3>5. (\A e \in audit : e.by \in Req) /\ (\A t \in tried : t.by \in Req)
      BY <2>3 DEF AuditEntry, Call
    <3>6. QED
      BY <2>1, <2>2, <3>2, <3>3, <3>4, <3>5 DEF EntriesFit, CallsFit
  <2>5. CASE Cut(r) \/ Step(r)
    <3>1. Onward(req[r], req'[r])
      BY <2>1, <2>5, StepOnward DEF OwnStep
    <3>2. ASSUME NEW e \in audit'
          PROVE  EntryFits(e, req'[e.by])
      <4>1. e.by \in Req
        BY <2>3 DEF AuditEntry
      <4>2. CASE e \in audit
        BY <2>1, <2>2, <3>1, <4>1, <4>2, FitsOnward DEF EntriesFit
      <4>3. CASE e \notin audit
        <5>1. e = Entry(r, req[r]) /\ Audit(r)
          BY <1>3, <4>3, AuditOnly
        <5>2. EntryFits(e, req[r]) /\ e.by = r
          BY <2>1, <5>1, EntryFitsIs DEF Audit, Entry
        <5>3. QED
          BY <3>1, <5>2, FitsOnward
      <4>4. QED
        BY <4>2, <4>3
    <3>3. ASSUME NEW t \in tried'
          PROVE  CallFits(t, req'[t.by])
      <4>1. t.by \in Req
        BY <2>3 DEF Call
      <4>2. CASE t \in tried
        BY <2>1, <2>2, <3>1, <4>1, <4>2, FitsOnward DEF CallsFit
      <4>3. CASE t \notin tried
        <5>1. Mutate(r) /\ t.by = r /\ t.step = req[r].stage
          BY <1>3, <4>3, TriedOnly
        <5>2. CASE CreateUser(r) \/ AddGrant(r)
          BY <2>1, <5>1, <5>2, CreatingIs DEF CallFits, OwnStep
        <5>3. CASE \E a, o : Answered(r, a, o)
          <6>1. req'[r].res # "none" /\ req'[r].stage = req[r].stage /\ req'[r].kind = req[r].kind
            BY <2>1, <5>3, AnsweredIs DEF SameFields
          <6>2. req'[r].stage \in Answerable /\ req'[r].stage \in StagesOf(req'[r].kind)
            BY <2>1, <2>5, <6>1, StepAdvances DEF OwnStep, Advances, Routed
          <6>3. QED
            BY <5>1, <6>1, <6>2 DEF CallFits, Answerable, StagesOf
        <5>4. QED
          BY <2>1, <5>1, <5>2, <5>3, MutateIs
      <4>4. QED
        BY <4>2, <4>3
    <3>4. QED
      BY <3>2, <3>3 DEF EntriesFit, CallsFit
  <2>6. QED
    BY <1>3, <2>4, <2>5
<1>4. QED
  BY <1>1, <1>2, <1>3 DEF Next, Program

LEMMA TrailInvStep == TrailInv /\ [Next]_vars => TrailInv'
  BY FitStep, WorthInvStep DEF TrailInv, WorthInv

LEMMA TrailInvInit == Init => TrailInv
  BY WorthInvInit DEF TrailInv, Init, EntriesFit, CallsFit

\* Where call t of the request q stands with the entries A.
LoggedIn(t, A) ==
    \E e \in A : /\ e.by = t.by
                 /\ \/ e.step = t.step /\ e.obj = t.obj
                    \/ e.step = "email" /\ t.step \in {"create", "grant"}
Traced(t, q, A) ==
    \/ LoggedIn(t, A)
    \/ q.lost
    \/ q.res # "none" /\ t.step = q.stage /\ t.obj = q.obj
    \/ t.step \in {"create", "grant"} /\ q.out # "ok"

LEMMA TracedIs == AuditTrail <=> \A t \in tried : Traced(t, req[t.by], audit)
  BY DEF AuditTrail, Traced, Logged, LoggedIn

LEMMA TracedMore ==
    ASSUME NEW t, NEW q, NEW A, NEW B, A \subseteq B, Traced(t, q, A)
    PROVE  Traced(t, q, B)
  BY DEF Traced, LoggedIn

\* A call made before a step of r, seen after it.
LEMMA TracedOwn ==
    ASSUME TrailInv, TypeOK', NEW r \in Req, Cut(r) \/ Step(r),
           NEW t \in tried, t.by = r, Traced(t, req[r], audit)
    PROVE  Traced(t, req'[r], audit')
<1>1. OwnStep(r) /\ CallFits(t, req[r]) /\ audit \subseteq audit' /\ req[r] \in Request
  BY AuditOnly DEF TrailInv, WorthInv, AllFine, OwnStep, CallsFit, TypeOK
<1>2. CASE Cut(r)
  <2>1. /\ req'[r] = [req[r] EXCEPT !.out = "cut"]
    BY <1>1, <1>2, BecomeReq DEF Cut, Abort, OwnStep
  <2>2. /\ req'[r].lost = req[r].lost /\ req'[r].res = req[r].res /\ req'[r].out = "cut"
        /\ req'[r].stage = req[r].stage /\ req'[r].obj = req[r].obj
    BY <1>1, <2>1 DEF Request
  <2>3. QED
    BY <1>1, <2>2 DEF Traced, LoggedIn
<1>3. CASE Read(r)
  <2>1. /\ req[r].res = "none" /\ req[r].out = "none"
        /\ req[r].stage \in {"get_user", "find_sessions", "list_sessions", "find", "expand",
                             "visit", "check"}
    BY <1>3 DEF Read, At, GetUser, FindSessions, ListSessions, Find, GetSpaceChildren,
       GetJoinedRoomMembers, GetUserByEmail
  <2>2. t.step \notin {"create", "grant"}
    BY <1>1, <2>1 DEF CallFits, Created
  <2>3. req'[r].lost = req[r].lost
    BY <1>1, <1>3, ReadLost DEF OwnStep
  <2>4. QED
    BY <1>1, <2>1, <2>2, <2>3 DEF Traced, LoggedIn
<1>4. CASE Mutate(r)
  <2>1. req[r].res = "none" /\ req[r].out = "none"
    BY <1>4 DEF Mutate, At, FinishSession, LogoutUser, DisableUser, EnableUser, DeleteUser,
       DeactivateUser, ReactivateUser, KickUser, CreateUser, AddGrant, SendInviteEmail
  <2>2. req'[r].lost = req[r].lost /\ req'[r].out # "ok"
    <3>1. CASE CreateUser(r) \/ AddGrant(r)
      BY <1>1, <3>1, CreatingIs
    <3>2. CASE \E a, o : Answered(r, a, o)
      BY <1>1, <2>1, <3>2, AnsweredIs DEF OwnStep, SameFields
    <3>3. QED
      BY <1>1, <1>4, <3>1, <3>2, MutateIs DEF OwnStep
  <2>3. QED
    BY <1>1, <2>1, <2>2 DEF Traced, LoggedIn
<1>5. CASE Audit(r)
  <2>1. PICK logged \in BOOLEAN :
          /\ audit' = IF logged THEN audit \cup {Entry(r, req[r])} ELSE audit
          /\ req'[r].lost <=> req[r].lost \/ ~logged
          /\ \/ /\ Follows(req[r], req'[r].stage)
                /\ req'[r].out = IF req'[r].stage # "end" THEN "none"
                                 ELSE IF req'[r].warn THEN "warned" ELSE "ok"
             \/ req'[r].out \in {"err", "partial"}
    BY <1>1, <1>5, AuditIs
  <2>2. CASE ~logged
    BY <2>1, <2>2 DEF Traced
  <2>3. CASE logged
    <3>1. Entry(r, req[r]) \in audit'
      BY <2>1, <2>3
    <3>2. /\ Entry(r, req[r]).by = r /\ Entry(r, req[r]).step = req[r].stage
          /\ Entry(r, req[r]).obj = req[r].obj
      BY DEF Entry
    <3>3. CASE t.step = req[r].stage /\ t.obj = req[r].obj
      BY <3>1, <3>2, <3>3 DEF Traced, LoggedIn
    <3>4. CASE t.step \in {"create", "grant"}
      <4>1. req[r].kind = "invite" /\ req[r].stage \in StagesOf("invite") \cap Answerable
        BY <1>1, <1>5, <3>4 DEF CallFits, Audit, OwnStep, Fine, Routed
      <4>2. req[r].stage \in {"reactivate", "email"}
        BY <4>1 DEF StagesOf, Answerable
      <4>3. CASE req[r].stage = "email"
        BY <3>1, <3>2, <3>4, <4>3 DEF Traced, LoggedIn
      <4>4. CASE req[r].stage = "reactivate"
        <5>1. req'[r].out # "ok"
          BY <2>1, <4>1, <4>4 DEF Follows
        <5>2. QED
          BY <3>4, <5>1 DEF Traced
      <4>5. QED
        BY <4>2, <4>3, <4>4
    <3>5. CASE LoggedIn(t, audit) \/ req[r].lost
      BY <1>1, <2>1, <3>5 DEF Traced, LoggedIn
    <3>6. QED
      BY <3>3, <3>4, <3>5 DEF Traced
  <2>4. QED
    BY <2>2, <2>3
<1>6. QED
  BY <1>2, <1>3, <1>4, <1>5 DEF Step

LEMMA AuditTrailStep ==
    ASSUME TrailInv, TypeOK', AuditTrail, [Next]_vars
    PROVE  AuditTrail'
<1>1. \A t \in tried : Traced(t, req[t.by], audit)
  BY TracedIs
<1>2. SUFFICES ASSUME NEW t \in tried' PROVE Traced(t, req'[t.by], audit')
  BY DEF AuditTrail, Traced, Logged, LoggedIn
<1>3. CASE UNCHANGED vars
  BY <1>1, <1>3 DEF vars, history
<1>4. CASE Person
  BY <1>1, <1>4, PersonEases
<1>5. ASSUME NEW r \in Req, Start(r) \/ Cut(r) \/ Step(r)
      PROVE  Traced(t, req'[t.by], audit')
  <2>1. TypeOK /\ OwnStep(r) /\ t.by \in Req /\ audit \subseteq audit'
    BY <1>5, AuditOnly DEF TrailInv, WorthInv, AllFine, OwnStep, TypeOK, Call
  <2>2. CASE t \in tried /\ t.by # r
    <3>1. req'[t.by] = req[t.by]
      BY <1>5, <2>1, <2>2, MovesOwn, BecomeReq
    <3>2. Traced(t, req'[t.by], audit)
      BY <1>1, <2>2, <3>1
    <3>3. QED
      BY <2>1, <3>2, TracedMore
  <2>3. CASE t \in tried /\ t.by = r
    <3>1. ~Start(r)
      BY <2>3 DEF TrailInv, CallsFit, CallFits, Start
    <3>2. QED
      BY <1>1, <1>5, <2>3, <3>1, TracedOwn
  <2>4. CASE t \notin tried
    <3>1. PICK o : Mutate(r) /\ tried' = tried \cup {[by |-> r, step |-> req[r].stage, obj |-> o]}
      BY <1>5, <2>4, TriedOnly
    <3>2. t.by = r /\ t.step = req[r].stage /\ t.obj = o
      BY <2>4, <3>1
    <3>3. CASE CreateUser(r) \/ AddGrant(r)
      BY <2>1, <3>2, <3>3, CreatingIs DEF Traced
    <3>4. CASE \E a, u : Answered(r, a, u)
      <4>1. PICK a, u : Answered(r, a, u)
        BY <3>4
      <4>2. t = [by |-> r, step |-> req[r].stage, obj |-> u]
        BY <2>4, <4>1 DEF Answered, Tries
      <4>3. t.obj = u
        BY <4>2
      <4>4. /\ req'[r].res # "none" /\ req'[r].stage = req[r].stage /\ req'[r].obj = u
        BY <2>1, <4>1, AnsweredIs
      <4>5. QED
        BY <3>2, <4>3, <4>4 DEF Traced
    <3>5. QED
      BY <2>1, <3>1, <3>3, <3>4, MutateIs
  <2>5. QED
    BY <2>2, <2>3, <2>4
<1>6. QED
  BY <1>3, <1>4, <1>5 DEF Next, Program

\* Unless the audit store refused an insert, every call of every request has its
\* audit entry, but the one the request was suspended after and, in an invite
\* that has not come to its mail, the user's creation and grants (the log_action
\* calls of services/lifecycle_steps.rs and the workflows).
THEOREM CallsAreAudited == Spec => []AuditTrail
<1>1. Init => TrailInv /\ AuditTrail
  BY TrailInvInit DEF Init, AuditTrail
<1>2. TrailInv /\ AuditTrail /\ [Next]_vars => (TrailInv /\ AuditTrail)'
  BY TrailInvStep, AuditTrailStep, NextType DEF TrailInv, WorthInv
<1>3. QED
  BY <1>1, <1>2, PTL DEF Spec

-----------------------------------------------------------------------------
(***************************************************************************)
(* What the audit log says was done stays done.                            *)
(***************************************************************************)

\* The effect of entry e, of a request on the user id i, when Keycloak's users
\* are K, the account m, the sessions S, the rooms R and the grants G.
Held(e, i, K, m, S, R, G) ==
    /\ e.step = "finish"     => S[e.obj] = "finished"
    /\ e.step = "disable"    => K[i] # "enabled"
    /\ e.step = "enable"     => K[i] = "enabled"
    /\ e.step = "remove"     => K[i] = "gone"
    /\ e.step = "deactivate" => m = "deactivated"
    /\ e.step = "reactivate" => m # "deactivated"
    /\ e.step = "kick"       => e.obj \notin R
    /\ e.step = "email"      => e.given \subseteq G

LEMMA EffectIs ==
    ASSUME LockedOut, NEW e
    PROVE  Effect(e) <=> Held(e, req[e.by].id, kc, mas, sess, rooms, grants)
<1>1. mas = "deactivated" => ActiveSessions = {}
  BY DEF LockedOut
<1>2. CASE e.step \in {"finish", "disable", "enable", "remove"}
  BY <1>2 DEF Effect, Held
<1>3. CASE e.step \in {"deactivate", "reactivate", "kick", "email"}
  BY <1>1, <1>3 DEF Effect, Held
<1>4. CASE e.step \notin {"finish", "disable", "enable", "remove", "deactivate",
                          "reactivate", "kick", "email"}
  BY <1>4 DEF Effect, Held
<1>5. QED
  BY <1>2, <1>3, <1>4

\* Which kind of request makes which call.
LEMMA KindOfStep ==
    ASSUME NEW k, NEW s \in StagesOf(k)
    PROVE  /\ s = "disable" => k \in {"disable", "offboard"}
           /\ s = "enable" => k = "reactivate"
           /\ s = "remove" => k = "delete"
           /\ s = "deactivate" => k \in {"offboard", "delete"}
           /\ s = "reactivate" => k \in {"reactivate", "invite"}
           /\ s = "kick" => k = "offboard"
           /\ s \in {"create", "grant", "email"} => k = "invite"
  BY DEF StagesOf, PastDisable, Looping

LEMMA SessionsEnd ==
    ASSUME TypeOK, NEW p \in Req, Start(p) \/ Cut(p) \/ Step(p)
    PROVE  /\ rooms' \subseteq rooms
           /\ \A s \in Sessions : sess[s] = "finished" => sess'[s] = "finished"
<1>1. CASE FinishSession(p)
  BY <1>1 DEF FinishSession, TypeOK
<1>2. CASE DeactivateUser(p)
  BY <1>2 DEF DeactivateUser, TypeOK
<1>3. CASE KickUser(p)
  BY <1>3 DEF KickUser
<1>4. CASE \/ LogoutUser(p) \/ DisableUser(p) \/ EnableUser(p) \/ DeleteUser(p)
           \/ ReactivateUser(p) \/ CreateUser(p) \/ AddGrant(p) \/ SendInviteEmail(p)
  BY <1>4 DEF LogoutUser, DisableUser, EnableUser, DeleteUser, ReactivateUser, CreateUser,
     AddGrant, SendInviteEmail, upstream
<1>5. CASE Start(p) \/ Cut(p) \/ Read(p) \/ Audit(p)
  BY <1>5 DEF Start, Cut, Read, Audit, upstream, GetUser, FindSessions, ListSessions, Find,
     GetSpaceChildren, GetJoinedRoomMembers, GetUserByEmail
<1>6. QED
  BY <1>1, <1>2, <1>3, <1>4, <1>5 DEF Step, Mutate

\* Which of the person's access a request itself moves, by its kind.
LEMMA OwnReach ==
    ASSUME NEW r \in Req, OwnStep(r), Cut(r) \/ Step(r)
    PROVE  /\ \/ kc' = kc
              \/ /\ req[r].kind \in {"disable", "offboard"} /\ req[r].id \in Ids
                 /\ kc' = [kc EXCEPT ![req[r].id] = "disabled"]
              \/ /\ req[r].kind = "reactivate" /\ req[r].id \in Ids
                 /\ kc' = [kc EXCEPT ![req[r].id] = "enabled"]
              \/ /\ req[r].kind = "delete" /\ req[r].id \in Ids
                 /\ kc' = [kc EXCEPT ![req[r].id] = "gone"]
              \/ req[r].kind = "invite"
           /\ \/ mas' = mas
              \/ req[r].kind \in {"offboard", "delete"} /\ mas' = "deactivated"
              \/ req[r].kind \in {"reactivate", "invite"} /\ mas' = "active"
           /\ grants \subseteq grants' \/ req[r].kind = "delete"
<1> DEFINE k == req[r].kind
<1>1. CASE DisableUser(r)
  <2>1. "disable" \in StagesOf(k) /\ req[r].id \in Ids
    BY <1>1, AtIs, IdIs DEF DisableUser
  <2>2. k \in {"disable", "offboard"}
    BY <2>1, KindOfStep
  <2>3. QED
    BY <1>1, <2>1, <2>2 DEF DisableUser
<1>2. CASE EnableUser(r)
  <2>1. "enable" \in StagesOf(k) /\ req[r].id \in Ids
    BY <1>2, AtIs, IdIs DEF EnableUser
  <2>2. k = "reactivate"
    BY <2>1, KindOfStep
  <2>3. QED
    BY <1>2, <2>1, <2>2 DEF EnableUser
<1>3. CASE DeleteUser(r)
  <2>1. "remove" \in StagesOf(k) /\ req[r].id \in Ids
    BY <1>3, AtIs, IdIs DEF DeleteUser
  <2>2. k = "delete"
    BY <2>1, KindOfStep
  <2>3. QED
    BY <1>3, <2>1, <2>2 DEF DeleteUser
<1>4. CASE DeactivateUser(r)
  <2>1. "deactivate" \in StagesOf(k)
    BY <1>4, AtIs DEF DeactivateUser
  <2>2. k \in {"offboard", "delete"}
    BY <2>1, KindOfStep
  <2>3. QED
    BY <1>4, <2>2 DEF DeactivateUser
<1>5. CASE ReactivateUser(r)
  <2>1. "reactivate" \in StagesOf(k)
    BY <1>5, AtIs DEF ReactivateUser
  <2>2. k \in {"reactivate", "invite"}
    BY <2>1, KindOfStep
  <2>3. QED
    BY <1>5, <2>2 DEF ReactivateUser
<1>6. CASE CreateUser(r)
  <2>1. "create" \in StagesOf(k)
    BY <1>6, AtIs DEF CreateUser
  <2>2. k = "invite"
    BY <2>1, KindOfStep
  <2>3. QED
    BY <1>6, <2>2 DEF CreateUser
<1>7. CASE \/ FinishSession(r) \/ LogoutUser(r) \/ KickUser(r) \/ AddGrant(r)
           \/ SendInviteEmail(r)
  BY <1>7 DEF FinishSession, LogoutUser, KickUser, AddGrant, SendInviteEmail, upstream
<1>8. CASE Cut(r) \/ Read(r) \/ Audit(r)
  BY <1>8 DEF Cut, Read, Audit, upstream, GetUser, FindSessions, ListSessions, Find,
     GetSpaceChildren, GetJoinedRoomMembers, GetUserByEmail
<1>9. QED
  BY <1>1, <1>2, <1>3, <1>4, <1>5, <1>6, <1>7, <1>8 DEF Step, Mutate

LEMMA IdKept ==
    ASSUME NEW r \in Req, OwnStep(r), Cut(r) \/ Step(r), req[r].kind # "invite"
    PROVE  req'[r].id = req[r].id
<1>1. CASE Cut(r) \/ Read(r)
  BY <1>1, ReadLost DEF OwnStep
<1>2. CASE Mutate(r)
  <2>1. ~CreateUser(r) /\ ~AddGrant(r)
    BY CreatingIs
  <2>2. PICK a, o : Answered(r, a, o)
    BY <1>2, <2>1, MutateIs DEF OwnStep
  <2>3. QED
    BY <2>2, AnsweredIs DEF OwnStep, SameFields
<1>3. CASE Audit(r)
  BY <1>3, AuditIs
<1>4. QED
  BY <1>1, <1>2, <1>3 DEF Step

\* An effect outlives the later steps of its own request ...
LEMMA HeldOwn ==
    ASSUME NEW r \in Req, OwnStep(r), Cut(r) \/ Step(r),
           NEW e, EntryFits(e, req[r]),
           Held(e, req[r].id, kc, mas, sess, rooms, grants)
    PROVE  Held(e, req'[r].id, kc', mas', sess', rooms', grants')
<1>1. TypeOK /\ e.step \in StagesOf(req[r].kind)
  BY DEF OwnStep, EntryFits
<1>2. e.step = "finish" => sess'[e.obj] = "finished"
  BY <1>1, SessionsEnd DEF EntryFits, Held
<1>3. ASSUME e.step \in {"disable", "enable", "remove"}
      PROVE  /\ e.step = "disable" => kc'[req'[r].id] # "enabled"
             /\ e.step = "enable" => kc'[req'[r].id] = "enabled"
             /\ e.step = "remove" => kc'[req'[r].id] = "gone"
  <2>1. /\ e.step = "disable" => req[r].kind \in {"disable", "offboard"}
        /\ e.step = "enable" => req[r].kind = "reactivate"
        /\ e.step = "remove" => req[r].kind = "delete"
    BY <1>1, KindOfStep
  <2>2. req'[r].id = req[r].id
    BY <1>3, <2>1, IdKept
  <2>3. CASE kc' = kc
    BY <2>2, <2>3 DEF Held
  <2>4. CASE kc' # kc
    <3>1. /\ e.step = "disable" => kc'[req[r].id] = "disabled"
          /\ e.step = "enable" => kc'[req[r].id] = "enabled"
          /\ e.step = "remove" => kc'[req[r].id] = "gone"
      BY <1>1, <1>3, <2>1, <2>4, OwnReach DEF TypeOK
    <3>2. QED
      BY <2>2, <3>1
  <2>5. QED
    BY <2>3, <2>4
<1>4. /\ e.step = "deactivate" => mas' = "deactivated"
      /\ e.step = "reactivate" => mas' # "deactivated"
  <2>1. /\ e.step = "deactivate" => req[r].kind \in {"offboard", "delete"}
        /\ e.step = "reactivate" => req[r].kind \in {"reactivate", "invite"}
    BY <1>1, KindOfStep
  <2>2. QED
    BY <2>1, OwnReach DEF Held
<1>5. e.step = "kick" => e.obj \notin rooms'
  BY <1>1, SessionsEnd DEF Held
<1>6. e.step = "email" => e.given \subseteq grants'
  <2>1. e.step = "email" => req[r].kind = "invite"
    BY <1>1, KindOfStep
  <2>2. QED
    BY <2>1, OwnReach DEF Held
<1>7. QED
  BY <1>2, <1>3, <1>4, <1>5, <1>6 DEF Held

\* ... those of the others, unless they move the person's access ...
LEMMA HeldOthers ==
    ASSUME TypeOK, NEW p \in Req, Start(p) \/ Cut(p) \/ Step(p),
           NEW r \in Others(p), r \notin raised' \cup lowered',
           NEW e, e.step = "finish" => e.obj \in Sessions,
           NEW i, Held(e, i, kc, mas, sess, rooms, grants)
    PROVE  /\ r \notin raised \cup lowered
           /\ Held(e, i, kc', mas', sess', rooms', grants')
<1>1. kc' = kc /\ mas' = mas /\ grants \subseteq grants' /\ r \notin raised \cup lowered
  BY OthersShift
<1>2. QED
  BY <1>1, SessionsEnd DEF Held

\* ... and whatever the person does.
LEMMA HeldPerson ==
    ASSUME TypeOK, Person, NEW e, e.step = "finish" => e.obj \in Sessions,
           e.step = "kick" => ~EnabledIn(kc),
           NEW i, Held(e, i, kc, mas, sess, rooms, grants)
    PROVE  Held(e, i, kc', mas', sess', rooms', grants')
<1>1. ASSUME NEW s \in Sessions, Login(s)
      PROVE  Held(e, i, kc', mas', sess', rooms', grants')
  <2>1. /\ kc' = kc /\ grants' = grants /\ rooms' = rooms
        /\ mas # "deactivated" /\ mas' = "active"
    BY <1>1 DEF Login
  <2>2. \A t \in Sessions : sess[t] = "finished" => sess'[t] = "finished"
    BY <1>1 DEF Login, TypeOK
  <2>3. QED
    BY <2>1, <2>2 DEF Held
<1>2. ASSUME NEW t \in Rooms, Join(t)
      PROVE  Held(e, i, kc', mas', sess', rooms', grants')
  <2>1. /\ EnabledIn(kc) /\ kc' = kc /\ grants' = grants /\ mas' = mas /\ sess' = sess
    BY <1>2 DEF Join, Enabled, EnabledIn
  <2>2. QED
    BY <2>1 DEF Held
<1>3. QED
  BY <1>1, <1>2 DEF Person

\* A call that is answered ok has had its effect.
LEMMA AnswerHolds ==
    ASSUME NEW r \in Req, OwnStep(r), Mutate(r), r \notin lowered, req'[r].res = "ok"
    PROVE  Held(Entry(r, req'[r]), req'[r].id, kc', mas', sess', rooms', grants')
<1> DEFINE e == Entry(r, req'[r])
           i == req'[r].id
<1>1. /\ e.step = req'[r].stage /\ e.obj = req'[r].obj
      /\ e.given = IF req'[r].stage = "email" THEN req'[r].given ELSE {}
  BY DEF Entry
<1>2. ASSUME NEW s, At(r, s), NEW a, NEW o, Answered(r, a, o)
      PROVE  /\ a = "ok" /\ req[r].stage = s /\ e.step = s /\ e.obj = o
             /\ i = req[r].id /\ req'[r].given = req[r].given
  BY <1>1, <1>2, AnsweredIs DEF OwnStep, SameFields, At
<1> HIDE DEF e, i
<1>3. CASE FinishSession(r)
  <2>1. PICK s \in Sessions : \E a : /\ Answered(r, a, s)
                                     /\ sess' = IF Applied(a) THEN [sess EXCEPT ![s] = "finished"]
                                                              ELSE sess
    BY <1>3 DEF FinishSession
  <2>2. e.step = "finish" /\ e.obj = s /\ sess' = [sess EXCEPT ![s] = "finished"]
    BY <1>2, <1>3, <2>1 DEF FinishSession, Applied
  <2>3. QED
    BY <2>2 DEF Held, OwnStep, TypeOK, e, i
<1>4. CASE LogoutUser(r)
  <2>1. PICK a : Answered(r, a, None)
    BY <1>4 DEF LogoutUser
  <2>2. e.step = "logout"
    BY <1>2, <1>4, <2>1 DEF LogoutUser
  <2>3. QED
    BY <2>2 DEF Held, e, i
<1>5. CASE DisableUser(r)
  <2>1. PICK a : /\ Answered(r, a, None)
                 /\ kc' = IF Applied(a) THEN [kc EXCEPT ![req[r].id] = "disabled"] ELSE kc
    BY <1>5 DEF DisableUser
  <2>2. e.step = "disable" /\ i = req[r].id /\ kc' = [kc EXCEPT ![req[r].id] = "disabled"]
    BY <1>2, <1>5, <2>1 DEF DisableUser, Applied
  <2>3. i \in Ids
    BY <1>5, <2>2, IdIs DEF DisableUser
  <2>4. QED
    BY <2>2, <2>3 DEF Held, OwnStep, TypeOK, e, i
<1>6. CASE EnableUser(r)
  <2>1. PICK a : /\ Answered(r, a, None)
                 /\ kc' = IF Applied(a) THEN [kc EXCEPT ![req[r].id] = "enabled"] ELSE kc
    BY <1>6 DEF EnableUser
  <2>2. e.step = "enable" /\ i = req[r].id /\ kc' = [kc EXCEPT ![req[r].id] = "enabled"]
    BY <1>2, <1>6, <2>1 DEF EnableUser, Applied
  <2>3. i \in Ids
    BY <1>6, <2>2, IdIs DEF EnableUser
  <2>4. QED
    BY <2>2, <2>3 DEF Held, OwnStep, TypeOK, e, i
<1>7. CASE DeleteUser(r)
  <2>1. PICK a : /\ Answered(r, a, None)
                 /\ kc' = IF Applied(a) THEN [kc EXCEPT ![req[r].id] = "gone"] ELSE kc
    BY <1>7 DEF DeleteUser
  <2>2. e.step = "remove" /\ i = req[r].id /\ kc' = [kc EXCEPT ![req[r].id] = "gone"]
    BY <1>2, <1>7, <2>1 DEF DeleteUser, Applied
  <2>3. i \in Ids
    BY <1>7, <2>2, IdIs DEF DeleteUser
  <2>4. QED
    BY <2>2, <2>3 DEF Held, OwnStep, TypeOK, e, i
<1>8. CASE DeactivateUser(r)
  <2>1. PICK a : /\ Answered(r, a, None)
                 /\ mas' = IF Applied(a) THEN "deactivated" ELSE mas
    BY <1>8 DEF DeactivateUser
  <2>2. e.step = "deactivate" /\ mas' = "deactivated"
    BY <1>2, <1>8, <2>1 DEF DeactivateUser, Applied
  <2>3. QED
    BY <2>2 DEF Held, e, i
<1>9. CASE ReactivateUser(r)
  <2>1. PICK a : /\ Answered(r, a, None)
                 /\ mas' = IF Applied(a) THEN "active" ELSE mas
    BY <1>9 DEF ReactivateUser
  <2>2. e.step = "reactivate" /\ mas' = "active"
    BY <1>2, <1>9, <2>1 DEF ReactivateUser, Applied
  <2>3. QED
    BY <2>2 DEF Held, e, i
<1>10. CASE KickUser(r)
  <2>1. PICK a : /\ Answered(r, a, req[r].obj)
                 /\ rooms' = IF Applied(a) THEN rooms \ {req[r].obj} ELSE rooms
    BY <1>10 DEF KickUser
  <2>2. e.step = "kick" /\ e.obj = req[r].obj /\ rooms' = rooms \ {req[r].obj}
    BY <1>2, <1>10, <2>1 DEF KickUser, Applied
  <2>3. QED
    BY <2>2 DEF Held, e, i
<1>11. CASE SendInviteEmail(r)
  <2>1. PICK a : Answered(r, a, None)
    BY <1>11 DEF SendInviteEmail
  <2>2. e.step = "email" /\ req'[r].given = req[r].given /\ "email" \in StagesOf(req[r].kind)
    BY <1>2, <1>11, <2>1, AtIs DEF SendInviteEmail
  <2>3. req[r].kind = "invite"
    BY <2>2, KindOfStep
  <2>4. req[r].given \subseteq grants /\ grants' = grants
    BY <1>11, <2>3 DEF OwnStep, Fine, Opened, SendInviteEmail, upstream
  <2>5. QED
    BY <1>1, <2>2, <2>4 DEF Held, e, i
<1>12. CASE CreateUser(r) \/ AddGrant(r)
  BY <1>12, CreatingIs
<1>13. QED
  BY <1>3, <1>4, <1>5, <1>6, <1>7, <1>8, <1>9, <1>10, <1>11, <1>12 DEF Mutate

\* An answer still to be audited is treated as the entry it is about to get.
Pending ==
    \A r \in Req \ (raised \cup lowered) :
        req[r].res = "ok" =>
            Held(Entry(r, req[r]), req[r].id, kc, mas, sess, rooms, grants)

LEMMA PendingOwn ==
    ASSUME NEW r \in Req, OwnStep(r), Cut(r) \/ Step(r), r \notin raised \cup lowered,
           Pending, req'[r].res = "ok"
    PROVE  Held(Entry(r, req'[r]), req'[r].id, kc', mas', sess', rooms', grants')
<1>1. ASSUME Entry(r, req'[r]) = Entry(r, req[r]), req'[r].res = req[r].res
      PROVE  Held(Entry(r, req'[r]), req'[r].id, kc', mas', sess', rooms', grants')
  <2>1. Held(Entry(r, req[r]), req[r].id, kc, mas, sess, rooms, grants)
    BY <1>1 DEF Pending
  <2>2. EntryFits(Entry(r, req[r]), req[r])
    BY <1>1, EntryFitsIs DEF OwnStep
  <2>3. QED
    BY <1>1, <2>1, <2>2, HeldOwn
<1>2. CASE Cut(r)
  <2>1. req[r] \in Request /\ req'[r] = [req[r] EXCEPT !.out = "cut"]
    BY <1>2, BecomeReq DEF Cut, Abort, OwnStep, TypeOK
  <2>2. /\ req'[r].res = req[r].res /\ req'[r].stage = req[r].stage
        /\ req'[r].obj = req[r].obj /\ req'[r].given = req[r].given
    BY <2>1 DEF Request
  <2>3. QED
    BY <1>1, <2>2 DEF Entry
<1>3. CASE Read(r)
  <2>1. req[r].res = "none"
    BY <1>3 DEF Read, At, GetUser, FindSessions, ListSessions, Find, GetSpaceChildren,
       GetJoinedRoomMembers, GetUserByEmail
  <2>2. QED
    BY <1>3, <2>1, ReadLost DEF OwnStep
<1>4. CASE Mutate(r)
  BY <1>4, AnswerHolds
<1>5. CASE Audit(r)
  <2>1. /\ req'[r].res = req[r].res /\ req'[r].stage = req[r].stage
        /\ req'[r].obj = req[r].obj /\ req'[r].given = req[r].given
    BY <1>5, AuditIs
  <2>2. QED
    BY <1>1, <2>1 DEF Entry
<1>6. QED
  BY <1>2, <1>3, <1>4, <1>5 DEF Step

EntriesHeld ==
    \A e \in audit :
        e.ok /\ e.by \notin raised \cup lowered =>
            Held(e, req[e.by].id, kc, mas, sess, rooms, grants)

HeldInv == IInv /\ TrailInv /\ Pending /\ EntriesHeld

LEMMA KickedOut ==
    ASSUME HeldInv, NEW r \in Req \ raised, NEW e, EntryFits(e, req[r]), e.step = "kick"
    PROVE  ~EnabledIn(kc)
<1>1. "kick" \in StagesOf(req[r].kind) /\ req[r].stage \in PastDisable
  BY DEF EntryFits
<1>2. req[r].kind = "offboard"
  BY <1>1, KindOfStep
<1>3. QED
  BY <1>1, <1>2 DEF HeldInv, IInv, OffInv, Off, Locked

LEMMA OthersKeepFlags ==
    ASSUME TypeOK, NEW p \in Req, Start(p) \/ Cut(p) \/ Step(p),
           NEW r \in Req, r \notin raised' \cup lowered'
    PROVE  r \notin raised \cup lowered
  BY OthersShift

LEMMA PendingStep ==
    ASSUME HeldInv, TypeOK', [Next]_vars
    PROVE  Pending'
<1>1. SUFFICES ASSUME NEW r \in Req, r \notin raised' \cup lowered', req'[r].res = "ok"
               PROVE  Held(Entry(r, req'[r]), req'[r].id, kc', mas', sess', rooms', grants')
  BY DEF Pending, Entry
<1>2. TypeOK /\ Fine(r) /\ Pending
  BY DEF HeldInv, IInv, TrailInv, WorthInv, AllFine
<1>3. ASSUME req'[r] = req[r], r \notin raised \cup lowered
      PROVE  /\ Held(Entry(r, req[r]), req[r].id, kc, mas, sess, rooms, grants)
             /\ EntryFits(Entry(r, req[r]), req[r])
  BY <1>1, <1>2, <1>3, EntryFitsIs DEF Pending
<1>4. CASE UNCHANGED vars
  BY <1>1, <1>3, <1>4 DEF vars, upstream, history
<1>5. CASE Person
  <2>1. req'[r] = req[r] /\ r \notin raised \cup lowered
    BY <1>1, <1>5, PersonEases
  <2>2. /\ Held(Entry(r, req[r]), req[r].id, kc, mas, sess, rooms, grants)
        /\ EntryFits(Entry(r, req[r]), req[r])
    BY <1>3, <2>1
  <2>3. Entry(r, req[r]).step = "kick" => ~EnabledIn(kc)
    BY <2>1, <2>2, KickedOut
  <2>4. Entry(r, req[r]).step = "finish" => Entry(r, req[r]).obj \in Sessions
    BY <2>2 DEF EntryFits
  <2>5. Held(Entry(r, req[r]), req[r].id, kc', mas', sess', rooms', grants')
    BY <1>2, <1>5, <2>2, <2>3, <2>4, HeldPerson
  <2>6. QED
    BY <2>1, <2>5
<1>6. ASSUME NEW p \in Req, Start(p) \/ Cut(p) \/ Step(p), p # r
      PROVE  Held(Entry(r, req'[r]), req'[r].id, kc', mas', sess', rooms', grants')
  <2>1. req'[r] = req[r] /\ r \notin raised \cup lowered
    BY <1>1, <1>2, <1>6, MovesOwn, BecomeReq, OthersKeepFlags
  <2>2. /\ Held(Entry(r, req[r]), req[r].id, kc, mas, sess, rooms, grants)
        /\ EntryFits(Entry(r, req[r]), req[r])
    BY <1>3, <2>1
  <2>3. r \in Others(p)
    <3>1. req[r].kind # "none"
      BY <2>2 DEF EntryFits, StagesOf, Answerable
    <3>2. QED
      BY <1>6, <3>1 DEF Others
  <2>4. Entry(r, req[r]).step = "finish" => Entry(r, req[r]).obj \in Sessions
    BY <2>2 DEF EntryFits
  <2>5. Held(Entry(r, req[r]), req[r].id, kc', mas', sess', rooms', grants')
    BY <1>1, <1>2, <1>6, <2>2, <2>3, <2>4, HeldOthers
  <2>6. QED
    BY <2>1, <2>5
<1>7. CASE Cut(r) \/ Step(r)
  <2>1. r \notin raised \cup lowered
    BY <1>1, <1>2, <1>7, OthersKeepFlags
  <2>2. QED
    BY <1>1, <1>2, <1>7, <2>1, PendingOwn DEF OwnStep
<1>8. CASE Start(r)
  BY <1>1, <1>2, <1>8, StartIs
<1>9. QED
  BY <1>4, <1>5, <1>6, <1>7, <1>8 DEF Next, Program

LEMMA EntriesHeldStep ==
    ASSUME HeldInv, TypeOK', [Next]_vars
    PROVE  EntriesHeld'
<1>1. SUFFICES ASSUME NEW e \in audit', e.ok, e.by \notin raised' \cup lowered'
               PROVE  Held(e, req'[e.by].id, kc', mas', sess', rooms', grants')
  BY DEF EntriesHeld
<1>2. TypeOK /\ EntriesHeld /\ EntriesFit /\ Pending /\ e.by \in Req
  BY DEF HeldInv, IInv, TrailInv, TypeOK, AuditEntry
<1> DEFINE r == e.by
<1>3. Fine(r)
  BY <1>2 DEF HeldInv, TrailInv, WorthInv, AllFine
<1>4. ASSUME e \in audit, r \notin raised \cup lowered
      PROVE  /\ Held(e, req[r].id, kc, mas, sess, rooms, grants)
             /\ EntryFits(e, req[r])
             /\ e.step = "finish" => e.obj \in Sessions
             /\ req[r].kind # "none"
  BY <1>1, <1>2, <1>4 DEF EntriesHeld, EntriesFit, EntryFits, StagesOf, Answerable
<1>5. CASE UNCHANGED vars
  BY <1>1, <1>4, <1>5 DEF vars, upstream, history
<1>6. CASE Person
  <2>1. /\ req' = req /\ audit' = audit /\ r \notin raised \cup lowered
    BY <1>1, <1>6, PersonEases
  <2>2. e.step = "kick" => ~EnabledIn(kc)
    BY <1>1, <1>2, <1>4, <2>1, KickedOut
  <2>3. Held(e, req[r].id, kc', mas', sess', rooms', grants')
    BY <1>1, <1>2, <1>4, <1>6, <2>1, <2>2, HeldPerson
  <2>4. QED
    BY <2>1, <2>3
<1>7. ASSUME NEW p \in Req, Start(p) \/ Cut(p) \/ Step(p), p # r
      PROVE  Held(e, req'[r].id, kc', mas', sess', rooms', grants')
  <2>1. req'[r] = req[r] /\ r \notin raised \cup lowered
    BY <1>1, <1>2, <1>7, MovesOwn, BecomeReq, OthersKeepFlags
  <2>2. e \in audit
    <3>1. Entry(p, req[p]).by = p
      BY DEF Entry
    <3>2. QED
      BY <1>1, <1>7, <3>1, AuditOnly
  <2>3. r \in Others(p)
    BY <1>2, <1>4, <1>7, <2>1, <2>2 DEF Others
  <2>4. Held(e, req[r].id, kc', mas', sess', rooms', grants')
    BY <1>1, <1>2, <1>4, <1>7, <2>1, <2>2, <2>3, HeldOthers
  <2>5. QED
    BY <2>1, <2>4
<1>8. CASE Cut(r) \/ Step(r)
  <2>1. r \notin raised \cup lowered /\ OwnStep(r)
    BY <1>1, <1>2, <1>3, <1>8, OthersKeepFlags DEF OwnStep
  <2>2. CASE e \in audit
    BY <1>2, <1>4, <1>8, <2>1, <2>2, HeldOwn
  <2>3. CASE e \notin audit
    <3>1. e = Entry(r, req[r]) /\ Audit(r)
      BY <1>1, <1>2, <1>8, <2>3, AuditOnly
    <3>2. req[r].res = "ok" /\ req[r].res # "none"
      <4>1. \A p, q : Entry(p, q).ok = (q.res = "ok")
        BY DEF Entry
      <4>2. Entry(r, req[r]).ok
        BY <1>1, <3>1
      <4>3. QED
        BY <4>1, <4>2
    <3>3. /\ Held(e, req[r].id, kc, mas, sess, rooms, grants)
          /\ EntryFits(e, req[r])
      BY <1>2, <1>3, <2>1, <3>1, <3>2, EntryFitsIs DEF Pending
    <3>4. QED
      BY <1>2, <1>8, <2>1, <3>3, HeldOwn
  <2>4. QED
    BY <2>2, <2>3
<1>9. CASE Start(r)
  <2>1. audit' = audit /\ r \notin raised \cup lowered /\ req[r].kind = "none"
    BY <1>1, <1>9 DEF Start, history
  <2>2. QED
    BY <1>1, <1>4, <2>1
<1>10. QED
  BY <1>5, <1>6, <1>7, <1>8, <1>9, <1>2 DEF Next, Program

LEMMA HeldSafe == HeldInv => SuccessEntriesHold
  BY EffectIs DEF HeldInv, IInv, EntriesHeld, SuccessEntriesHold

\* What the audit log says was done stays done, through logins, joins, failures
\* and the requests of other admins, until another request moves the person's
\* access the other way: the entries are written after the calls and name what
\* they were about (log_action after every call of the workflows).
THEOREM SuccessesStayTrue == Spec => []SuccessEntriesHold
<1>1. Init => HeldInv
  <2>1. Init => Pending
    BY DEF Init, Pending, Idle
  <2>2. Init => EntriesHeld
    BY DEF Init, EntriesHeld
  <2>3. QED
    BY <2>1, <2>2, IInvInit, TrailInvInit DEF HeldInv
<1>2. HeldInv /\ [Next]_vars => HeldInv'
  BY IInvStep, TrailInvStep, PendingStep, EntriesHeldStep, NextType DEF HeldInv, IInv
<1>3. QED
  BY <1>1, <1>2, HeldSafe, PTL DEF Spec

-----------------------------------------------------------------------------
(***************************************************************************)
(* The order of a delete: the proof of RemovedAfterLocked.                 *)
(***************************************************************************)
LockLogged(r, A) == \E e \in A : e.by = r /\ e.step = "deactivate" /\ e.ok
AtRemoval(q) == q.kind = "delete" /\ q.found \in Known /\ q.stage \in {"remove", "end"}
RemovalInv == \A r \in Req : AtRemoval(req[r]) => LockLogged(r, audit)

\* A delete of a known account comes to the removal by the entry that says the
\* account was deactivated.
LEMMA RemovalOwn ==
    ASSUME NEW r \in Req, OwnStep(r), Cut(r) \/ Step(r), AtRemoval(req'[r])
    PROVE  AtRemoval(req[r]) \/ LockLogged(r, audit')
<1>1. req[r].kind = "delete" /\ req[r] \in Request
  BY StepOnward DEF AtRemoval, Onward, OwnStep, TypeOK
<1>2. CASE Cut(r)
  <2>1. req'[r] = [req[r] EXCEPT !.out = "cut"]
    BY <1>2, BecomeReq DEF Cut, Abort, OwnStep
  <2>2. QED
    BY <1>1, <2>1 DEF AtRemoval, Request
<1>3. CASE Read(r)
  <2>1. GetUser(r) \/ Find(r)
    <3>1. \A s : At(r, s) => s \in {"get_user", "find", "deactivate", "remove", "end"}
      BY <1>1, AtIs DEF StagesOf
    <3>2. ~At(r, "find_sessions") /\ ~At(r, "list_sessions") /\ ~At(r, "expand")
          /\ ~At(r, "visit") /\ ~At(r, "check")
      BY <3>1
    <3>3. QED
      BY <1>3, <3>2 DEF Read, FindSessions, ListSessions, GetSpaceChildren,
         GetJoinedRoomMembers, GetUserByEmail
  <2>2. CASE GetUser(r)
    <3>1. req[r].stage = "get_user" /\ (Abort(r, "err") \/ GoTo(r, "find", FALSE))
      BY <1>1, <2>2 DEF GetUser, At
    <3>2. CASE Abort(r, "err")
      <4>1. req'[r] = [req[r] EXCEPT !.out = "err"]
        BY <3>2, BecomeReq DEF Abort, OwnStep
      <4>2. QED
        BY <1>1, <3>1, <4>1 DEF AtRemoval, Request
    <3>3. CASE GoTo(r, "find", FALSE)
      <4>1. req'[r].stage = "find"
        BY <3>3, GoToIs DEF OwnStep, Stage
      <4>2. QED
        BY <4>1 DEF AtRemoval
    <3>4. QED
      BY <3>1, <3>2, <3>3
  <2>3. CASE Find(r)
    <3>1. PICK f, w : Become(r, Settle([req[r] EXCEPT !.found = f,
                                                     !.stage = AfterFind(req[r], f), !.warn = w]))
      BY <2>3 DEF Find
    <3>2. req'[r] = Settle([req[r] EXCEPT !.found = f, !.stage = AfterFind(req[r], f),
                                          !.warn = w])
      BY <3>1, BecomeReq DEF OwnStep
    <3>3. AfterFind(req[r], f) = IF f \in Known THEN "deactivate" ELSE "remove"
      BY <1>1 DEF AfterFind
    <3>4. req'[r].found = f /\ req'[r].stage = AfterFind(req[r], f)
      BY <1>1, <3>2 DEF Settle, Request
    <3>5. QED
      BY <3>3, <3>4 DEF AtRemoval
  <2>4. QED
    BY <2>1, <2>2, <2>3
<1>4. CASE Mutate(r)
  <2>1. ~CreateUser(r) /\ ~AddGrant(r)
    BY <1>1, CreatingIs
  <2>2. PICK a, o : Answered(r, a, o)
    BY <1>4, <2>1, MutateIs DEF OwnStep
  <2>3. QED
    BY <2>2, AnsweredIs DEF OwnStep, SameFields, AtRemoval
<1>5. CASE Audit(r)
  <2>1. PICK logged \in BOOLEAN :
          /\ audit' = IF logged THEN audit \cup {Entry(r, req[r])} ELSE audit
          /\ \/ /\ Follows(req[r], req'[r].stage)
                /\ ~(logged /\ req[r].res = "ok") => WarnOnly(req[r])
             \/ req'[r].stage = req[r].stage
    BY <1>5, AuditIs
  <2>2. req'[r].found = req[r].found
    BY <1>5, AuditIs
  <2>3. req[r].stage \in StagesOf("delete") \cap Answerable
    BY <1>1, <1>5 DEF Audit, OwnStep, Fine, Routed
  <2>4. req[r].stage \in {"deactivate", "remove"}
    BY <2>3 DEF StagesOf, Answerable
  <2>5. CASE req[r].stage = "deactivate"
    <3>1. req'[r].stage # req[r].stage
      BY <2>5 DEF AtRemoval
    <3>2. ~WarnOnly(req[r])
      BY <1>1 DEF WarnOnly
    <3>3. logged /\ req[r].res = "ok"
      BY <2>1, <3>1, <3>2
    <3>4. /\ Entry(r, req[r]).by = r /\ Entry(r, req[r]).step = "deactivate"
          /\ Entry(r, req[r]).ok
      BY <2>5, <3>3 DEF Entry
    <3>5. QED
      BY <2>1, <3>3, <3>4 DEF LockLogged
  <2>6. QED
    BY <1>1, <2>2, <2>4, <2>5 DEF AtRemoval
<1>6. QED
  BY <1>2, <1>3, <1>4, <1>5 DEF Step

LEMMA RemovalStep ==
    ASSUME WorthInv, TypeOK', RemovalInv, [Next]_vars
    PROVE  RemovalInv'
<1> SUFFICES ASSUME NEW r \in Req, AtRemoval(req'[r]) PROVE LockLogged(r, audit')
  BY DEF RemovalInv, AtRemoval, LockLogged
<1>1. CASE UNCHANGED vars \/ Person
  <2>1. req' = req /\ audit' = audit
    BY <1>1, PersonEases DEF vars
  <2>2. QED
    BY <2>1 DEF RemovalInv
<1>2. ASSUME NEW p \in Req, Start(p) \/ Cut(p) \/ Step(p), p # r
      PROVE  LockLogged(r, audit')
  <2>1. req'[r] = req[r] /\ audit \subseteq audit'
    BY <1>2, MovesOwn, BecomeReq, AuditOnly DEF WorthInv
  <2>2. QED
    BY <2>1 DEF RemovalInv, LockLogged
<1>3. CASE Cut(r) \/ Step(r)
  <2>1. AtRemoval(req[r]) \/ LockLogged(r, audit')
    BY <1>3, RemovalOwn DEF WorthInv, AllFine, OwnStep
  <2>2. audit \subseteq audit'
    BY <1>3, AuditOnly
  <2>3. QED
    BY <2>1, <2>2 DEF RemovalInv, LockLogged
<1>4. CASE Start(r)
  BY <1>4, StartIs DEF WorthInv, AtRemoval, Known
<1>5. QED
  BY <1>1, <1>2, <1>3, <1>4 DEF Next, Program

\* The Keycloak record of a person whose MAS account the delete knew of is never
\* asked to be removed before the deactivation of that account was carried out
\* and its entry written (delete_user goes on only past both).
THEOREM RemovalComesLast == Spec => RemovedAfterLocked
<1>1. Init => WorthInv /\ RemovalInv
  <2>1. Init => RemovalInv
    BY DEF Init, RemovalInv, AtRemoval, Idle
  <2>2. QED
    BY <2>1, WorthInvInit
<1>2. WorthInv /\ RemovalInv /\ [Next]_vars => (WorthInv /\ RemovalInv)'
  BY WorthInvStep, RemovalStep DEF WorthInv
<1>3. WorthInv /\ RemovalInv =>
        [\A r \in Req :
           DeleteUser(r) /\ req[r].found \in Known =>
               \E e \in audit : e.by = r /\ e.step = "deactivate" /\ e.ok]_vars
  <2> SUFFICES ASSUME WorthInv, RemovalInv, NEW r \in Req, DeleteUser(r),
                      req[r].found \in Known
               PROVE  \E e \in audit : e.by = r /\ e.step = "deactivate" /\ e.ok
    OBVIOUS
  <2>1. req[r].stage = "remove" /\ "remove" \in StagesOf(req[r].kind)
    BY DEF DeleteUser, At, WorthInv, AllFine, Fine, Routed
  <2>2. AtRemoval(req[r])
    BY <2>1, KindOfStep DEF AtRemoval
  <2>3. QED
    BY <2>2 DEF RemovalInv, LockLogged
<1>4. QED
  BY <1>1, <1>2, <1>3, PTL DEF Spec, RemovedAfterLocked
=============================================================================
