------------------------------ MODULE Lifecycle ------------------------------
(***************************************************************************)
(* The account lifecycle workflows of Matrix Identity Admin (src/services  *)
(* and the handlers in front of them) acting on the accounts of one person *)
(* in Keycloak, MAS and Synapse.                                           *)
(*                                                                         *)
(* An admin request is a future that runs to its next await and suspends   *)
(* there, so every exchange with an upstream service and every insert into *)
(* the audit log is one step here, and the steps of concurrent requests    *)
(* interleave.  A request can be dropped at any await (client gone, the    *)
(* router's timeout layer, a crash).  The person goes on logging in and    *)
(* joining rooms meanwhile.                                                *)
(***************************************************************************)
EXTENDS Naturals, FiniteSets

CONSTANTS
    Req,         \* requests an admin may submit, each at most once
    Kinds,       \* Kinds[r]: the workflows request r may be
    Ids,         \* user ids Keycloak may hand out
    None,        \* no id, no session, no room
    Compat,      \* compatibility sessions MAS may grant the person
    OAuth2,      \* OAuth 2 sessions MAS may grant the person
    Page,        \* sessions of one family that a listing returns at most
    Rooms,       \* Synapse rooms and spaces
    Bound,       \* rooms and spaces named by a policy binding
    Children,    \* Children[b]: rooms inside space b
    Grants,      \* groups, and the batch of roles, of the onboarding template
    HasSynapse,  \* whether a Synapse connector is configured
    MaxFaults    \* bound: calls that may fail or lose their answer

Kind == {"disable", "offboard", "reactivate", "delete", "invite", "revoke", "logout"}
Sessions == Compat \cup OAuth2

ASSUME KindsAssumption == Kinds \in [Req -> SUBSET Kind]
ASSUME RoomsAssumption == Bound \subseteq Rooms /\ Children \in [Rooms -> SUBSET Rooms]
ASSUME BoundsAssumption == Page \in Nat /\ MaxFaults \in Nat /\ HasSynapse \in BOOLEAN
ASSUME NoneAssumption == None \notin Ids \cup Sessions \cup Rooms

VARIABLES
    \* the upstream services
    kc,       \* Keycloak: state of every user id
    sso,      \* Keycloak: the person has a browser single sign-on session
    grants,   \* Keycloak: template grants the person's account holds
    mas,      \* MAS: the account under the person's username
    sess,     \* MAS: state of every session
    rooms,    \* Synapse: rooms the person is joined to
    \* this program
    req,      \* the requests and how far each has come
    audit,    \* the audit_logs table
    \* history, never read by a guard of the program
    tried,    \* calls made that change an upstream service
    raised,   \* requests since whose start another request gave access
    lowered,  \* requests since whose start another request took access
    faults    \* calls that failed or lost their answer so far

upstream == <<kc, sso, grants, mas, sess, rooms>>
history == <<tried, raised, lowered>>
vars == <<upstream, req, audit, history, faults>>

Live == {"enabled", "disabled"}
Known == {"active", "deactivated"}
Mapped == Bound \cup UNION {Children[b] : b \in Bound}
Enabled == \E i \in Ids : kc[i] = "enabled"
ActiveSessions == {s \in Sessions : sess[s] = "active"}

-----------------------------------------------------------------------------
(***************************************************************************)
(* Request states.  A stage is the call the request is about to make or,   *)
(* once res holds the answer, the audit entry it is about to write for it. *)
(***************************************************************************)
Stage == {"idle", "get_user", "find_sessions", "list_sessions", "finish",
          "logout", "disable", "enable", "expand", "visit", "kick", "find",
          "deactivate", "reactivate", "remove", "check", "create", "grant",
          "email", "end"}

Object == Sessions \cup Rooms \cup {None}

Request ==
    [kind  : Kind \cup {"none"},
     id    : Ids \cup {None},              \* Keycloak user id it works on
     stage : Stage,
     res   : {"none", "ok", "err"},        \* answer still to be audited
     obj   : Object,                       \* what that call was about
     todo  : SUBSET (Sessions \cup Rooms \cup Grants),  \* rest of its loop
     root  : Rooms \cup {None},            \* binding being cleaned up
     near  : SUBSET Rooms,                 \* rooms of root still to visit
     found : {"unknown", "none"} \cup Known,  \* answer of the MAS lookup
     given : SUBSET Grants,                \* grants it believes it made
     warn  : BOOLEAN,                      \* some warning was collected
     lost  : BOOLEAN,                      \* some audit insert failed
     out   : {"none", "ok", "warned", "partial", "err", "cut"}]

Idle ==
    [kind |-> "none", id |-> None, stage |-> "idle", res |-> "none",
     obj |-> None, todo |-> {}, root |-> None, near |-> {},
     found |-> "unknown", given |-> {}, warn |-> FALSE, lost |-> FALSE,
     out |-> "none"]

Init ==
    /\ kc \in [Ids -> {"absent", "enabled", "disabled"}]
    /\ \A i, j \in Ids : kc[i] \in Live /\ kc[j] \in Live => i = j
    /\ sso \in {FALSE, \E i \in Ids : kc[i] \in Live}
    /\ grants = {}
    /\ mas \in {"none"} \cup Known
    /\ sess \in [Sessions -> {"unused", "active"}]
    /\ mas # "active" => ActiveSessions = {}
    /\ rooms \in SUBSET (IF mas = "none" THEN {} ELSE Rooms)
    /\ req = [r \in Req |-> Idle]
    /\ audit = {} /\ tried = {} /\ raised = {} /\ lowered = {}
    /\ faults = 0

Fault == faults < MaxFaults /\ faults' = faults + 1
NoFault == UNCHANGED faults

At(r, s) == req[r].stage = s /\ req[r].res = "none" /\ req[r].out = "none"
Become(r, q) == req' = [req EXCEPT ![r] = q]

\* The value returned to the handler once the last stage is behind a request.
Settle(q) ==
    IF q.stage = "end" THEN [q EXCEPT !.out = IF q.warn THEN "warned" ELSE "ok"] ELSE q
GoTo(r, s, w) ==
    Become(r, Settle([req[r] EXCEPT !.stage = s, !.res = "none", !.warn = @ \/ w]))
Abort(r, o) == Become(r, [req[r] EXCEPT !.out = o])

Others(r) == {q \in Req \ {r} : req[q].kind # "none"}
Raise(r) == raised' = raised \cup Others(r) /\ UNCHANGED lowered
Lower(r) == lowered' = lowered \cup Others(r) /\ UNCHANGED raised
NoShift == UNCHANGED <<raised, lowered>>

(***************************************************************************)
(* A mutating call.  The upstream service either refuses it or carries it  *)
(* out; a call may also fail on the way out ("fail") or be carried out and *)
(* lose its answer ("late"), and the program sees the same error for both. *)
(***************************************************************************)
Answers(accepts) == IF accepts THEN {"ok", "late", "fail"} ELSE {"refused"}
Applied(a) == a \in {"ok", "late"}
Costs(a) == IF a \in {"late", "fail"} THEN Fault ELSE NoFault
Tries(r, o) == tried' = tried \cup {[by |-> r, step |-> req[r].stage, obj |-> o]}

\* The call of r's stage, about o, is answered a; its audit entry comes next.
Answered(r, a, o) ==
    /\ Costs(a)
    /\ Become(r, [req[r] EXCEPT !.res = IF a = "ok" THEN "ok" ELSE "err", !.obj = o])
    /\ Tries(r, o)
    /\ UNCHANGED audit

-----------------------------------------------------------------------------
(***************************************************************************)
(* What follows a stage.                                                   *)
(***************************************************************************)
AfterSessions(q) ==
    CASE q.todo # {}          -> "finish"
      [] q.kind = "disable"   -> "disable"
      [] q.kind = "offboard"  -> "logout"
      [] OTHER                -> "end"

AfterRoom(q) ==
    CASE q.near # {} -> "visit"
      [] q.near = {} /\ q.todo # {} -> "expand"
      [] OTHER       -> "find"

\* Mutant: an account that was active is taken for a deactivated one.
AfterGrantsMistaken(q) ==
    CASE q.todo # {} -> "grant"
      [] q.todo = {} /\ q.found = "active" -> "reactivate"
      [] OTHER       -> "email"

AfterGrants(q) ==
    CASE q.todo # {} -> "grant"
      [] q.todo = {} /\ q.found = "deactivated" -> "reactivate"
      [] OTHER       -> "email"

\* Mutant: the loop never moves on.
FinishedNever(q) == q

\* The loop over the listed sessions moves on.
FinishedOnce(q) == [q EXCEPT !.todo = @ \ {q.obj}]

\* q once the call of its stage and the audit entry for it are behind it.
Proceed(q) ==
    CASE q.stage = "finish" ->
           [FinishedOnce(q) EXCEPT !.stage = AfterSessions(FinishedOnce(q))]
      [] q.stage = "disable" /\ q.kind = "offboard" ->
           [q EXCEPT !.stage = IF HasSynapse /\ Bound # {} THEN "expand" ELSE "find",
                     !.todo = IF HasSynapse THEN Bound ELSE {},
                     !.warn = @ \/ (~HasSynapse /\ Bound # {})]
      [] q.stage = "kick"       -> [q EXCEPT !.stage = AfterRoom(q)]
      [] q.stage = "enable"     -> [q EXCEPT !.stage = "find"]
      [] q.stage = "logout" /\ q.kind = "offboard"   -> [q EXCEPT !.stage = "disable"]
      [] q.stage = "deactivate" /\ q.kind = "delete" -> [q EXCEPT !.stage = "remove"]
      [] q.stage = "reactivate" /\ q.kind = "invite" -> [q EXCEPT !.stage = "email"]
      [] OTHER                  -> [q EXCEPT !.stage = "end"]

\* Mutant: a delete goes on when MAS would not deactivate the account.
WarnOnlyDelete(q) ==
    <<q.kind, q.stage>> \in {<<"disable", "finish">>, <<"offboard", "finish">>,
        <<"offboard", "logout">>, <<"offboard", "kick">>, <<"reactivate", "reactivate">>,
        <<"delete", "deactivate">>}

\* Steps whose failure, and whose lost audit entry, only add a warning.
WarnOnly(q) ==
    <<q.kind, q.stage>> \in {<<"disable", "finish">>, <<"offboard", "finish">>,
        <<"offboard", "logout">>, <<"offboard", "kick">>, <<"reactivate", "reactivate">>}

\* Mutants: the workflow's name for the action; always a success; about nothing.
EntryOfWorkflow(r, q) ==
    [by |-> r, step |-> q.kind, obj |-> q.obj, ok |-> q.res = "ok", given |-> {}]
EntrySuccess(r, q) ==
    [by |-> r, step |-> q.stage, obj |-> q.obj, ok |-> TRUE,
     given |-> IF q.stage = "email" THEN q.given ELSE {}]
EntryVague(r, q) ==
    [by |-> r, step |-> q.stage, obj |-> None, ok |-> q.res = "ok",
     given |-> IF q.stage = "email" THEN q.given ELSE {}]

Entry(r, q) ==
    [by |-> r, step |-> q.stage, obj |-> q.obj, ok |-> q.res = "ok",
     given |-> IF q.stage = "email" THEN q.given ELSE {}]

\* A delete that could not remove the user after it had dealt with MAS.
PartlyDone(q) == q.stage = "remove" /\ q.found \in Known

\* The insert into audit_logs that follows a call, and what the workflow
\* makes of its success and of the call's.
Audit(r) ==
    LET q == req[r] IN
    /\ q.res # "none" /\ q.out = "none"
    /\ \E logged \in BOOLEAN :
         /\ IF logged THEN NoFault ELSE Fault
         /\ audit' = IF logged THEN audit \cup {Entry(r, q)} ELSE audit
         /\ LET ok == logged /\ q.res = "ok"
                p  == [q EXCEPT !.lost = @ \/ ~logged]
            IN  \/ /\ ok \/ WarnOnly(q)
                   /\ Become(r, Settle([Proceed(p) EXCEPT !.res = "none", !.warn = @ \/ ~ok]))
                \/ /\ ~ok /\ ~WarnOnly(q)
                   /\ Become(r, [p EXCEPT !.out = IF logged /\ PartlyDone(q) THEN "partial"
                                                                           ELSE "err"])
    /\ UNCHANGED <<upstream, history>>

-----------------------------------------------------------------------------
(***************************************************************************)
(* The handlers: an admin, or for an invite the bot, submits a request.    *)
(***************************************************************************)
Of(k, i, s) == [Idle EXCEPT !.kind = k, !.id = i, !.stage = s]

\* The ids an admin can have come by.
Seen == {i \in Ids : kc[i] # "absent"}

SubmitDisable(r) == \E i \in Seen : NoFault /\ Become(r, Of("disable", i, "get_user"))

\* The bindings are read first; without them nothing is done.
SubmitOffboard(r) ==
    \E i \in Seen :
       \/ NoFault /\ Become(r, Of("offboard", i, "get_user"))
       \/ Fault /\ Become(r, [Of("offboard", i, "get_user") EXCEPT !.out = "err"])

SubmitReactivate(r) == \E i \in Seen : NoFault /\ Become(r, Of("reactivate", i, "get_user"))
SubmitDelete(r) == \E i \in Seen : NoFault /\ Become(r, Of("delete", i, "get_user"))
SubmitLogout(r) == \E i \in Seen : NoFault /\ Become(r, Of("logout", i, "logout"))

SubmitRevoke(r) ==
    \E s \in Sessions :
       /\ sess[s] # "unused"
       /\ NoFault /\ Become(r, [Of("revoke", None, "finish") EXCEPT !.todo = {s}])

\* An address that is malformed or of another domain, or a template that is not
\* there, is refused at once.
SubmitInvite(r) ==
    /\ NoFault
    /\ \/ Become(r, Of("invite", None, "check"))
       \/ Become(r, [Of("invite", None, "check") EXCEPT !.out = "err"])

Start(r) ==
    /\ req[r].kind = "none"
    /\ \/ "disable" \in Kinds[r] /\ SubmitDisable(r)
       \/ "offboard" \in Kinds[r] /\ SubmitOffboard(r)
       \/ "reactivate" \in Kinds[r] /\ SubmitReactivate(r)
       \/ "delete" \in Kinds[r] /\ SubmitDelete(r)
       \/ "logout" \in Kinds[r] /\ SubmitLogout(r)
       \/ "revoke" \in Kinds[r] /\ SubmitRevoke(r)
       \/ "invite" \in Kinds[r] /\ SubmitInvite(r)
    /\ UNCHANGED <<upstream, audit, history>>

\* The future is dropped at the await it is suspended on.
Cut(r) ==
    /\ req[r].kind # "none" /\ req[r].out = "none"
    /\ Abort(r, "cut")
    /\ UNCHANGED <<upstream, audit, history, faults>>

(***************************************************************************)
(* Reads.  Their answers decide where the workflow goes; none is audited.  *)
(***************************************************************************)
GetUser(r) ==
    /\ At(r, "get_user")
    /\ \/ /\ kc[req[r].id] \in Live /\ NoFault
          /\ GoTo(r, CASE req[r].kind \in {"disable", "offboard"} -> "find_sessions"
                       [] req[r].kind = "reactivate" -> "enable"
                       [] OTHER -> "find", FALSE)
       \/ kc[req[r].id] \notin Live /\ NoFault /\ Abort(r, "err")
       \/ Fault /\ Abort(r, "err")
    /\ UNCHANGED <<upstream, audit, history>>

FindSessions(r) ==
    /\ At(r, "find_sessions")
    /\ \/ mas # "none" /\ NoFault /\ GoTo(r, "list_sessions", FALSE)
       \/ mas = "none" /\ NoFault /\ GoTo(r, AfterSessions(req[r]), FALSE)
       \/ Fault /\ GoTo(r, AfterSessions(req[r]), TRUE)
    /\ UNCHANGED <<upstream, audit, history>>

\* One page of the active sessions of family f, in an order MAS chooses.
Listing(f) ==
    {S \in SUBSET (f \cap ActiveSessions) :
        Cardinality(S) = Page \/ (Cardinality(S) < Page /\ S = f \cap ActiveSessions)}

\* Both families are fetched concurrently; one that fails is only a warning.
ListSessions(r) ==
    /\ At(r, "list_sessions")
    /\ \E C \in Listing(Compat), O \in Listing(OAuth2), lost \in SUBSET {"compat", "oauth2"} :
         LET p == [req[r] EXCEPT
                     !.todo = (IF "compat" \in lost THEN {} ELSE C)
                              \cup (IF "oauth2" \in lost THEN {} ELSE O),
                     !.warn = @ \/ lost # {}]
         IN  /\ faults + Cardinality(lost) <= MaxFaults
             /\ faults' = faults + Cardinality(lost)
             /\ Become(r, [p EXCEPT !.stage = AfterSessions(p)])
    /\ UNCHANGED <<upstream, audit, history>>

\* Mutants: a delete forgets the MAS account; a reactivation the deactivated one.
AfterFindForgetful(q, f) ==
    CASE q.kind = "delete"     -> "remove"
      [] q.kind = "offboard"   -> IF f \in Known THEN "deactivate" ELSE "end"
      [] q.kind = "reactivate" -> IF f = "deactivated" THEN "reactivate" ELSE "end"
      [] OTHER                 -> "create"
AfterFindMistaken(q, f) ==
    CASE q.kind = "delete"     -> IF f \in Known THEN "deactivate" ELSE "remove"
      [] q.kind = "offboard"   -> IF f \in Known THEN "deactivate" ELSE "end"
      [] q.kind = "reactivate" -> IF f = "active" THEN "reactivate" ELSE "end"
      [] OTHER                 -> "create"

AfterFind(q, f) ==
    CASE q.kind = "delete"     -> IF f \in Known THEN "deactivate" ELSE "remove"
      [] q.kind = "offboard"   -> IF f \in Known THEN "deactivate" ELSE "end"
      [] q.kind = "reactivate" -> IF f = "deactivated" THEN "reactivate" ELSE "end"
      [] OTHER                 -> "create"

\* Mutant: a failed lookup passes for an account that is not there.
LookupWarnsNever(q) == FALSE

\* A failed lookup is a warning, but an invite has nowhere to report one.
LookupWarns(q) == q.kind # "invite"

\* mas.get_user_by_username
Find(r) ==
    LET learns(f) ==
          Become(r, Settle([req[r] EXCEPT
                      !.found = f,
                      !.stage = AfterFind(req[r], f),
                      !.warn = @ \/ (f = "unknown" /\ LookupWarns(req[r]))]))
    IN  /\ At(r, "find")
        /\ \/ NoFault /\ learns(mas)
           \/ Fault /\ learns("unknown")
        /\ UNCHANGED <<upstream, audit, history>>

GetSpaceChildren(r) ==
    /\ At(r, "expand")
    /\ \E b \in req[r].todo \cap Rooms :
         LET opened(near, w) ==
               Become(r, [req[r] EXCEPT !.stage = "visit", !.root = b, !.near = near,
                                        !.todo = @ \ {b}, !.warn = @ \/ w])
         IN  \/ NoFault /\ opened({b} \cup Children[b], FALSE)
             \/ Fault /\ opened({b}, TRUE)
    /\ UNCHANGED <<upstream, audit, history>>

\* Children first, the space itself last.
GetJoinedRoomMembers(r) ==
    /\ At(r, "visit")
    /\ \E t \in req[r].near :
         LET p == [req[r] EXCEPT !.near = @ \ {t}, !.obj = t]
         IN  /\ t = req[r].root => req[r].near = {t}
             /\ \/ t \in rooms /\ NoFault /\ Become(r, [p EXCEPT !.stage = "kick"])
                \/ t \notin rooms /\ NoFault /\ Become(r, [p EXCEPT !.stage = AfterRoom(p)])
                \/ Fault /\ Become(r, [p EXCEPT !.stage = AfterRoom(p), !.warn = TRUE])
    /\ UNCHANGED <<upstream, audit, history>>

GetUserByEmail(r) ==
    /\ At(r, "check")
    /\ \/ (\A i \in Ids : kc[i] \notin Live) /\ NoFault /\ GoTo(r, "find", FALSE)
       \/ (\E i \in Ids : kc[i] \in Live) /\ NoFault /\ Abort(r, "err")
       \/ Fault /\ Abort(r, "err")
    /\ UNCHANGED <<upstream, audit, history>>

-----------------------------------------------------------------------------
(***************************************************************************)
(* Mutating calls.                                                         *)
(***************************************************************************)
\* MAS refuses to finish a session that has already ended.
FinishSession(r) ==
    /\ At(r, "finish")
    /\ \E s \in req[r].todo \cap Sessions : \E a \in Answers(sess[s] = "active") :
         /\ Answered(r, a, s)
         /\ sess' = IF Applied(a) THEN [sess EXCEPT ![s] = "finished"] ELSE sess
    /\ NoShift /\ UNCHANGED <<kc, sso, grants, mas, rooms>>

LogoutUser(r) ==
    /\ At(r, "logout")
    /\ \E a \in Answers(kc[req[r].id] \in Live) :
         /\ Answered(r, a, None)
         /\ sso' = (sso /\ ~Applied(a))
    /\ NoShift /\ UNCHANGED <<kc, grants, mas, sess, rooms>>

DisableUser(r) ==
    /\ At(r, "disable")
    /\ \E a \in Answers(kc[req[r].id] \in Live) :
         /\ Answered(r, a, None)
         /\ kc' = IF Applied(a) THEN [kc EXCEPT ![req[r].id] = "disabled"] ELSE kc
         /\ IF Applied(a) THEN Lower(r) ELSE NoShift
    /\ UNCHANGED <<sso, grants, mas, sess, rooms>>

EnableUser(r) ==
    /\ At(r, "enable")
    /\ \E a \in Answers(kc[req[r].id] \in Live) :
         /\ Answered(r, a, None)
         /\ kc' = IF Applied(a) THEN [kc EXCEPT ![req[r].id] = "enabled"] ELSE kc
         /\ IF Applied(a) THEN Raise(r) ELSE NoShift
    /\ UNCHANGED <<sso, grants, mas, sess, rooms>>

\* Deleting a Keycloak user ends its single sign-on session and its grants.
DeleteUser(r) ==
    /\ At(r, "remove")
    /\ \E a \in Answers(kc[req[r].id] \in Live) :
         /\ Answered(r, a, None)
         /\ kc' = IF Applied(a) THEN [kc EXCEPT ![req[r].id] = "gone"] ELSE kc
         /\ sso' = (sso /\ ~Applied(a))
         /\ grants' = IF Applied(a) THEN {} ELSE grants
         /\ IF Applied(a) THEN Lower(r) ELSE NoShift
    /\ UNCHANGED <<mas, sess, rooms>>

\* MAS locks the account and ends all its sessions; there is no hard delete.
DeactivateUser(r) ==
    /\ At(r, "deactivate")
    /\ \E a \in Answers(mas # "none") :
         /\ Answered(r, a, None)
         /\ mas' = IF Applied(a) THEN "deactivated" ELSE mas
         /\ sess' = [s \in Sessions |->
                       IF Applied(a) /\ sess[s] = "active" THEN "finished" ELSE sess[s]]
         /\ IF Applied(a) THEN Lower(r) ELSE NoShift
    /\ UNCHANGED <<kc, sso, grants, rooms>>

ReactivateUser(r) ==
    /\ At(r, "reactivate")
    /\ \E a \in Answers(mas # "none") :
         /\ Answered(r, a, None)
         /\ mas' = IF Applied(a) THEN "active" ELSE mas
         /\ IF Applied(a) THEN Raise(r) ELSE NoShift
    /\ UNCHANGED <<kc, sso, grants, sess, rooms>>

KickUser(r) ==
    /\ At(r, "kick")
    /\ \E a \in Answers(req[r].obj \in rooms) :
         /\ Answered(r, a, req[r].obj)
         /\ rooms' = IF Applied(a) THEN rooms \ {req[r].obj} ELSE rooms
    /\ NoShift /\ UNCHANGED <<kc, sso, grants, mas, sess>>

\* Not audited: an error here ends the invite at once, and a lost answer
\* leaves a user behind whose id the program never learnt.
CreateUser(r) ==
    /\ At(r, "create")
    /\ \E i \in {j \in Ids : kc[j] = "absent"},
          a \in Answers(\A j \in Ids : kc[j] \notin Live) :
         LET p == [req[r] EXCEPT !.id = i, !.todo = Grants] IN
         /\ Costs(a)
         /\ Tries(r, None)
         /\ Become(r, IF a = "ok" THEN [p EXCEPT !.stage = AfterGrants(p)]
                                  ELSE [req[r] EXCEPT !.out = "err"])
         /\ kc' = IF Applied(a) THEN [kc EXCEPT ![i] = "enabled"] ELSE kc
         /\ IF Applied(a) THEN Raise(r) ELSE NoShift
    /\ UNCHANGED <<sso, grants, mas, sess, rooms, audit>>

\* add_user_to_group and assign_realm_roles.  A failure is only remembered for
\* the metadata of the invite's entry; so is a name that is unknown, or whose
\* listing failed, for which no call is made ("skipped").
AddGrant(r) ==
    /\ At(r, "grant")
    /\ \E g \in req[r].todo \cap Grants, a \in Answers(kc[req[r].id] \in Live) \cup {"skipped"} :
         LET p == [req[r] EXCEPT !.todo = @ \ {g},
                                 !.given = IF a = "ok" THEN @ \cup {g} ELSE @]
         IN  /\ Costs(a)
             /\ IF a = "skipped" THEN UNCHANGED tried ELSE Tries(r, None)
             /\ Become(r, [p EXCEPT !.stage = AfterGrants(p)])
             /\ grants' = IF Applied(a) THEN grants \cup {g} ELSE grants
    /\ NoShift /\ UNCHANGED <<kc, sso, mas, sess, rooms, audit>>

\* Keycloak mails nobody who is disabled or gone.
SendInviteEmail(r) ==
    /\ At(r, "email")
    /\ \E a \in Answers(kc[req[r].id] = "enabled") : Answered(r, a, None)
    /\ NoShift /\ UNCHANGED upstream

-----------------------------------------------------------------------------
(***************************************************************************)
(* The person.  Keycloak authenticates only enabled users, MAS creates the *)
(* account at the first login and grants a deactivated one nothing, and    *)
(* Synapse accepts a token only while MAS and Keycloak back it.            *)
(***************************************************************************)
Login(s) ==
    /\ Enabled /\ mas # "deactivated" /\ sess[s] = "unused"
    /\ mas' = "active"
    /\ sess' = [sess EXCEPT ![s] = "active"]
    /\ sso' = TRUE
    /\ UNCHANGED <<kc, grants, rooms, req, audit, history, faults>>

Join(t) ==
    /\ Enabled /\ ActiveSessions # {} /\ t \notin rooms
    /\ rooms' = rooms \cup {t}
    /\ UNCHANGED <<kc, sso, grants, mas, sess, req, audit, history, faults>>

-----------------------------------------------------------------------------
Read(r) ==
    \/ GetUser(r) \/ FindSessions(r) \/ ListSessions(r) \/ Find(r)
    \/ GetSpaceChildren(r) \/ GetJoinedRoomMembers(r) \/ GetUserByEmail(r)

Mutate(r) ==
    \/ FinishSession(r) \/ LogoutUser(r) \/ DisableUser(r) \/ EnableUser(r)
    \/ DeleteUser(r) \/ DeactivateUser(r) \/ ReactivateUser(r) \/ KickUser(r)
    \/ CreateUser(r) \/ AddGrant(r) \/ SendInviteEmail(r)

Step(r) == Read(r) \/ Mutate(r) \/ Audit(r)

Program == \E r \in Req : Start(r) \/ Cut(r) \/ Step(r)
Person == (\E s \in Sessions : Login(s)) \/ (\E t \in Rooms : Join(t))

Next == Program \/ Person

Spec == Init /\ [][Next]_vars

\* Every await of the program is bounded: the HTTP clients time out after 10 s,
\* the pool hands SQLite out in turn, and the runtime polls every ready future.
FairSpec == Spec /\ \A r \in Req : WF_vars(Step(r))

-----------------------------------------------------------------------------
(***************************************************************************)
(* Properties.                                                             *)
(***************************************************************************)
Call == [by : Req, step : Stage, obj : Object]
AuditEntry == [by : Req, step : Stage, obj : Object, ok : BOOLEAN, given : SUBSET Grants]

\* The type invariant: every variable, and every field of a request, in range.
TypeOK ==
    /\ kc \in [Ids -> {"absent", "enabled", "disabled", "gone"}]
    /\ sso \in BOOLEAN
    /\ grants \subseteq Grants
    /\ mas \in {"none"} \cup Known
    /\ sess \in [Sessions -> {"unused", "active", "finished"}]
    /\ rooms \subseteq Rooms
    /\ req \in [Req -> Request]
    /\ audit \subseteq AuditEntry
    /\ tried \subseteq Call
    /\ raised \subseteq Req /\ lowered \subseteq Req
    /\ faults \in 0..MaxFaults

\* An offboarding that returns without a warning has taken every access away,
\* whatever the person did meanwhile, unless another request gave access back
\* since it started: no enabled Keycloak user, no MAS account that could log
\* in, no session, no mapped room (offboard_user).
CleanOffboard ==
    \A r \in Req \ raised :
        req[r].kind = "offboard" /\ req[r].out = "ok" =>
            /\ ~Enabled
            /\ mas # "active"
            /\ ActiveSessions = {}
            /\ rooms \cap Mapped = {}

\* A reactivation that returns without a warning leaves an account the person
\* can log in with, unless another request took access since (reactivate_user).
CleanReactivate ==
    \A r \in Req \ lowered :
        req[r].kind = "reactivate" /\ req[r].out = "ok" =>
            kc[req[r].id] = "enabled" /\ mas # "deactivated"

\* A delete that found a MAS account and got past deactivating it leaves
\* nothing that can log in, and keeps the Keycloak record for a retry if it
\* could not remove it: also when only partly done (delete_user).
DeleteClosesAuth ==
    \A r \in Req \ raised :
        /\ req[r].kind = "delete" /\ req[r].found \in Known
        /\ req[r].out \in {"ok", "warned", "partial"}
        => mas # "active" /\ ActiveSessions = {}

\* An invite that learnt the state of the MAS account and succeeds leaves an enabled
\* Keycloak user and no deactivated MAS account, whatever the account was before,
\* unless another request took access since (invite_user, its reactivation).  That is
\* what the code does, its tests expect and the form of the dashboard promises; the
\* comment at clients/mas.rs:243-244 denies it ("cannot be re-invited until the record
\* is removed directly from the MAS database").  An invite whose lookup failed is
\* excepted: it succeeds and leaves a deactivated account as it is, against
\* templates/dashboard.html:59 ("it will be reactivated").
ReinviteUsable ==
    \A r \in Req \ lowered :
        req[r].kind = "invite" /\ req[r].out = "ok" /\ req[r].found # "unknown" =>
            kc[req[r].id] = "enabled" /\ mas # "deactivated"

Effect(e) ==
    CASE e.step = "finish"     -> sess[e.obj] = "finished"
      [] e.step = "disable"    -> kc[req[e.by].id] # "enabled"
      [] e.step = "enable"     -> kc[req[e.by].id] = "enabled"
      [] e.step = "remove"     -> kc[req[e.by].id] = "gone"
      [] e.step = "deactivate" -> mas = "deactivated" /\ ActiveSessions = {}
      [] e.step = "reactivate" -> mas # "deactivated"
      [] e.step = "kick"       -> e.obj \notin rooms
      [] e.step = "email"      -> e.given \subseteq grants
      [] OTHER                 -> TRUE

\* What the audit log says was done stays done: the effect of every call with a
\* success entry holds, through logins, joins, failures and requests of other
\* admins, until another request moves the person's access the other way.
SuccessEntriesHold ==
    \A e \in audit : e.ok /\ e.by \notin raised \cup lowered => Effect(e)

Logged(t) ==
    \E e \in audit : /\ e.by = t.by
                     /\ \/ e.step = t.step /\ e.obj = t.obj
                        \/ e.step = "email" /\ t.step \in {"create", "grant"}

\* Unless the audit store refused an insert, the only calls of a request with no
\* audit entry are the one it was suspended after and, in an invite that has not
\* come to its mail, the creation of the user and its grants.  For these calls
\* README.md:371 does not hold ("Every mutation writes an audit log entry (including
\* failures)"): an invite that ends in an error at its first call leaves none.
AuditTrail ==
    \A t \in tried :
        \/ Logged(t)
        \/ req[t.by].lost
        \/ req[t.by].res # "none" /\ t.step = req[t.by].stage /\ t.obj = req[t.by].obj
        \/ t.step \in {"create", "grant"} /\ req[t.by].out # "ok"

\* The Keycloak record of a person whose MAS account the delete knew of goes
\* away only after the deactivation of that account was carried out and audited.
RemovedAfterLocked ==
    [][\A r \in Req :
         DeleteUser(r) /\ req[r].found \in Known =>
             \E e \in audit : e.by = r /\ e.step = "deactivate" /\ e.ok]_vars

\* Every request comes back to the admin, however often the person logs in
\* meanwhile: the loops over sessions and rooms run over what was listed.
Finishes == \A r \in Req : req[r].kind # "none" ~> req[r].out # "none"
=============================================================================
