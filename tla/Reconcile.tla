----------------------------- MODULE Reconcile -----------------------------
(***************************************************************************)
(* Room membership reconciliation: services/reconcile_membership.rs run    *)
(* for one user, previewed for one user, or run for every user             *)
(* (handlers/reconcile.rs, handlers/bulk_reconcile.rs), over the policy    *)
(* bindings (db/policy.rs) and the rooms of Synapse (clients/synapse.rs).  *)
(*                                                                         *)
(* As in module Lifecycle every exchange with an upstream service or with  *)
(* the database is one step, concurrent jobs interleave there, and a job   *)
(* can be dropped there.  People change groups, roles, rooms and status    *)
(* meanwhile.                                                              *)
(***************************************************************************)
EXTENDS Naturals, Sequences, FiniteSets, Filter

CONSTANTS
    Jobs,       \* reconciliations an admin may start, each at most once
    Kinds,      \* Kinds[j]: what job j may be
    Order,      \* the users of Keycloak, in the order it lists them
    PageSize,   \* users of one page of the listing
    Limit,      \* users a bulk run accepts at most
    Rooms,      \* rooms and spaces of Synapse
    Children,   \* Children[r]: rooms inside space r
    None,       \* no person, no room, no level
    Groups,     \* Keycloak groups
    Roles,      \* Keycloak realm roles
    Levels,     \* power levels, 0 being the default
    Tables,     \* contents policy_bindings may have, in the order it is listed
    Statuses,   \* bound: what users may be to begin with, enabled or disabled
    Changes,    \* bound: what others may change while the jobs run
    MaxStirs,   \* bound: how often they do
    MaxFaults   \* bound: calls that may fail or lose their answer

Kind == {"one", "preview", "all"}
People == {Order[n] : n \in DOMAIN Order}
Subjects == Groups \cup Roles
Binding == [subject : Subjects, root : Rooms, remove : BOOLEAN, level : Levels \cup {None}]

ASSUME KindsAssumption == Kinds \in [Jobs -> SUBSET Kind]
ASSUME OrderAssumption ==
    /\ Order \in Seq({Order[n] : n \in DOMAIN Order})
    /\ \A m, n \in DOMAIN Order : Order[m] = Order[n] => m = n
ASSUME RoomsAssumption ==
    Children \in [Rooms -> SUBSET Rooms] /\ \A r \in Rooms : r \notin Children[r]
ASSUME TablesAssumption == Tables \subseteq Seq(Binding)
ASSUME NumbersAssumption ==
    /\ PageSize \in Nat \ {0} /\ Limit \in Nat /\ 0 \in Levels
    /\ MaxFaults \in Nat /\ MaxStirs \in Nat
ASSUME NoneAssumption == None \notin People \cup Rooms \cup Levels \cup Jobs
ASSUME ChangesAssumption ==
    /\ Statuses \subseteq {"enabled", "disabled"}
    /\ Changes \subseteq {"rooms", "subjects", "status", "users"}

VARIABLES
    table,    \* policy_bindings: unique in subject and room, as it is listed
    kc,       \* Keycloak: status of every user
    holds,    \* Keycloak: groups and roles of every user
    member,   \* Synapse: who is joined to a room
    power,    \* Synapse: users' levels in the power_levels event of a room
    jobs,     \* the jobs and how far each has come
    audit,    \* the audit_logs table
    \* history, never read by a guard of the program
    made,     \* calls made that change Synapse
    moved,    \* moved[j]: who entered or left which room by other hands since j began
    changed,  \* changed[j]: whose user record or subjects changed since j began
    stirs,    \* changes made by others so far
    faults    \* calls that failed or lost their answer so far

upstream == <<kc, holds, member, power>>
history == <<made, moved, changed>>
vars == <<table, upstream, jobs, audit, history, stirs, faults>>

-----------------------------------------------------------------------------
(***************************************************************************)
(* Jobs.  A stage is the call the job is about to make or, once res holds  *)
(* the answer, the audit entry it is about to write for it.                *)
(***************************************************************************)
Stage == {"idle", "count", "page", "get_user", "groups", "roles", "bindings",
          "expand", "members", "join", "kick", "levels", "power", "end"}

Action == [act : {"join", "kick", "keep"}, room : Rooms, i : Nat]

Job ==
    [kind  : Kind \cup {"none"},
     stage : Stage,
     first : Nat,                     \* offset of the next page
     full  : BOOLEAN,                 \* the last page was a full one
     queue : Seq(People),             \* enabled users of the page still to come
     who   : People \cup {None},      \* user being reconciled
     subj  : SUBSET Subjects,         \* groups and roles read for that user
     i     : Nat,                     \* binding being worked on
     near  : SUBSET Rooms,            \* rooms of its target still to visit
     room  : Rooms \cup {None},       \* room being worked on
     res   : {"none", "ok", "err"},   \* answer still to be audited
     read  : [People -> Levels],      \* power levels read
     plan  : SUBSET Action,           \* what a preview shows
     done  : SUBSET People,           \* users processed
     warned : SUBSET People,          \* users there is a warning about
     blind : SUBSET People,           \* users whose roles could not be read
     lost  : BOOLEAN,                 \* some audit insert failed
     out   : {"none", "ok", "warned", "err", "cut"}]

NoLevels == [p \in People |-> 0]

Idle ==
    [kind |-> "none", stage |-> "idle", first |-> 0, full |-> FALSE, queue |-> <<>>,
     who |-> None, subj |-> {}, i |-> 0, near |-> {}, room |-> None, res |-> "none",
     read |-> NoLevels, plan |-> {}, done |-> {}, warned |-> {}, blind |-> {},
     lost |-> FALSE, out |-> "none"]

Init ==
    /\ table \in Tables
    /\ kc \in [People -> Statuses]
    /\ holds \in [People -> SUBSET Subjects]
    /\ member \in [Rooms -> SUBSET People]
    /\ power = [r \in Rooms |-> NoLevels]
    /\ jobs = [j \in Jobs |-> Idle]
    /\ audit = {} /\ made = {}
    /\ moved = [j \in Jobs |-> {}] /\ changed = [j \in Jobs |-> {}]
    /\ stirs = 0 /\ faults = 0

Fault == faults < MaxFaults /\ faults' = faults + 1
NoFault == UNCHANGED faults

At(j, s) == jobs[j].stage = s /\ jobs[j].res = "none" /\ jobs[j].out = "none"
Become(j, q) == jobs' = [jobs EXCEPT ![j] = q]
Abort(j, o) == Become(j, [jobs[j] EXCEPT !.out = o])

\* A mutating call is carried out ("ok", "late") or not ("refused", "fail");
\* the program sees the same error for all but the first.
Answers(accepts) == IF accepts THEN {"ok", "late", "fail"} ELSE {"refused"}
Applied(a) == a \in {"ok", "late"}
Costs(a) == IF a \in {"late", "fail"} THEN Fault ELSE NoFault

Running(k) == jobs[k].kind # "none"
\* Person p entered or left room r, by the hands of job j if there is one.
Moves(j, p, r) ==
    moved' = [k \in Jobs |-> IF k # j /\ Running(k) THEN moved[k] \cup {<<p, r>>} ELSE moved[k]]
Shifts(p) ==
    changed' = [k \in Jobs |-> IF Running(k) THEN changed[k] \cup {p} ELSE changed[k]]

-----------------------------------------------------------------------------
(***************************************************************************)
(* Bindings and the loops over them.                                       *)
(***************************************************************************)
Targets(b) == {b.root} \cup Children[b.root]
\* Mutant: only groups are looked at.
MatchesGroup(q) == table[q.i].subject \in q.subj \cap Groups

Matches(q) == table[q.i].subject \in q.subj
Warned(q) == [q EXCEPT !.warned = @ \cup {q.who}]

\* Mutants: nobody is ever kicked; everybody without the subject is.
VisitsToJoin(q) == q.kind = "preview" \/ Matches(q)
VisitsAlways(q) == TRUE

\* The rooms a job visits for its binding; a preview looks at all of them.
Visits(q) == q.kind = "preview" \/ Matches(q) \/ table[q.i].remove

\* Joins and previews go space first, kicks go space last.
InTurn(q, t) ==
    LET root == table[q.i].root IN
    IF q.kind = "preview" \/ Matches(q) THEN root \in q.near => t = root
                                        ELSE t = root => q.near = {root}

Ended(q) == [q EXCEPT !.stage = "end", !.out = IF q.warned = {} THEN "ok" ELSE "warned"]

\* Mutants: a bulk run stops after a page; it goes on past the last one.
NextUserOfPage(q) ==
    IF q.queue # <<>> THEN [q EXCEPT !.who = Head(q.queue), !.queue = Tail(q.queue),
                                     !.stage = "groups", !.subj = {}]
                      ELSE Ended(q)
NextUserEver(q) ==
    IF q.queue # <<>> THEN [q EXCEPT !.who = Head(q.queue), !.queue = Tail(q.queue),
                                     !.stage = "groups", !.subj = {}]
                      ELSE [q EXCEPT !.stage = "page", !.who = None]

\* Past the last user of a page comes the next page, unless it was a short one.
NextUser(q) ==
    CASE q.queue # <<>> -> [q EXCEPT !.who = Head(q.queue), !.queue = Tail(q.queue),
                                     !.stage = "groups", !.subj = {}]
      [] q.queue = <<>> /\ q.full -> [q EXCEPT !.stage = "page", !.who = None]
      [] OTHER -> Ended(q)

EndUser(q) ==
    LET p == [q EXCEPT !.done = @ \cup {q.who}, !.i = 0]
    IN  IF q.kind = "all" THEN NextUser(p) ELSE Ended(p)

NextBinding(q) ==
    IF q.i < Len(table) THEN [q EXCEPT !.i = @ + 1, !.stage = "expand"] ELSE EndUser(q)

NextRoom(q) ==
    LET p == [q EXCEPT !.room = None, !.res = "none"]
    IN  IF q.near # {} THEN [p EXCEPT !.stage = "members"] ELSE NextBinding(p)

-----------------------------------------------------------------------------
(***************************************************************************)
(* The handlers and their reads.                                           *)
(***************************************************************************)
ForUser(k, p) == [Idle EXCEPT !.kind = k, !.stage = "get_user", !.who = p]

SubmitReconcile(j) == \E p \in People : kc[p] # "gone" /\ Become(j, ForUser("one", p))
SubmitPreview(j) == \E p \in People : kc[p] # "gone" /\ Become(j, ForUser("preview", p))
SubmitBulk(j) == Become(j, [Idle EXCEPT !.kind = "all", !.stage = "count"])

Start(j) ==
    /\ jobs[j].kind = "none"
    /\ \/ "one" \in Kinds[j] /\ SubmitReconcile(j)
       \/ "preview" \in Kinds[j] /\ SubmitPreview(j)
       \/ "all" \in Kinds[j] /\ SubmitBulk(j)
    /\ UNCHANGED <<table, upstream, audit, history, stirs, faults>>

\* The future is dropped at the await it is suspended on.
Cut(j) ==
    /\ jobs[j].kind # "none" /\ jobs[j].out = "none"
    /\ Abort(j, "cut")
    /\ UNCHANGED <<table, upstream, audit, history, stirs, faults>>

Quiet == UNCHANGED <<table, upstream, audit, history, stirs>>

Present(p) == kc[p] # "gone"
Listed == Filter(Order, {p \in People : Present(p)})

CountUsers(j) ==
    /\ At(j, "count")
    /\ \/ Len(Listed) <= Limit /\ NoFault /\ Become(j, [jobs[j] EXCEPT !.stage = "bindings"])
       \/ Len(Listed) > Limit /\ NoFault /\ Abort(j, "err")
       \/ Fault /\ Abort(j, "err")
    /\ Quiet

GetUser(j) ==
    /\ At(j, "get_user")
    /\ \/ kc[jobs[j].who] # "gone" /\ NoFault /\ Become(j, [jobs[j] EXCEPT !.stage = "groups"])
       \/ kc[jobs[j].who] = "gone" /\ NoFault /\ Abort(j, "err")
       \/ Fault /\ Abort(j, "err")
    /\ Quiet

\* A bulk run skips a user whose groups it cannot read, with a warning.
GetUserGroups(j) ==
    LET q == jobs[j]
        fails == IF q.kind = "all" THEN Become(j, NextUser(Warned(q))) ELSE Abort(j, "err")
    IN  /\ At(j, "groups")
        /\ \/ /\ kc[q.who] # "gone" /\ NoFault
              /\ Become(j, [q EXCEPT !.stage = "roles", !.subj = holds[q.who] \cap Groups])
           \/ kc[q.who] = "gone" /\ NoFault /\ fails
           \/ Fault /\ fails
        /\ Quiet

\* A bulk run goes on without the roles it cannot read, with a warning.
GetUserRoles(j) ==
    LET q == jobs[j]
        goesOn(p) == Become(j, IF q.kind = "all" THEN NextBinding(p)
                                                 ELSE [p EXCEPT !.stage = "bindings"])
        fails == IF q.kind = "all" THEN goesOn([Warned(q) EXCEPT !.blind = @ \cup {q.who}])
                                   ELSE Abort(j, "err")
    IN  /\ At(j, "roles")
        /\ \/ /\ kc[q.who] # "gone" /\ NoFault
              /\ goesOn([q EXCEPT !.subj = @ \cup (holds[q.who] \cap Roles)])
           \/ kc[q.who] = "gone" /\ NoFault /\ fails
           \/ Fault /\ fails
        /\ Quiet

ListBindings(j) ==
    /\ At(j, "bindings")
    /\ \/ /\ NoFault
          /\ Become(j, IF jobs[j].kind = "all" THEN [jobs[j] EXCEPT !.stage = "page"]
                                               ELSE NextBinding(jobs[j]))
       \/ Fault /\ Abort(j, "err")
    /\ Quiet

IsEnabled(p) == kc[p] = "enabled"
Smaller(m, n) == IF m < n THEN m ELSE n

\* One page of users.  Who is enabled is decided now, for the whole page.
SearchUsers(j) ==
    LET q == jobs[j]
        page == SubSeq(Listed, q.first + 1, Smaller(q.first + PageSize, Len(Listed)))
    IN  /\ At(j, "page")
        /\ \/ /\ NoFault
              /\ Become(j, NextUser([q EXCEPT !.queue = Filter(page, {p \in People : IsEnabled(p)}),
                                              !.first = @ + Len(page),
                                              !.full = Len(page) = PageSize]))
           \/ Fault /\ Abort(j, "err")
        /\ Quiet

-----------------------------------------------------------------------------
(***************************************************************************)
(* The pass over the bindings for one user.                                *)
(***************************************************************************)
\* The children are read for every binding, also one that has nothing to do.
\* If they cannot be, the space is treated as a single room.
GetSpaceChildren(j) ==
    LET q == jobs[j]
        opened(p, T) == Become(j, NextRoom([p EXCEPT !.near = IF Visits(q) THEN T ELSE {}]))
    IN  /\ At(j, "expand")
        /\ \/ NoFault /\ opened(q, Targets(table[q.i]))
           \/ Fault /\ opened(Warned(q), {table[q.i].root})
        /\ Quiet

\* Mutant: the preview forgets that a binding need not remove anybody.
ShownRemoved(q, t, in) ==
    [act |-> CASE Matches(q) /\ ~in -> "join"
               [] ~Matches(q) /\ in -> "kick"
               [] Matches(q) /\ in -> "keep"
               [] OTHER -> "none",
     room |-> t, i |-> q.i]

\* What a preview makes of finding the user in a room, or not.
Shown(q, t, in) ==
    [act |-> CASE Matches(q) /\ ~in -> "join"
               [] ~Matches(q) /\ in /\ table[q.i].remove -> "kick"
               [] Matches(q) /\ in -> "keep"
               [] OTHER -> "none",
     room |-> t, i |-> q.i]

GetJoinedRoomMembers(j) ==
    /\ At(j, "members")
    /\ \E t \in jobs[j].near :
         LET q == [jobs[j] EXCEPT !.near = @ \ {t}, !.room = t]
             in == q.who \in member[t]
             shown == Shown(q, t, in)
         IN  /\ InTurn(jobs[j], t)
             /\ \/ /\ q.kind = "preview" /\ NoFault
                   /\ Become(j, NextRoom([q EXCEPT !.plan =
                                    IF shown.act = "none" THEN @ ELSE @ \cup {shown}]))
                \/ /\ q.kind # "preview" /\ in = Matches(q) /\ NoFault
                   /\ Become(j, NextRoom(q))
                \/ /\ q.kind # "preview" /\ in # Matches(q) /\ NoFault
                   /\ Become(j, [q EXCEPT !.stage = IF Matches(q) THEN "join" ELSE "kick"])
                \/ Fault /\ Become(j, NextRoom(Warned(q)))
    /\ Quiet

Calls(j, a) ==
    /\ Costs(a)
    /\ made' = made \cup {[by |-> j, act |-> jobs[j].stage, who |-> jobs[j].who,
                           room |-> jobs[j].room, i |-> jobs[j].i]}
    /\ UNCHANGED <<table, kc, holds, audit, changed, stirs>>
Answer(a) == IF a = "ok" THEN "ok" ELSE "err"

ForceJoinUser(j) ==
    LET q == jobs[j] IN
    /\ At(j, "join")
    /\ \E a \in Answers(TRUE) :
         /\ Calls(j, a)
         /\ Become(j, [q EXCEPT !.res = Answer(a)])
         /\ IF Applied(a) /\ q.who \notin member[q.room]
              THEN member' = [member EXCEPT ![q.room] = @ \cup {q.who}] /\ Moves(j, q.who, q.room)
              ELSE UNCHANGED <<member, moved>>
    /\ UNCHANGED power

KickUser(j) ==
    LET q == jobs[j] IN
    /\ At(j, "kick")
    /\ \E a \in Answers(q.who \in member[q.room]) :
         /\ Calls(j, a)
         /\ Become(j, [q EXCEPT !.res = Answer(a)])
         /\ IF Applied(a)
              THEN member' = [member EXCEPT ![q.room] = @ \ {q.who}] /\ Moves(j, q.who, q.room)
              ELSE UNCHANGED <<member, moved>>
    /\ UNCHANGED power

\* Mutants: every entry says join; the entry names the workflow for the call.
EntryJoin(j, q) ==
    [by |-> j, act |-> "join", who |-> q.who, room |-> q.room,
     subject |-> table[q.i].subject, ok |-> q.res = "ok"]
EntryWorkflow(j, q) ==
    [by |-> j, act |-> q.kind, who |-> q.who, room |-> q.room,
     subject |-> table[q.i].subject, ok |-> q.res = "ok"]

Entry(j, q) ==
    [by |-> j, act |-> q.stage, who |-> q.who, room |-> q.room,
     subject |-> table[q.i].subject, ok |-> q.res = "ok"]

\* What follows the entry for a call: a level only for a user who was joined.
AfterEntry(q) ==
    IF q.stage = "join" /\ q.res = "ok" /\ table[q.i].level # None
      THEN [q EXCEPT !.res = "none", !.stage = "levels"]
      ELSE NextRoom(IF q.res = "ok" THEN q ELSE Warned(q))

\* An entry that cannot be written is only a warning.
Audit(j) ==
    LET q == jobs[j] IN
    /\ q.res # "none" /\ q.out = "none"
    /\ \/ /\ NoFault
          /\ audit' = audit \cup {Entry(j, q)}
          /\ Become(j, AfterEntry(q))
       \/ /\ Fault
          /\ UNCHANGED audit
          /\ Become(j, AfterEntry([Warned(q) EXCEPT !.lost = TRUE]))
    /\ UNCHANGED <<table, upstream, history, stirs>>

\* set_power_level reads the whole event ...
GetPowerLevels(j) ==
    LET q == jobs[j] IN
    /\ At(j, "levels")
    /\ \/ NoFault /\ Become(j, [q EXCEPT !.read = power[q.room], !.stage = "power"])
       \/ Fault /\ Become(j, NextRoom(Warned(q)))
    /\ Quiet

\* ... and writes it back with one level set.
WithLevel(q) == [q.read EXCEPT ![q.who] = table[q.i].level]

PutPowerLevels(j) ==
    LET q == jobs[j]
        p == [q EXCEPT !.read = NoLevels]
    IN  /\ At(j, "power")
        /\ \E a \in Answers(TRUE) :
             /\ Calls(j, a)
             /\ Become(j, NextRoom(IF a = "ok" THEN p ELSE Warned(p)))
             /\ power' = IF Applied(a)
                           THEN [power EXCEPT ![q.room] = WithLevel(q)]
                           ELSE power
        /\ UNCHANGED <<member, moved>>

-----------------------------------------------------------------------------
(***************************************************************************)
(* Everyone else: people walk in and out of rooms; other admins change     *)
(* groups and roles, disable and enable users, and delete them.            *)
(***************************************************************************)
Stir(what) == what \in Changes /\ stirs < MaxStirs /\ stirs' = stirs + 1

Walk(p, r) ==
    /\ Stir("rooms")
    /\ member' = [member EXCEPT ![r] = IF p \in @ THEN @ \ {p} ELSE @ \cup {p}]
    /\ Moves(None, p, r)
    /\ UNCHANGED <<table, kc, holds, power, jobs, audit, made, changed, faults>>

Regroup(p, s) ==
    /\ Stir("subjects") /\ kc[p] # "gone"
    /\ holds' = [holds EXCEPT ![p] = IF s \in @ THEN @ \ {s} ELSE @ \cup {s}]
    /\ Shifts(p)
    /\ UNCHANGED <<table, kc, member, power, jobs, audit, made, moved, faults>>

SetStatus(p, k) ==
    /\ kc[p] \notin {"gone", k}
    /\ Stir(IF k = "gone" THEN "users" ELSE "status")
    /\ kc' = [kc EXCEPT ![p] = k]
    /\ Shifts(p)
    /\ UNCHANGED <<table, holds, member, power, jobs, audit, made, moved, faults>>

-----------------------------------------------------------------------------
Read(j) ==
    \/ CountUsers(j) \/ GetUser(j) \/ GetUserGroups(j) \/ GetUserRoles(j) \/ ListBindings(j)
    \/ SearchUsers(j) \/ GetSpaceChildren(j) \/ GetJoinedRoomMembers(j) \/ GetPowerLevels(j)

Step(j) == Read(j) \/ ForceJoinUser(j) \/ KickUser(j) \/ Audit(j) \/ PutPowerLevels(j)

Program == \E j \in Jobs : Start(j) \/ Cut(j) \/ Step(j)

World ==
    \E p \in People :
       \/ \E r \in Rooms : Walk(p, r)
       \/ \E s \in Subjects : Regroup(p, s)
       \/ \E k \in {"enabled", "disabled", "gone"} : SetStatus(p, k)

Next == Program \/ World

Spec == Init /\ [][Next]_vars

\* Every await is bounded, as in module Lifecycle.
FairSpec == Spec /\ \A j \in Jobs : WF_vars(Step(j))

-----------------------------------------------------------------------------
(***************************************************************************)
(* Properties.                                                             *)
(***************************************************************************)
Call == [by : Jobs, act : {"join", "kick", "power"}, who : People, room : Rooms, i : Nat]
AuditEntry ==
    [by : Jobs, act : {"join", "kick"}, who : People, room : Rooms, subject : Subjects,
     ok : BOOLEAN]

\* The type invariant: every variable, and every field of a job, in range; a
\* job inside the loop over bindings has a user and a binding to work on.
TypeOK ==
    /\ table \in Tables
    /\ kc \in [People -> {"enabled", "disabled", "gone"}]
    /\ holds \in [People -> SUBSET Subjects]
    /\ member \in [Rooms -> SUBSET People]
    /\ power \in [Rooms -> [People -> Levels]]
    /\ jobs \in [Jobs -> Job]
    /\ \A j \in Jobs :
         jobs[j].stage \in {"expand", "members", "join", "kick", "levels", "power"} =>
            jobs[j].who \in People /\ jobs[j].i \in DOMAIN table
    /\ audit \subseteq AuditEntry
    /\ made \subseteq Call
    /\ moved \in [Jobs -> SUBSET (People \X Rooms)]
    /\ changed \in [Jobs -> SUBSET People]
    /\ stirs \in 0..MaxStirs /\ faults \in 0..MaxFaults

\* Bindings that say where person p belongs as to room r, and what the last of
\* them in the order of the listing says.
Claims(p, r) ==
    {n \in DOMAIN table :
        /\ r = table[n].root \/ r \in Children[table[n].root]
        /\ table[n].subject \in holds[p] \/ table[n].remove}
Says(p, n) == table[n].subject \in holds[p]
Verdict(p, r) == \E n \in Claims(p, r) : Says(p, n) /\ \A m \in Claims(p, r) : m <= n
Contested(p, r) == \E m, n \in Claims(p, r) : Says(p, m) # Says(p, n)

Cleanly(j, p) == p \in jobs[j].done \ (jobs[j].warned \cup changed[j])

\* A user processed without a warning is in exactly those of the claimed rooms
\* that the last claim puts them in, whatever failed for others and whoever else
\* was reconciled meanwhile, unless they entered or left by other hands
\* (reconcile_membership works its way through the bindings in their order).
LastClaimWins ==
    \A j \in Jobs : \A p \in People, r \in Rooms :
        /\ jobs[j].kind # "preview" /\ Cleanly(j, p)
        /\ <<p, r>> \notin moved[j] /\ Claims(p, r) # {}
        => (p \in member[r] <=> Verdict(p, r))

\* Nobody whose groups and roles stood still is kicked but under a binding that
\* allows it and whose subject they lack, nor joined but under one whose subject
\* they have; a bulk run that could not read the roles says so (binding.allow_remove).
CallsAreDue ==
    [][\A j \in Jobs :
         LET q == jobs[j] IN
         q.who \notin changed[j] \cup q.blind =>
            /\ KickUser(j) => table[q.i].remove /\ ~Says(q.who, q.i)
            /\ ForceJoinUser(j) => Says(q.who, q.i)]_vars

Logged(c) ==
    \E e \in audit : /\ e.by = c.by /\ e.act = c.act /\ e.who = c.who /\ e.room = c.room
                     /\ e.subject = table[c.i].subject

\* A call has its audit entry, or is the one its job was suspended after, or the
\* audit store refused an insert.
Trailed(c) ==
    \/ Logged(c) \/ jobs[c.by].lost
    \/ jobs[c.by].res # "none" /\ jobs[c.by].stage = c.act /\ jobs[c.by].i = c.i

\* Every join and every kick has its audit entry, though call and insert are two
\* awaits and an insert that fails is only a warning (reconcile_membership).  The third
\* call, which sets a power level, has no entry in the code, although the design of the
\* policy engine (line 186) promises "Full audit entries for all reconciliation actions
\* (join/kick/power-level)" and README.md:242 "All actions are audit-logged".
AuditTrail == \A c \in made : c.act \in {"join", "kick"} => Trailed(c)

\* A level set without a warning stays until another call sets that user's.
GrantedLevelHolds ==
    \A c \in made :
        c.act = "power" /\ c.who \in jobs[c.by].done \ jobs[c.by].warned =>
            \E d \in made : /\ d.act = "power" /\ d.who = c.who /\ d.room = c.room
                            /\ power[c.room][c.who] = table[d.i].level

Shows(j, a, r) == \E x \in jobs[j].plan : x.act = a /\ x.room = r

\* Where person p would be as to room r, going by the preview j.
Foretold(j, p, r) == Shows(j, "join", r) \/ (p \in member[r] /\ ~Shows(j, "kick", r))

\* Where no two bindings contradict each other a preview without warnings tells
\* what a run would do: the rooms entered and left, and nothing else.
PreviewAgrees ==
    \A j \in Jobs : \A p \in People, r \in Rooms :
        /\ jobs[j].kind = "preview" /\ Cleanly(j, p)
        /\ <<p, r>> \notin moved[j] /\ ~Contested(p, r)
        => (Foretold(j, p, r) <=> IF Claims(p, r) = {} THEN p \in member[r] ELSE Verdict(p, r))

\* A bulk run that comes to its end has processed, or warned about, every user
\* who was enabled all along (unless users were deleted: the pages then shift).
BulkReachesAll ==
    \A j \in Jobs :
        jobs[j].kind = "all" /\ jobs[j].out \in {"ok", "warned"} =>
            \A p \in People \ changed[j] :
                kc[p] = "enabled" => p \in jobs[j].done \cup jobs[j].warned

\* Every job comes back to the admin: the pages of a bulk run come to an end.
Ends == \A j \in Jobs : jobs[j].kind # "none" ~> jobs[j].out # "none"
=============================================================================
