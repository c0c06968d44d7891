-------------------------------- MODULE Pages --------------------------------
(***************************************************************************)
(* What the admins read: the audit list and its export (handlers/audit.rs),*)
(* the user search and the user page (handlers/users.rs, user_service.rs,  *)
(* identity_mapper.rs) and the dashboard (handlers/dashboard.rs).  A page  *)
(* is put together from several calls, one after the other or joined,      *)
(* while the workflows change accounts and write to the audit log.         *)
(*                                                                         *)
(* The workflows are those of Lifecycle, here one step at a time: a step   *)
(* changes an account and logs it.  One admin reads; pages only read, so   *)
(* those of several admins do not touch each other.                        *)
(***************************************************************************)
EXTENDS AuditLog, Filter

CONSTANTS
    Order,      \* the users as Keycloak lists them
    Touched,    \* bound: the users whom workflows and moves are about
    Kinds,      \* the pages the admin opens
    Filters,    \* the filters the admin sets
    PageSize,   \* rows of a page
    History,    \* audit entries on a user's page
    Windows,    \* the dashboard's spans of seconds
    MaxSteps,   \* bound: steps of workflows
    MaxMoves,   \* bound: changes by the people themselves
    MaxPage,    \* bound: page numbers asked for
    MaxFaults   \* bound: calls that fail

ASSUME OrderAssumption == Order \in Seq(User) /\ User = {Order[n] : n \in DOMAIN Order}
ASSUME ActionAssumption ==
    Action \subseteq {"invite", "disable", "enable", "deactivate", "reactivate", "delete"}
ASSUME TouchedAssumption == Touched \subseteq User
ASSUME FiltersAssumption ==
    Filters \subseteq [action : Action \cup {None}, result : {"success", "failure", None},
                       from : Date \cup {None}, to : Date \cup {None}]
ASSUME SizesAssumption ==
    PageSize \in Nat \ {0} /\ History \in Nat /\ Windows \subseteq Nat /\ MaxSteps \in Nat

VARIABLES
    acct,   \* acct[u]: the user's account in Keycloak and MAS
    visit,  \* the page being put together
    steps,  \* steps of workflows so far
    moves,  \* changes by the people so far
    faults  \* calls that failed so far

vars == <<logVars, acct, visit, steps, moves, faults>>

Mas == {"none", "live", "off"}
Account == [known : BOOLEAN, enabled : BOOLEAN, pending : BOOLEAN, renamed : BOOLEAN, mas : Mas]

Fresh == [known |-> TRUE, enabled |-> TRUE, pending |-> TRUE, renamed |-> FALSE, mas |-> "none"]
Unknown == [Fresh EXCEPT !.known = FALSE]
Member == [Fresh EXCEPT !.pending = FALSE, !.mas = "live"]

Fault == faults < MaxFaults /\ faults' = faults + 1
NoFault == UNCHANGED faults

Nothing == [kind |-> "none"]

Init ==
    /\ LogInit
    /\ acct \in [User -> {Unknown, Member}] /\ \A u \in User \ Touched : acct[u] = Member
    /\ visit = Nothing
    /\ steps = 0 /\ moves = 0 /\ faults = 0

Listed == {"list", "search"}

\* search_users: those Keycloak knows, in its order.
Found == Filter(Order, {u \in User : acct[u].known})

\* What a list is of.
Rows(v) == IF v.kind = "list" THEN Matching(v.filter) ELSE ToSet(Found)

-----------------------------------------------------------------------------
(***************************************************************************)
(* The workflows, the people and the clock, while a page is put together.  *)
(***************************************************************************)
\* History, never read by the program: a row came between a page's count and
\* its rows; a row went away; the states of the visited user's account.
Noted ==
    \E v \in {visit} :
        visit' = CASE v.kind \in Listed ->
                        [v EXCEPT !.late = @ \/ (v.stage = "rows" /\ Rows(v)' # Rows(v)),
                                  !.gone = @ \/ ~(Rows(v) \subseteq Rows(v)')]
                   [] v.kind = "detail" -> [v EXCEPT !.was = @ \cup {acct'[v.user]}]
                   [] OTHER -> v

\* A step's action, where it applies and what it leaves.
Does(a, before) ==
    CASE a = "invite"     -> IF before.known THEN {} ELSE {[Fresh EXCEPT !.mas = before.mas]}
      [] a = "disable"    -> IF before.known THEN {[before EXCEPT !.enabled = FALSE]} ELSE {}
      [] a = "enable"     -> IF before.known THEN {[before EXCEPT !.enabled = TRUE]} ELSE {}
      [] a = "deactivate" -> IF before.mas = "live" THEN {[before EXCEPT !.mas = "off"]} ELSE {}
      [] a = "reactivate" -> IF before.mas = "off" THEN {[before EXCEPT !.mas = "live"]} ELSE {}
      [] a = "delete"     -> IF before.known THEN {[Unknown EXCEPT !.mas = before.mas]} ELSE {}

Workflow(u, a) ==
    /\ steps < MaxSteps /\ steps' = steps + 1
    /\ \/ \E after \in Does(a, acct[u]) :
            acct' = [acct EXCEPT ![u] = after] /\ Draft(Len(Older) + steps, a, "success", u)
       \/ Does(a, acct[u]) # {} /\ UNCHANGED acct /\ Draft(Len(Older) + steps, a, "failure", u)
    /\ UNCHANGED <<time, today, log, moves>>

\* A person completes the onboarding and signs in; a user is renamed in Keycloak,
\* where MAS keeps the old name.
Move(u) ==
    /\ moves < MaxMoves /\ moves' = moves + 1
    /\ acct[u].known
    /\ \/ /\ acct[u].pending /\ acct[u].enabled
          /\ acct' = [acct EXCEPT ![u].pending = FALSE,
                                  ![u].mas = IF @ = "none" THEN "live" ELSE @]
       \/ ~acct[u].renamed /\ acct' = [acct EXCEPT ![u].renamed = TRUE]
    /\ UNCHANGED <<logVars, steps>>

\* The page is there, as far as it can come without the admin.
Complete(v) ==
    CASE v.kind \in Listed -> v.stage = "shown" /\ v.page >= v.pages
      [] v.kind = "detail" -> v.stage = "done" /\ v.entries # None
      [] v.kind = "dashboard" -> v.stage # "open" /\ v.recent # None
      [] OTHER -> v.kind # "none"

\* What happens after the page is complete is left out.
World ==
    /\ ~Complete(visit)
    /\ \/ \E u \in Touched : Move(u) \/ \E a \in Action : Workflow(u, a)
       \/ (Tick \/ \E e \in drafts : Insert(e) \/ Lose(e)) /\ UNCHANGED <<acct, steps, moves>>
    /\ Noted /\ UNCHANGED faults

-----------------------------------------------------------------------------
(***************************************************************************)
(* The audit list and the user search: the rows are counted, then fetched, *)
(* and a link leads to the next page.                                      *)
(***************************************************************************)
\* Mutant: the last page is left out unless it is full.
TotalPagesFull(total) == Max({1, total \div PageSize})

TotalPages(total) == Max({1, (total + PageSize - 1) \div PageSize})

\* Mutant: page zero is taken as it is asked for.
AskedRaw(n) == n

Asked(n) == Max({n, 1})

\* `due` and `seen` are history: what there was when the admin began to page
\* through from the first page, and what the pages have shown.
OpenList ==
    /\ visit = Nothing
    /\ \E k \in Listed \cap Kinds, n \in 0..MaxPage :
       \E f \in IF k = "list" THEN Filters ELSE {None} :
         LET v == [kind |-> k, filter |-> f, stage |-> "count", page |-> Asked(n), pages |-> 1,
                   rows |-> <<>>, due |-> {}, seen |-> {}, late |-> FALSE, gone |-> FALSE]
         IN  visit' = [v EXCEPT !.due = IF Asked(n) = 1 THEN Rows(v) ELSE {}]
    /\ NoFault

\* list makes a page past the last the last; search leaves it, empty.
PageOf(v, pages) == IF v.kind = "list" THEN Min({v.page, pages}) ELSE v.page

\* An error of any call ends the request.
Broken == Fault /\ visit' = [kind |-> "error"]

Count ==
    /\ visit.kind \in Listed /\ visit.stage = "count"
    /\ \/ /\ NoFault
          /\ LET total == IF visit.kind = "list" THEN CountWithFilter(visit.filter) ELSE Len(Found)
                 pages == TotalPages(total)
             IN  visit' = [visit EXCEPT !.stage = "rows", !.pages = pages,
                                        !.page = PageOf(visit, pages), !.late = FALSE]
       \/ Broken

PageRows(v) ==
    LET first == (v.page - 1) * PageSize
    IN  IF v.kind = "list" THEN PageWithFilter(v.filter, PageSize, first)
        ELSE SubSeq(Found, first + 1, Min({first + PageSize, Len(Found)}))

FetchRows ==
    /\ visit.kind \in Listed /\ visit.stage = "rows"
    /\ \/ NoFault /\ visit' = [visit EXCEPT !.stage = "shown", !.rows = PageRows(visit),
                                            !.seen = @ \cup ToSet(PageRows(visit))]
       \/ Broken

FollowNext ==
    /\ visit.kind \in Listed /\ visit.stage = "shown" /\ visit.page < visit.pages
    /\ visit' = [visit EXCEPT !.stage = "count", !.page = @ + 1, !.rows = <<>>]
    /\ NoFault

\* export_csv: one query.
Export ==
    /\ visit = Nothing /\ "export" \in Kinds
    /\ \E f \in Filters :
         \/ NoFault /\ visit' = [kind |-> "export", filter |-> f, rows |-> AllWithFilter(f),
                                   upto |-> Len(log)]
         \/ Broken

-----------------------------------------------------------------------------
(***************************************************************************)
(* The page of a user.  The user's groups and roles, and whether they      *)
(* could be read, are left out.                                            *)
(***************************************************************************)
\* Mutant: the state is derived as for the search, without MAS.
DeriveFromKeycloak(enabled, pending, mas) ==
    IF ~enabled THEN "Disabled" ELSE IF pending THEN "Invited" ELSE "Active"

DeriveState(enabled, pending, mas) ==
    IF ~enabled \/ mas = "off" THEN "Disabled" ELSE IF pending THEN "Invited" ELSE "Active"

Correlation(mas) == IF mas = "none" THEN "Inferred" ELSE "Confirmed"

OpenDetail ==
    /\ visit = Nothing /\ "detail" \in Kinds
    /\ \E u \in Touched :
         visit' = [kind |-> "detail", user |-> u, stage |-> "user", id |-> Unknown, mas |-> "none",
                   failed |-> FALSE, sessions |-> FALSE, entries |-> None, was |-> {acct[u]}]
    /\ NoFault

GetUser ==
    /\ visit.kind = "detail" /\ visit.stage = "user"
    /\ \/ NoFault /\ acct[visit.user].known
          /\ visit' = [visit EXCEPT !.stage = "mas", !.id = acct[visit.user]]
       \/ NoFault /\ ~acct[visit.user].known /\ visit' = [kind |-> "error"]
       \/ Broken

\* get_user_by_username, by the name read before.
LookUp ==
    /\ visit.kind = "detail" /\ visit.stage = "mas"
    /\ \/ /\ NoFault
          /\ LET m == IF visit.id.renamed THEN "none" ELSE acct[visit.user].mas
             IN  visit' = [visit EXCEPT !.stage = IF m = "none" THEN "done" ELSE "sessions",
                                        !.mas = m]
       \/ Fault /\ visit' = [visit EXCEPT !.stage = "done", !.failed = TRUE]

ListSessions ==
    /\ visit.kind = "detail" /\ visit.stage = "sessions"
    /\ \/ NoFault /\ visit' = [visit EXCEPT !.stage = "done", !.sessions = acct[visit.user].mas = "live"]
       \/ Fault /\ visit' = [visit EXCEPT !.stage = "done"]

\* The query joined to the calls above.
ReadHistory ==
    /\ visit.kind = "detail" /\ visit.entries = None
    /\ \/ NoFault /\ \E s \in ForUser(visit.user, History) : visit' = [visit EXCEPT !.entries = s]
       \/ Fault /\ visit' = [visit EXCEPT !.entries = <<>>]

-----------------------------------------------------------------------------
(***************************************************************************)
(* The dashboard: counters and the latest entries, joined.                 *)
(***************************************************************************)
InviteActions == {"invite"}
LifecycleActions == {"disable", "reactivate", "delete"}
Counter == {"invites", "lifecycle", "failures"} \X Windows

\* The joined queries do not depend on each other: a visit follows one counter.
OpenDashboard ==
    /\ visit = Nothing /\ "dashboard" \in Kinds
    /\ \E c \in Counter :
         visit' = [kind |-> "dashboard", counter |-> c, stage |-> "open", count |-> 0,
                   recent |-> None, upto |-> Len(log), from |-> time]
    /\ NoFault

CountOf(c) ==
    CASE c[1] = "invites"   -> CountActionsSince(InviteActions, c[2])
      [] c[1] = "lifecycle" -> CountActionsSince(LifecycleActions, c[2])
      [] c[1] = "failures"  -> CountFailuresSince(c[2])

\* A counter that could not be read is shown as zero.
ReadCounter ==
    /\ visit.kind = "dashboard" /\ visit.stage = "open"
    /\ \/ NoFault /\ visit' = [visit EXCEPT !.stage = "read", !.count = CountOf(visit.counter)]
       \/ Fault /\ visit' = [visit EXCEPT !.stage = "zero"]

ReadRecent ==
    /\ visit.kind = "dashboard" /\ visit.recent = None
    /\ \/ NoFault /\ visit' = [visit EXCEPT !.recent = RecentEntries(History)]
       \/ Broken

Read ==
    /\ \/ OpenList \/ Count \/ FetchRows \/ FollowNext \/ Export
       \/ OpenDetail \/ GetUser \/ LookUp \/ ListSessions \/ ReadHistory
       \/ OpenDashboard \/ ReadCounter \/ ReadRecent
    /\ UNCHANGED <<logVars, acct, steps, moves>>

Next == World \/ Read

Spec == Init /\ [][Next]_vars

-----------------------------------------------------------------------------
(***************************************************************************)
(* Properties.                                                             *)
(***************************************************************************)
Row == 1..Len(Older) + MaxSteps \cup User

ListVisit ==
    [kind : Listed, filter : Filters \cup {None}, stage : {"count", "rows", "shown"},
     page : Nat \ {0}, pages : Nat \ {0}, rows : Seq(Row),
     due : SUBSET Row, seen : SUBSET Row, late : BOOLEAN, gone : BOOLEAN]

ExportVisit == [kind : {"export"}, filter : Filters, rows : Seq(Row), upto : Nat]

DetailVisit ==
    [kind : {"detail"}, user : User, stage : {"user", "mas", "sessions", "done"},
     id : Account, mas : Mas, failed : BOOLEAN, sessions : BOOLEAN,
     entries : Seq(Row) \cup {None}, was : SUBSET Account]

DashboardVisit ==
    [kind : {"dashboard"}, counter : Counter, stage : {"open", "read", "zero"}, count : Nat,
     recent : Seq(Row) \cup {None}, upto : Nat, from : Nat]

Visit ==
    [kind : {"none", "error"}] \cup ListVisit \cup ExportVisit \cup DetailVisit \cup DashboardVisit

TypeOK ==
    /\ time \in Nat /\ today \in Date
    /\ drafts \subseteq Entry /\ log \in Seq(Entry)
    /\ acct \in [User -> Account] /\ visit \in Visit
    /\ steps \in Nat /\ moves \in Nat /\ faults \in Nat

\* An admin who pages through the audit list or a search from the first page to
\* the last has seen every row that was there at the start and still is, though
\* rows come in at any place meanwhile; but for a row that comes between the last
\* page's count and its rows, and for rows that went away (list, search).
WalkSeesAll ==
    visit.kind \in Listed /\ visit.stage = "shown" /\ visit.page >= visit.pages
        /\ ~visit.late /\ ~visit.gone
      => visit.due \subseteq visit.seen

\* An export between two dates has exactly the entries of these days, both of them
\* included, by the calendar and not by what the stamp says, also for a date that
\* no month has (build_where_clause, chrono_now).
FilterByDay ==
    visit.kind = "export" =>
        ToSet(visit.rows) =
            {n \in 1..visit.upto :
                LET e == log[n] f == visit.filter IN
                /\ f.action \in {None, e.action} /\ f.result \in {None, e.result}
                /\ f.from # None => Text(f.from, 0) <= Text(e.day, 0)
                /\ f.to # None => Text(e.day, 0) <= Text(f.to, 0)}

\* The state on a user's page is made of a Keycloak and a MAS state the user had
\* while it was put together, by the precedence models/unified.rs states; a user
\* whose MAS account could not be found, for an error or a new name, is shown by
\* Keycloak's alone (get_detail, derive_lifecycle_state).
DetailTrue ==
    visit.kind = "detail" /\ visit.stage = "done" =>
        \E k, m \in visit.was :
            LET off == m.mas = "off" /\ ~visit.failed /\ ~k.renamed IN
            /\ k.known
            /\ DeriveState(visit.id.enabled, visit.id.pending, visit.mas) =
                  CASE ~k.enabled \/ off -> "Disabled"
                    [] k.enabled /\ ~off /\ k.pending -> "Invited"
                    [] OTHER -> "Active"
            /\ Correlation(visit.mas) = "Confirmed" => m.mas # "none"

\* A counter of the dashboard that could be read lies between the entries that
\* were in the log when the request came and are in the span to the end, and those
\* that are in the log by now and were in the span at any time since; the span is
\* measured by when an entry was made (count_actions_since, count_failures_since).
CountersTrue ==
    visit.kind = "dashboard" /\ visit.stage = "read" =>
        LET c == visit.counter
            Counts(e) == CASE c[1] = "invites" -> e.action = "invite"
                           [] c[1] = "lifecycle" -> e.action \in LifecycleActions
                           [] c[1] = "failures" -> e.result = "failure"
            Span(n, now) == {m \in 1..n : Counts(log[m]) /\ now - log[m].at < c[2]}
        IN  visit.count \in Cardinality(Span(visit.upto, time))
                            .. Cardinality(Span(Len(log), visit.from))
=============================================================================
