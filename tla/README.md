# Matrix Identity Admin in TLA+

This directory holds a formal model of Matrix Identity Admin (MIA), the axum service in `src/`:
TLA+ modules translated from the code, TLC configurations that check them on small instances,
and proofs for every instance, checked by TLAPS. `PROJECT.json` maps each definition to the
lines it models and lists the runs, the hazards, the findings and the theorems.

MIA is one process in front of three services it does not own. Nothing it does to them is a
transaction: a workflow is a list of HTTP calls, some fatal when they fail and some not, each
followed by an insert into a local audit table. What is hard about it lies between those calls,
and between the statements, file operations and answers of the parts around them.

## 1. Inventory

| Component | State it keeps | Operations | What makes it correct | Modelled in |
|---|---|---|---|---|
| Lifecycle workflows (`services/*_user.rs`, `lifecycle_steps.rs`) and their handlers | local variables of a future | disable, offboard, reactivate, delete, invite | an answer without a warning means the access is really taken or given; a half-done delete stays locked and can be retried | `Lifecycle` |
| Single-step actions (`handlers/sessions.rs`, `devices.rs`) | none | revoke a session, force a logout | the audit entry tells what happened | `Lifecycle` |
| Membership reconciliation (`reconcile_membership.rs`, `handlers/reconcile.rs`, `bulk_reconcile.rs`) | none | reconcile one user, preview, reconcile all | a user ends in the rooms the bindings say; nothing is called that they do not ask for; a preview is what a run does | `Reconcile` |
| Policy bindings (`policy_service.rs`, `db/policy.rs`, `handlers/policy.rs`) | SQLite `policy_bindings`, bootstrap marker | create, update, delete, import at startup | the import is complete and happens once, over crashes; the log accounts for every row | `Policy` |
| Room cache (same files) | SQLite `policy_targets_cache` | refresh, list | a refresh that succeeds has seen every room | `Policy` |
| Token caches (`clients/keycloak.rs`, `clients/mas.rs`) | an admin token each, behind a mutex | call, fetch, retry after a 401 | one fetch at a time; a call takes effect once and never retries a refused token; nobody waits for ever | `TokenCache`, `AdminCalls` |
| Onboarding templates (`handlers/templates.rs`, `models/onboarding_template.rs`) | one JSON file | load, add, remove | names are unique; saves that do not race add up; a broken file is not replaced unseen | `Templates` |
| Audit log (`audit_service.rs`, `db/audit.rs`, `handlers/audit.rs`) | SQLite `audit_logs` | stamp, insert, filter, page, export, count | the date is the calendar's; a filter means days; paging misses nothing | `AuditLog`, `Calendar`, `Pages` |
| User search and detail, dashboard (`user_service.rs`, `handlers/users.rs`, `dashboard.rs`) | none | reads joined from several calls | a shown state was a state of the account; a counter counts what there was | `Pages` |
| Admin login (`auth/`, `handlers/auth.rs`) | cookies in the browser | login, callback, logout, form tokens | a form counts in its own session only; a granted login comes to its end; a logout ends the session | `Login` |
| Synapse client | none (static token) | members, children, join, kick, power level, rooms | a power level is set for one user and leaves the others' alone | `Lifecycle`, `Reconcile`, `Policy` |
| Configuration, rendering, startup | none | parsing, pages | no property of their own | - |

How they interact: a handler (one future per request) calls a service, a service calls the
clients through traits and the audit service through the pool. The bindings are read by
offboarding and by reconciliation; the templates file is read before an invite and by two pages.
Requests share nothing in memory but the token caches and the pool. They do share the three
upstream services, the SQLite tables, the templates file and the browser's cookies, and so does
the person whose accounts are being administered.

Hard behaviours, each with its line in `PROJECT.json` under `hazards`:

- interleaving: a person logs in or joins a room between two steps; two admins act on one person,
  on one file, on one cached token; two tabs log in;
- stale reads: the session list, the MAS lookup, the user page, the power levels, a count of rows
  and a form are used after others have acted;
- partial failure: most steps only collect a warning, a page goes on with what it could read;
- lost answers: a call that timed out may have been carried out;
- dropped futures and crashes: the 30 s timeout layer, a closed connection or a stop of the process
  comes between a call and its entry, the inserts of the import and its marker, the emptying of a
  file and its writing;
- bounds and numbers: 50 sessions and 100 users per page, 1000 users per bulk run, offsets into lists
  that change, the margin of a token's lifetime, calendar dates.

## 2. Modules

| Module | What it is |
|---|---|
| `Lifecycle` | the five workflows and the two single-step actions on the accounts of one person, with the audit log |
| `Reconcile` | the reconciliation of one user, its preview, and the bulk run, with bindings, rooms and power levels |
| `Policy` | the bindings and their audit entries, the import at startup with crashes, the refresh of the room cache |
| `AdminCalls` | what a client promises about a call, without a word on tokens: the abstract specification |
| `TokenCache` | the token cache, its mutex, the retry, timeouts and time; shown to implement `AdminCalls` |
| `Templates` | the templates file, its savers and its readers |
| `Calendar` | `days_to_ymd` beside the rules of the Gregorian calendar |
| `AuditLog` (on `Calendar`) | the stamp and the insert of an entry, and the queries of `db/audit.rs` |
| `Pages` (on `AuditLog`) | the pages that read: audit list, export, search, user, dashboard, while workflows act |
| `Login` | the tabs of a browser, its cookies, logins, forms and logouts |
| `MCLifecycle`, `MCReconcile`, `MCPolicy`, `MCTokenCache`, `MCTemplates`, `MCPages`, `MCLogin` | instances for TLC |
| `Filter` | what `Vec::retain` and `Iterator::filter` keep of a sequence, with its recursion in the open; used by `Reconcile`, `Templates` and `Pages` |
| `LifecycleProofs`, `ReconcileProofs`, `PolicyProofs`, `TokenCacheProofs`, `TemplatesProofs`, `PagesProofs` (the calendar and the log with them), `LoginProofs` | theorems and their proofs |
| `FilterProofs` | the lemmas on filtered sequences those proofs share |

Every module has beside an operator the mutated forms of it that the properties are tested with
(each commented as a mutant); nothing else uses them.

### Lifecycle

| In the model | In the code |
|---|---|
| `kc`, `sso`, `grants` | the person's Keycloak user (by id; an invite makes a new one), browser session, groups and roles from a template |
| `mas`, `sess` | the MAS account under the username and its sessions of both families |
| `rooms`, `Bound`, `Children` | rooms joined; rooms and spaces of the policy bindings; `m.space.child` |
| `req[r]` | the future of one admin request: `stage` is the call it is about to make, `res` an answer not yet audited, `todo` and `near` the rest of its loops, `warn` whether `WorkflowOutcome` has a warning, `out` what the handler gets |
| `audit` | rows of `audit_logs` |
| `tried`, `raised`, `lowered`, `faults` | history; no guard of the program reads the first three, `faults` only limits failures |

`Submit...` is one handler each: an offboarding reads the bindings before anything else and ends
with them, an invite may be refused for its address or template. Every exchange with an upstream
service is one action (`GetUser`, `FindSessions`, ... `SendInviteEmail`), and the insert into
`audit_logs` after it is another (`Audit`), because the code awaits between them. A mutating call
is answered `ok`, `refused` by the service, `fail` (it never arrived) or `late` (carried out,
answer lost); the program cannot tell the last three apart. `WarnOnly` says which steps go on after
a failure; the others end the workflow with an error. `Cut` drops the future at any await. `Login`
and `Join` are the person.

What is assumed of the services, because `src/` holds only their clients: Keycloak allows one
live user per email address, authenticates only enabled users and mails only enabled ones; MAS
creates an account at the first login, refuses to finish an ended session, and on deactivation
ends every session (`clients/mas.rs:241`: "locks the account and revokes all sessions") and admits
no login until it is reactivated; Synapse lets a person join only with a session MAS stands behind.
One username per person is assumed, so the lookups by username find that person's account, and a
Keycloak user made by a new invite reaches the account MAS still has under the username. Sessions
survive the disabling of the Keycloak user, which is the more cautious reading: `models/mas.rs:33-49`
says that introspection fails for them at once.

Two comments of the source fit these assumptions badly. `clients/mas.rs:243` doubts that a deactivated
address can be invited again (section 3, differences); whether the revived account then accepts the new
Keycloak user is not settled by `src/`, so `ReinviteUsable` says no more than that the user is enabled
and the account not deactivated. `invite_user.rs:74-76` says an account passed over "stays
deactivated until the user next logs in", as if a login revived it; nothing in `src/` does.

### Reconcile

| In the model | In the code |
|---|---|
| `table` | `policy_bindings` in the order of `list_bindings` (subject type, subject, room) |
| `kc`, `holds` | users, their status, their groups and roles |
| `member`, `power` | members of every room, and the `users` part of its `m.room.power_levels` event |
| `jobs[j]` | one `reconcile`, `reconcile_preview` or `bulk_reconcile` future |
| `made`, `moved`, `changed` | history: calls made; who moved, and whose record changed, by other hands |

A job reads the user, groups, roles and bindings, then for every binding the children of its
target (`GetSpaceChildren`, also when there will be nothing to do, as in the code), then the
members of each room, space first for joins and last for kicks. A join or kick is followed by
its entry; a level follows a successful join as a GET and a PUT of the whole event. For one
user an error of the first reads is fatal; a bulk run skips a user whose groups fail and goes on
without the roles when those fail. Enabledness is decided when a page is fetched
(`SearchUsers`), as the code does, although the users are worked off much later.

### Policy

| In the model | In the code |
|---|---|
| `table`, `marker`, `cache`, `audit` | the four tables; they survive a crash |
| `phase`, `mapping`, `todo` | how far the startup has come in `bootstrap_from_env`, with the `GROUP_MAPPINGS` of this start |
| `req[r]` | an edit or a refresh of the room cache |
| `listing` | Synapse's rooms in the order it lists them |
| `used`, `brought`, `imported`, `missed`, `dropped`, `settled`, `shifted` | history |

Every SQL statement is a step, because nothing is a transaction, and `Crash` may come before any.
A start may have another value of `GROUP_MAPPINGS`. An import passes over an insert that fails for
whatever reason and sets the marker at its end, and writes no audit entries; a start without
mappings looks at nothing. The refresh pages by offset, and rooms come and go between its pages.

### TokenCache and AdminCalls

| In the model | In the code |
|---|---|
| `cache`, `holder` | `token_cache` and who holds its mutex across an await |
| `req[r]` | one `send_admin_request` (Keycloak, `Attempts = 2`) or one MAS call (`Attempts = 1`) |
| `left`, `revoked`, `life` | the service's view of its tokens, and the lifetime it gave |

Time is counted in ticks, and what is under way on the network ages with it: the HTTP client gives
it up at `Timeout`. The service may refuse a token because it is old or revoked, and it may never
answer. `Cut` drops a future and with it the mutex guard. `AdminCalls` knows only calls with their
outcome, the tokens refused to them and how often they took effect; `CallsKept` is the refinement,
with `Seen` as the mapping: a call takes effect at most once, is tried again only after a refusal
and never with a token that was refused to it, and reports a refusal only when all its tries were.

### Templates

The file is the list it starts with and a tail of older text. `std::fs::write` is two steps,
`Open`, which empties it, and `Write`; between them there is no await, so a request cannot be
dropped there, but other threads read and write, and the process may stop. `Create`, `Delete`,
`Invite` and `Page` are what a request does before its first save or await. `wanted`, `raced` and
`torn` are history: what the saves would add up to, whether two overlapped, whether one stopped.

### AuditLog, Calendar, Pages

`AuditLog` has the clock, the entries on their way (`drafts`) and the table in the order of its
inserts. `Draft` stamps an entry with the date `days_to_ymd` computes; `Insert` is another step,
so entries may be inserted out of order or never (`Lose`). The queries are operators over the
table that compare and sort by the text of the stamp as SQLite does. `today` is kept by the
rules of the calendar beside the clock. `Pages` puts a page together call by call for one admin
(`visit`), while `Workflow` steps change accounts and log, people sign in or are renamed, and the
clock ticks. Pages only read, so those of several admins do not touch each other.

### Login

`jar` has the two cookies of the browser, both of the path `/`; `tab[t]` what a tab shows or waits
for. A request takes the cookies as they are when it is sent and the answer changes them when it
arrives, so the steps of two tabs interleave at every exchange. `Exchange` makes a session with a
token of its own; `Submit` carries a form out if the page's token is that of the request's session.
`RemovalPath` is the path a browser takes for a removal that names none.

## 3. Runs

Passing runs. Deadlock checking is off in all of them: requests end, and the system may stop.

| Run | Instance | States, time | What it shows |
|---|---|---|---|
| `offboard` | an offboarding and one request of any kind, 2 Keycloak ids, 1 session, a space with a room, 1 fault | 1.8 million, 40 s | `CleanOffboard`: an offboarding without a warning leaves no enabled user, usable account, session or mapped room, until another request gives access back; `SuccessEntriesHold`: what the log says was done stays done |
| `access` | a reactivation, delete or invite and one request of any kind, 3 ids, 2 faults, no rooms | 551 thousand, 20 s | `CleanReactivate`, `ReinviteUsable`: afterwards the user is enabled and the account, if the lookup answered, not deactivated; `DeleteClosesAuth`, `RemovedAfterLocked`: a delete locks MAS before the Keycloak record goes; `AuditTrail`: which calls may lack an entry |
| `finishes` | one request of any kind, a session of each family, 2 faults | 143 thousand, 12 s | `Finishes`: every request returns |
| `reconcile` | two jobs on one user, a space with its lobby, or two bindings at odds; 1 fault, 1 change by others | 1.7 million, 40 s | `LastClaimWins`: where bindings disagree the last decides; `CallsAreDue`: nothing is called the bindings did not ask for; `AuditTrail` of joins and kicks; `PreviewAgrees` |
| `bulk` | a bulk run over three users in pages of two, 1 fault, 1 change | 500 thousand, 40 s | `BulkReachesAll` and `Ends` for the page loop; `CallsAreDue` per user |
| `policy` | two starts with no, one or two mappings, two requests, three ids, three rooms in pages of one, 1 fault, 1 room that comes or goes | 1.6 million, 45 s | `TableTraced`: the log accounts for every row and every missing row; `ImportComplete`, `DatabaseIsTruth`: the import over crashes; `RefreshSeesAll` |
| `tokens` | two calls, three tokens of two lifetimes, margin 3, timeout 1, 1 revocation | 225 thousand, 35 s | `OneFetch`, `ExpiredOnlyIfShort`, `CallsKept` (the refinement), `EveryCallEnds` |
| `templates` | three savers and a reader, two names, two grants, 1 fault, 1 crash | 643 thousand, 25 s | `NamesUnique`, `TemplatesTraced`: what crossing saves may leave; `FileIsWanted`: without a race they add up; `BrokenKept` |
| `pages` | the days around a leap day with two seconds each, three users, two older entries, two workflow steps, 1 move, 1 fault, two rows per page | 2.2 million, 65 s | `WalkSeesAll`: paging misses nothing; `FilterByDay`: an export is of calendar days; `DetailTrue`: a shown state was one; `CountersTrue` |
| `login` | two tabs, three people of whom two are admins, three logins, 1 reload, 1 fault | 806 thousand, 20 s | `FormsOfTheirSession`, `FailsOnlyCrossed` |

Each run but `access`, `finishes` and `bulk`, which share a module with another, also checks the
type invariant.

Runs that end in a violation, each a disagreement between the code and what its documents say
(the quotations are under `findings`):

| Run | What happens |
|---|---|
| `levels` | of two concurrent grants in one room one is lost, and neither run warns |
| `logout` | a logout leaves the session cookie in the browser, because the cookie is set for `/` and removed for `/auth` |

### Differences without a run

Seen while modelling; the properties say where they stop short of them. The first five are about
single calls that a sentence of a document denies or promises, so reading the code settles them.

- `clients/mas.rs:243-244`, in a TODO, says of a deactivated address "the email cannot be re-invited until the
  record is removed directly from the MAS database". The code does re-invite it: `invite_user.rs:144`
  calls `reactivate_user` on the account found under the username and goes on to the mail, as its test
  `invite_reactivates_deactivated_mas_account` and the form (`templates/dashboard.html:59`) expect.
  `ReinviteUsable` asserts what the code does.
- An invite whose MAS lookup failed takes the account for absent (`invite_user.rs:77`), reports success
  and leaves a deactivated account as it is, against `templates/dashboard.html:59`: "If the user was
  previously deleted and a deactivated MAS account exists, it will be reactivated". `ReinviteUsable`
  excepts it by `found # "unknown"`.
- An invite whose `create_user` fails, or loses its answer, ends in an error with no audit entry
  (`invite_user.rs:84`), against README.md:371: "Every mutation writes an audit log entry (including
  failures)". A lost answer leaves a Keycloak user that no entry mentions, and the next invite is
  refused. `AuditTrail` excepts the creation and the grants of an invite that did not end well.
- A reconciliation that sets a power level writes no entry of it (`reconcile_membership.rs:138-148`),
  against `docs/plans/2026-03-09-dynamic-policy-engine-design.md:186`, "Full audit entries for all
  reconciliation actions (join/kick/power-level)", and README.md:242, "All actions are
  audit-logged." `AuditTrail` of `Reconcile` is about joins and kicks.
- README.md:255 says that mappings are imported if "no bindings exist in the database". The code looks
  at its marker only (`policy_service.rs:214`), so a start imports beside rows a crashed import has left,
  and, since a start without mappings sets no marker, beside bindings an admin has made.
  `ImportComplete` is about what the code does.
- A first login between a delete's MAS lookup and its Keycloak delete leaves an active account;
  `DeleteClosesAuth` is about deletes that found one.
- A disable without a warning leaves the sessions past the first page of 50 (`mas.rs:297`).
- A login between the forced logout and the disabling leaves a Keycloak session behind an
  offboarding (`offboard_user.rs:53`).
- A bulk run that cannot read a user's roles goes on with none and kicks the user from rooms of
  roles the user holds (`bulk_reconcile.rs:102`); it also joins a user disabled after the page was
  fetched (`bulk_reconcile.rs:76`). `CallsAreDue` is about what was read.
- A preview judges every binding by one reading of the members, so where one binding joins and a
  later one kicks it shows the join only (`reconcile_membership.rs:274`). `PreviewAgrees` is about
  rooms on which the bindings agree.
- A start without mappings does not settle the import, so a later one imports; a binding an admin
  deleted between a crashed import and the next start comes back. `settled` in `DatabaseIsTruth`
  begins with the first start that had mappings and came up.
- The refresh of the room cache passes over a room when another is removed meanwhile; a failed
  lookup of the children caches a space as a room (`policy_service.rs:173-200`).
- Two savers of the templates file lose a change or bring a deleted template back; that is what
  `raced` excepts in `FileIsWanted`. The pages show a broken file as an empty list.

### Bounds

- `Req`, `Jobs`, `Tab`: two, three savers of the templates. A race is between two parties; the
  person, the services and the other admins are further actors of their own. The proofs hold for
  any number.
- `MaxFaults`: one or two. One fault reaches every single failure, two reach a failure together
  with the loss of the audit entry for it, or with one in the other request.
- Sessions: one or two, `Page` one, so that a listing is full but leaves nothing out. A session beyond
  the page, of which the limit of 50 is the reason, is left to the theorem `OffboardIsClean`, which
  holds for any number (run `offboard` passes with two sessions of one family too, at 3.8 million states).
- Rooms: a space and a room in it, which is where order, expansion and its failure show. In `policy`
  three rooms in pages of one: a middle page, where an offset can be off on both sides.
- `PageSize` two for three users: a full page followed by a short one. In run `reconcile`, `Limit` is
  zero so that a bulk run is refused at once, which is the branch run `bulk` never takes.
- `MaxStirs`, `MaxMoves`, `MaxRevoked`, `MaxAgain`: changes by others, one. `Statuses`, `Changes` and
  `Tables` name what a run starts from and what may change in it.
- `MaxStarts`: two, a crashed import and the one that meets its leftovers; `Id`: three, so that a
  deleted row's key can return under another id.
- `MaxTokens`: three: the first, its successor, and one for the call that cleared the successor.
  `Lives` has a lifetime below the margin and one above two waits. `Attempts` is two, Keycloak's;
  MAS's one is covered by the theorems.
- `Parts`: two seconds a day and `MaxTicks` two: entries before, on and after a leap day with a
  first and a last second each. `days_to_ymd` for every day is `PagesProofs!DatesAdvance`.
- `MaxFlows`: three logins: one under way, one that crosses it, one begun anew.
- Symmetry is used in `offboard` and `access` (Keycloak ids, sessions of a family), `policy` (row ids),
  `templates` (savers, names, grants) and `login` (tabs, the two admins), none of which any property
  tells apart; the runs with liveness use none.

### Fairness

`Lifecycle!FairSpec` and `Reconcile!FairSpec` add weak fairness of `Step(r)`, the next call or insert
of a request. The code justifies it: the HTTP clients have a timeout of 10 s
(`clients/keycloak.rs:71-82` and its counterparts), so an await on them ends with an answer or an
error; sqlx hands out its connections in turn and fails after a timeout; tokio polls every future
that is ready. There is no fairness of `Start`, of `Cut`, or of the person, who may log in for ever.

`TokenCache!FairSpec` spells that timeout out: weak fairness of `Tick`, of each call's own steps, and
of `TimesOut`, a wait that has reached `Timeout`. There is none of the service, which may never
answer. Weak fairness of `Client(r)` is enough for the mutex because calls are finitely many, so it
is free for good after some time; tokio's mutex is first come, first served, which is more.

## 4. Theorems

Checked by TLAPS, for every value of the constants that satisfies the `ASSUME`s of the modules.

| Theorem | Says |
|---|---|
| `TypeCorrect` of each proof module but `FilterProofs` | `Spec => []TypeOK` |
| `LifecycleProofs!OffboardIsClean` | `Spec => []CleanOffboard` |
| `LifecycleProofs!LockedOutAlways` | an account that is not active has no active session; one live Keycloak user at most |
| `LifecycleProofs!ReactivateIsClean`, `ReinviteIsUsable`, `DeleteIsClosed` | `Spec => []CleanReactivate`, `[]ReinviteUsable`, `[]DeleteClosesAuth` |
| `LifecycleProofs!CallsAreAudited`, `SuccessesStayTrue` | `Spec => []AuditTrail`, `[]SuccessEntriesHold` |
| `LifecycleProofs!RemovalComesLast` | `Spec => RemovedAfterLocked`, an action property |
| `ReconcileProofs!ClaimsAreSettled`, `PreviewsAgree` | `Spec => []LastClaimWins`, `[]PreviewAgrees` |
| `ReconcileProofs!JoinsAndKicksAreAudited` | `Spec => []AuditTrail` |
| `ReconcileProofs!JoinsAndKicksAreDue` | `Spec => CallsAreDue`, an action property |
| `ReconcileProofs!BulkLeavesNobody` | `Spec => []BulkReachesAll` where no user is deleted (`"users" \notin Changes`) |
| `PolicyProofs!ImportIsComplete`, `EnvIsIgnored` | `Spec => []ImportComplete`, `Spec => DatabaseIsTruth` |
| `PolicyProofs!TableIsTraced`, `RefreshIsComplete` | `Spec => []TableTraced`, `[]RefreshSeesAll` |
| `TokenCacheProofs!OneFetchAtATime`, `MarginSuffices` | `Spec => []OneFetch`, `[]ExpiredOnlyIfShort` |
| `TokenCacheProofs!ClientsImplement` | `Spec => CallsKept`: the refinement of `AdminCalls` |
| `TemplatesProofs!NamesStayUnique`, `TemplatesStayTraced`, `FileStaysWanted` | `Spec => []NamesUnique`, `[]TemplatesTraced`, `[]FileIsWanted` |
| `TemplatesProofs!BrokenStaysKept` | `Spec => BrokenKept`, an action property |
| `PagesProofs!DatesAdvance` | `days_to_ymd` is the Gregorian calendar: the epoch, and each day after the one before |
| `PagesProofs!FilterIsByDay`, `WalkStaysWhole` | `Spec => []FilterByDay`, `[]WalkSeesAll` |
| `PagesProofs!DetailStaysTrue`, `CountersStayTrue` | `Spec => []DetailTrue`, `[]CountersTrue` |
| `LoginProofs!FormsStayInTheirSession`, `FailuresAreCrossed` | `Spec => []FormsOfTheirSession`, `[]FailsOnlyCrossed` |

The assumptions are the `ASSUME`s of the modules, which the runs evaluate. Most give a constant its
shape, say that `None` is none of the things it stands beside, or that a bound is a natural. The
others are about the code or its surroundings:

- `TokenCache!MarginAssumption`: the margin of 30 s is at least two timeouts of 10 s.
- `Reconcile!OrderAssumption`: Keycloak lists a user once. `Reconcile!RoomsAssumption`: a space is not its
  own child. `BulkLeavesNobody` assumes further that no user is deleted during the run: a deletion
  shifts the pages, and `bulk_reconcile.rs:137` then skips a user without a word. Run `bulk` has the
  same restriction, for the same reason.
- `AuditLog!StartAssumption`, `OlderAssumption`: the clock starts on a real date, and the entries already
  in the table were stamped with theirs. `Pages!FiltersAssumption`: the dates of a filter have the
  form of a date; no month need have them.

The arguments:

**A clean offboarding.** `CleanOffboard` is not inductive: it speaks of the end of a workflow only. The
invariant that is (`IInv`) adds to `TypeOK` and `LockedOutAlways` a conjunct `OffInv` for each
offboarding that has collected no warning and that no other request has overtaken by giving access:

1. past the disabling, no Keycloak user of the person is enabled; hence no `Login` and no `Join`;
2. from then on, a mapped room still joined is among those still to visit (`near`, `todo` and the
   children of `todo`) or is the room whose kick is not yet answered; nobody can join one by 1, and
   a kick or an expansion that fails is a warning; past the loop this leaves none;
3. at the end, the MAS account is not active: either the lookup found it not active, and by 1 it
   cannot have become so since, or the deactivation succeeded, which also ended the sessions.

A warning takes the request out of the conjunct, and every soft failure sets one: that is where the
proof uses `WarnOnly` and `LookupWarns`. Any request that enables, reactivates or creates puts the
others in `raised`, and so out of the conjunct.

**The other workflows.** `WorthInv` says for every request what its stage is worth: `Routed`, that a
stage is reached only with the lookups and answers that lead to it; `Opened`, what a request that
gives access has given by now, unless another has taken access away (`lowered`); `Shut`, what a
delete has closed by now, unless another has given access (`raised`). `TrailInv` says of every
call made that its entry is in the log, or is the next thing its request does, or is excused, and
of every entry that the request named in it is past that step. `HeldInv` says that what a success
entry tells still holds unless another request has undone it, and the same of a success whose entry
is yet to be written (`Pending`): the entry comes a step after the call, and others act in between.
It builds on `IInv`, because a kicked person stays out only if the account is disabled by then.
`RemovalInv` says that a delete that is about to remove the Keycloak user of a MAS account it found
has the success entry of its deactivation in the log.

**Reconciliation.** What holds of a job is a function of its own record and of the parts of the world
others touch, so a step is a case for the job at work, and nothing for the others but what moved.
`DueInv`: what a job believes of the user's groups and roles is what they hold, unless someone
changed them or a read went wrong; and it is at a call only where a binding asks for it.
`SettleInv`: the bindings before the one at work have settled every room they claim, as the last of
them wants it (`Settled`); at the one at work, a room is settled or still to visit (`Between`).
`ForeseeInv` is the same of a preview, with what it has told in the place of what was done
(`Truthful`, `Looked`). `OnceInv`: a run deals with nobody twice, and those to come are listed after
those dealt with. `CoverInv`: a user who is enabled, and whom nobody changed, is done, warned about,
at hand, in the queue, or listed from where the next page begins.

**The import.** `ImportInv` says of an import under way that each mapping is still to do, or has a row,
was missed, or was dropped; rows leave the table only into `dropped`. The marker is set when nothing
is left to do, and no crash unsets it, so a later start finds it and goes past the import.

**The log and the table.** A write leaves its request before its entry, where it explains the row; the
entry then explains it for good. A later update of the same row explains its own setting, and a
request stops being unlogged only by writing its entry: `Keeps`, used for every step of another.

**The refresh.** `RefreshInv`: a room that was there at the start is cached, in the batch at hand, or
in the listing from the offset on. A room that comes in moves others only away from the start; one
that goes moves them across the offset, and `shifted` takes the refresh out.

**Tokens.** `Locking`: the holder of the mutex is the one who is fetching. `Fresh`: a token on its way
from the service is nobody else's yet, and one refused to a call is not in the cache when the call
looks there again, for the cache only ever changes to a token nobody has tried or to none. `Timing`:
a cached token outlives what the cache believes by the margin less one wait, which leaves one wait
for the call. The refinement then follows step by step, with `Trying` for the number of tries.

**Templates.** Between its load and its save a request holds a copy. The lists under way are as free of
doubles as the file (`CopiesUnique`), and hold only what was created and what they are to add
(`CopiesTraced`). While none has raced, one request at most saves (`OneSaves`), and its copy is what is
wanted (`SavesWanted`).

**Dates.** By eras of 400 years: `YearOfEra` is the year whose days the day of the era falls into, found
by bounds on its divisions; within a year the months follow `Before`; the ends of a year, a century
and an era are cases of their own. `YmdIsRight` then carries it from the epoch to every day, and with
it every entry is stamped with the date and the time it was made at (`TrueEntry`).

**What is read.** With true stamps, comparing their texts is comparing moments, and a filter's bounds
select days (`ExportInv`). `Later` orders the rows of the log strictly, so `Sorted` lists each row once,
latest first. A page's walk (`WalkInv`): a row that was there at the start is among those shown, or
lies beyond the offset; for rows that come in only move others towards the end (`Ahead` counts those in
front of a row), and a search whose users only go away says so in `gone`. At the last page, nothing
lies beyond: the count and the rows are of one list unless `late`. `CounterInv`: what was counted is
a set between the one that was in the span to the end and the one that was in it at any time.
`DetailInv`: every answer the page has was the account at some moment since the page was asked for.

**Forms.** Two sessions held anywhere, in a tab or in the jar, with one token are one session, because
a new one takes a token none of them has.

**Logins.** `FlowInv`: two tabs never wait for one login, and a tab that waits for one which no other has
crossed finds that login's cookie in the jar, and the login not yet spent.

What the recursive function of `Filter` computes, and that every day has its date, are proved by
induction over sets of naturals (`SetInduction`, from the least element of a set), because the
library's induction theorems take an operator and cannot be instantiated here.

Only model-checked: liveness (`Finishes`, `Ends`, `EveryCallEnds`), which is out of the prover's reach.
All other properties of the passing runs are theorems. The two properties of the runs that end in a
violation, `GrantedLevelHolds` and `LogoutEnds`, are refuted by them.

## 5. What is not modelled

- The larger part of `src/` is tests beside the code and test helpers; of the rest, what is not mapped
  is request and template structs, redirects with their texts, address validation, the wire formats of
  the clients, configuration and wiring. None has state or control a property is about.
- The bindings are a constant in `Lifecycle` and a table that does not change in a run of `Reconcile`;
  `Policy` edits them by itself. The workflows of `Pages` are single steps.
- Two people with one local part in two domains (an invite of the second finds the first's MAS account),
  and renaming in `Lifecycle`; `Pages` has renaming, with Keycloak's order of the users held constant.
- Time outside `TokenCache` and `AuditLog`: timeouts are faults and drops that may come at any await.
- The status card, the JSON lists for the policy forms, the devices of a user: independent reads.
- Cryptography: cookies, signatures and random values are taken to do what they are for.
- What a text says (redirects, pages, warnings' wording, audit metadata beyond action, target and
  result), and the layout of the CSV.

## 6. Plan

Done: the modules and runs of section 3, and a theorem for every safety property they check. Left, in
this order:

1. An abstract specification of access (open, closing, closed) that a clean offboarding and a clean
   delete implement, with the refinement as a property of `offboard` and then as a theorem.
2. `Lifecycle` with `Reconcile` and `Policy`: an offboarding beside a bulk run, which joins again whom it
   kicked, and beside an edit of the bindings it has read.
3. What the theorems leave to assumptions: `BulkReachesAll` with deletions, in a weaker form that names
   who may be skipped.

Each further run must ask a question of its own.
