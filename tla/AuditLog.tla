------------------------------ MODULE AuditLog ------------------------------
(***************************************************************************)
(* The audit log as it is written and read: AuditService::log stamps an    *)
(* entry with a date it computes (chrono_now) and then inserts it, so that *)
(* entries may be inserted in another order than they are stamped; the     *)
(* queries of db/audit.rs compare, sort and count by the text of the stamp *)
(* (services/audit_service.rs, db/audit.rs).                               *)
(*                                                                         *)
(* A day has Parts seconds.  The text of a stamp is fixed in width, so its *)
(* order is that of the number Text gives.                                 *)
(***************************************************************************)
EXTENDS Calendar, Naturals, Sequences, FiniteSets, FiniteSetsExt, SequencesExt

CONSTANTS
    User,       \* the people entries are about
    Action,     \* what an entry says was done
    Parts,      \* seconds of a day
    Start,      \* the day the clock begins at, counted from the epoch
    StartDate,  \* its date
    Older,      \* the entries there are
    None,       \* a filter that is not set
    MaxTicks    \* bound: seconds that pass

ASSUME PartsAssumption == Parts \in Nat \ {0}
ASSUME StartAssumption ==
    Start \in Nat /\ StartDate \in RealDate /\ DayNumber(StartDate) = Start

VARIABLES
    time,    \* seconds since the epoch
    today,   \* the date, by the calendar
    drafts,  \* entries stamped and on their way to the database
    log      \* audit_logs, as inserted

logVars == <<time, today, drafts, log>>

Now == time \div Parts

Text(date, part) == ((date.year * 100 + date.month) * 100 + date.day) * Parts + part

\* chrono_now.
Stamp == LET date == DaysToYmd(Now) IN [date |-> date, part |-> time % Parts]
Written(s) == Text(s.date, s.part)

\* `day` and `at` are history: the date by the calendar, and the true time.  The
\* id is a random one.
Entry ==
    [id : Nat, stamp : [date : Date, part : 0..Parts - 1], action : Action,
     result : {"success", "failure"}, user : User, day : Date, at : Nat]

\* The seconds of a stamp since the epoch, as SQLite's unixepoch reads it.
UnixEpoch(s) == DayNumber(s.date) * Parts + s.part

ASSUME OlderAssumption ==
    /\ Older \in Seq(Entry)
    /\ \A n \in DOMAIN Older :
          LET e == Older[n]
          IN  e.day \in RealDate /\ e.stamp.date = e.day /\ UnixEpoch(e.stamp) = e.at

LogInit == time = Start * Parts /\ today = StartDate /\ drafts = {} /\ log = Older

Tick ==
    /\ time < Start * Parts + MaxTicks
    /\ time' = time + 1
    /\ today' = IF time' % Parts = 0 THEN After(today) ELSE today
    /\ UNCHANGED <<drafts, log>>

\* AuditService::log up to its await.
Draft(i, a, res, u) ==
    drafts' = drafts \cup {[id |-> i, stamp |-> Stamp, action |-> a, result |-> res, user |-> u,
                            day |-> today, at |-> time]}

\* db::audit::insert.
Insert(e) ==
    /\ e \in drafts
    /\ drafts' = drafts \ {e} /\ log' = Append(log, e)
    /\ UNCHANGED <<time, today>>

\* The insert fails, or the request is dropped before it is made.
Lose(e) ==
    /\ e \in drafts /\ drafts' = drafts \ {e}
    /\ UNCHANGED <<time, today, log>>

-----------------------------------------------------------------------------
(***************************************************************************)
(* The queries.                                                            *)
(***************************************************************************)
EndOfDay(d) == Text(d, Parts - 1)

\* build_where_clause.
Matches(e, f) ==
    /\ f.action = None \/ e.action = f.action
    /\ f.result = None \/ e.result = f.result
    /\ f.from = None \/ Written(e.stamp) >= Text(f.from, 0)
    /\ f.to = None \/ Written(e.stamp) <= EndOfDay(f.to)

Matching(f) == {n \in DOMAIN log : Matches(log[n], f)}

\* The index on the timestamp, from its end: rows of one second by their rowid.
Later(m, n) ==
    \/ Written(log[m].stamp) > Written(log[n].stamp)
    \/ Written(log[m].stamp) = Written(log[n].stamp) /\ m > n

Sorted(rows) ==
    [k \in 1..Cardinality(rows) |->
        CHOOSE n \in rows : Cardinality({m \in rows : Later(m, n)}) = k - 1]

CountWithFilter(f) == Cardinality(Matching(f))

PageWithFilter(f, limit, offset) ==
    LET rows == Sorted(Matching(f))
    IN  SubSeq(rows, offset + 1, Min({offset + limit, Len(rows)}))

AllWithFilter(f) == Sorted(Matching(f))

RecentEntries(limit) == LET rows == Sorted(DOMAIN log) IN SubSeq(rows, 1, Min({limit, Len(rows)}))

\* The rows of one person, sorted without the index: those of one second come in
\* any order.
ForUser(u, limit) ==
    LET rows == {n \in DOMAIN log : log[n].user = u}
    IN  {s \in SetToSeqs(rows) :
            \A m, n \in DOMAIN s : m < n => Written(log[s[m]].stamp) >= Written(log[s[n]].stamp)}

\* unixepoch(timestamp) > unixepoch('now') - seconds.
\* Mutant: the time of day is dropped.
WithinDays(e, seconds) == DayNumber(e.stamp.date) * Parts > time - seconds

Within(e, seconds) == UnixEpoch(e.stamp) > time - seconds

CountActionsSince(actions, seconds) ==
    Cardinality({n \in DOMAIN log : log[n].action \in actions /\ Within(log[n], seconds)})

CountFailuresSince(seconds) ==
    Cardinality({n \in DOMAIN log : log[n].result = "failure" /\ Within(log[n], seconds)})
=============================================================================
