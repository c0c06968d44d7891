------------------------------- MODULE Policy -------------------------------
(***************************************************************************)
(* The policy bindings of Matrix Identity Admin: editing them, importing   *)
(* them once from GROUP_MAPPINGS at startup, and refreshing the cache of   *)
(* rooms the policy page offers (policy_service.rs, db/policy.rs, the      *)
(* handlers in front of them and the startup in lib.rs).                   *)
(*                                                                         *)
(* The three tables are in SQLite and survive a crash; nothing here is a   *)
(* transaction, so every statement is a step of its own, and the process   *)
(* may stop between any two.  It can be started again with another value   *)
(* of GROUP_MAPPINGS.                                                      *)
(***************************************************************************)
EXTENDS Naturals, Sequences, FiniteSets

CONSTANTS
    Req,         \* requests admins may submit, each at most once
    Kinds,       \* Kinds[r]: what request r may be
    Key,         \* a group or role with a room: what the table keeps unique
    Id,          \* row ids the program may draw
    Setting,     \* a power level with a remove flag
    Plain,       \* the setting of an imported binding: no level, no removal
    Mappings,    \* values GROUP_MAPPINGS may have at a start: sets of keys
    Rooms,       \* Synapse rooms
    Spaces,      \* those with children
    Listed,      \* rooms that exist at first, in the order Synapse lists them
    Page,        \* rooms per page of that listing
    HasSynapse,  \* whether a Synapse connector is configured
    None,        \* no id, key, setting or room
    MaxStarts,   \* bound: starts of the process
    MaxFaults,   \* bound: statements and reads that may fail
    MaxMoves     \* bound: rooms created or removed on Synapse

Kind == {"create", "update", "delete", "refresh"}

ASSUME KindsAssumption == Kinds \in [Req -> SUBSET Kind]
ASSUME MappingsAssumption == Plain \in Setting /\ Mappings \subseteq SUBSET Key
ASSUME RoomsAssumption == Listed \in Seq(Rooms) /\ Page \in Nat \ {0}
ASSUME BoundsAssumption ==
    MaxStarts \in Nat /\ MaxFaults \in Nat /\ MaxMoves \in Nat /\ HasSynapse \in BOOLEAN
ASSUME NoneAssumption == None \notin Id \cup Key \cup Setting \cup Rooms

VARIABLES
    \* SQLite
    table,    \* policy_bindings
    marker,   \* policy_bootstrap_state has its row
    audit,    \* audit_logs
    cache,    \* policy_targets_cache: what each room is cached as
    \* the process
    phase,    \* how far it has come
    mapping,  \* GROUP_MAPPINGS of this start
    todo,     \* mappings still to import
    req,      \* the requests and how far each has come
    \* Synapse
    listing,  \* the rooms in listing order
    \* history, never read by a guard of the program
    used,     \* ids that have been in the table
    brought,  \* ids of rows that were imported
    imported, \* the mapping whose import was completed
    missed,   \* mappings whose insert failed
    dropped,  \* keys of the rows admins have deleted
    settled,  \* a start with mappings has come up
    shifted,  \* refreshes during which a room was removed
    starts, faults, moves

tables == <<table, marker, audit, cache>>
process == <<phase, mapping, todo, req>>
imports == <<brought, imported, missed, settled>>
bounds == <<starts, faults, moves>>
vars == <<tables, process, listing, used, imports, dropped, shifted, bounds>>

Binding == [id : Id, key : Key, set : Setting]
Stage == {"idle", "write", "audit", "list", "children", "upsert"}

Request ==
    [kind  : Kind \cup {"none"},
     id    : Id \cup {None},       \* row it is about
     key   : Key \cup {None},
     set   : Setting \cup {None},
     stage : Stage,
     from  : Nat,                  \* refresh: where the page began
     page  : Seq(Rooms),           \* refresh: rest of the page
     next  : Nat,                  \* refresh: next_batch, 0 when there is none
     as    : {"absent", "room", "space"},  \* refresh: what its next room is
     had   : SUBSET Rooms,         \* history: rooms when the refresh began
     out   : {"none", "ok", "invalid", "missing", "err", "cut"}]

Idle ==
    [kind |-> "none", id |-> None, key |-> None, set |-> None, stage |-> "idle",
     from |-> 0, page |-> <<>>, next |-> 0, as |-> "absent", had |-> {}, out |-> "none"]

Existing == {listing[n] : n \in DOMAIN listing}
Keys == {b.key : b \in table}
Row(i) == {b \in table : b.id = i}

Init ==
    /\ table = {} /\ marker = FALSE /\ audit = {}
    /\ cache = [t \in Rooms |-> "absent"]
    /\ phase = "down" /\ mapping = {} /\ todo = {}
    /\ req = [r \in Req |-> Idle]
    /\ listing = Listed
    /\ used = {} /\ brought = {} /\ imported = {} /\ missed = {} /\ settled = FALSE
    /\ dropped = {}
    /\ shifted = {}
    /\ starts = 0 /\ faults = 0 /\ moves = 0

Fault == faults < MaxFaults /\ faults' = faults + 1 /\ UNCHANGED <<starts, moves>>
NoFault == UNCHANGED bounds

At(r, s) == phase = "up" /\ req[r].stage = s /\ req[r].out = "none"
Become(r, q) == req' = [req EXCEPT ![r] = q]
End(r, o) == Become(r, [req[r] EXCEPT !.out = o])
ToAudit(r, i) == Become(r, [req[r] EXCEPT !.id = i, !.stage = "audit"])

\* The table refuses a second row for a key (UNIQUE in migration 0002).
Fits(k) == k \notin Keys
Insert(i, k, s) ==
    /\ i \notin used
    /\ table' = table \cup {[id |-> i, key |-> k, set |-> s]}
    /\ used' = used \cup {i}

-----------------------------------------------------------------------------
(***************************************************************************)
(* The process.                                                            *)
(***************************************************************************)
\* Without mappings nothing is looked at; the marker is not set either.
StartUp ==
    /\ phase = "down" /\ starts < MaxStarts
    /\ \E m \in Mappings :
         /\ mapping' = m /\ todo' = m
         /\ phase' = IF m = {} THEN "up" ELSE "check"
    /\ starts' = starts + 1
    /\ UNCHANGED <<tables, req, listing, used, imports, dropped, shifted, faults, moves>>

\* The process stops: what is in flight is lost.
Crash ==
    /\ phase # "down"
    /\ phase' = "down" /\ todo' = {} /\ mapping' = {}
    /\ req' = [r \in Req |-> IF req[r].kind # "none" /\ req[r].out = "none"
                             THEN [req[r] EXCEPT !.out = "cut"] ELSE req[r]]
    /\ UNCHANGED <<tables, listing, used, imports, dropped, shifted, bounds>>

Fails == Fault /\ phase' = "down" /\ todo' = {} /\ mapping' = {}

HasBootstrapped ==
    /\ phase = "check"
    /\ \/ NoFault /\ phase' = (IF marker THEN "up" ELSE "import")
          /\ settled' = (settled \/ marker) /\ UNCHANGED <<mapping, todo>>
       \/ Fails /\ UNCHANGED settled
    /\ UNCHANGED <<tables, req, listing, used, brought, imported, missed, dropped, shifted>>

\* Mutant: an insert that is refused ends the loop.
LeftAfterStrict(k) == IF Fits(k) THEN todo \ {k} ELSE {}

\* The loop goes on whatever came of the insert.
LeftAfter(k) == todo \ {k}

\* bootstrap_from_env: one mapping.  A refused insert, whatever the reason, is
\* passed over; no audit entry is written.
Import(k) ==
    /\ phase = "import" /\ k \in todo
    /\ todo' = LeftAfter(k)
    /\ \/ /\ Fits(k) /\ NoFault
          /\ \E i \in Id : Insert(i, k, Plain) /\ brought' = brought \cup {i}
          /\ UNCHANGED missed
       \/ ~Fits(k) /\ NoFault /\ UNCHANGED <<table, used, brought, missed>>
       \/ Fault /\ missed' = missed \cup {k} /\ UNCHANGED <<table, used, brought>>
    /\ UNCHANGED <<marker, audit, cache, phase, mapping, req, listing, imported, settled, dropped, shifted>>

\* Mutant: the marker is only set when something was imported.
MarksIfAny == brought # {}

\* mark_bootstrapped is called whatever the loop came to.
Marks == TRUE

MarkBootstrapped ==
    /\ phase = "import" /\ todo = {}
    /\ \/ /\ NoFault /\ phase' = "up" /\ marker' = Marks
          /\ imported' = mapping /\ settled' = TRUE
          /\ UNCHANGED <<mapping, todo>>
       \/ Fails /\ UNCHANGED <<marker, imported, settled>>
    /\ UNCHANGED <<table, audit, cache, req, listing, used, brought, missed, dropped, shifted>>

-----------------------------------------------------------------------------
(***************************************************************************)
(* Requests.  The id of an update or delete comes from a page the admin    *)
(* has seen, so its row may be gone by now.                                *)
(***************************************************************************)
Submit(r) ==
    /\ phase = "up" /\ req[r].kind = "none"
    /\ \E k \in Kinds[r] :
         LET q == [Idle EXCEPT !.kind = k, !.stage = "write"] IN
         \/ k = "create" /\ \E y \in Key, s \in Setting : Become(r, [q EXCEPT !.key = y, !.set = s])
         \/ k = "update" /\ \E i \in used, s \in Setting : Become(r, [q EXCEPT !.id = i, !.set = s])
         \/ k \in {"create", "update"} /\ Become(r, [q EXCEPT !.out = "invalid"])
         \/ k = "delete" /\ \E i \in used : Become(r, [q EXCEPT !.id = i])
         \/ k = "refresh" /\ Become(r, [q EXCEPT !.stage = "list", !.had = Existing,
                                          !.out = IF HasSynapse THEN "none" ELSE "missing"])
    /\ UNCHANGED <<tables, phase, mapping, todo, listing, used, imports, dropped, shifted, bounds>>

\* The future is dropped at its await.
Cut(r) ==
    /\ phase = "up" /\ req[r].kind # "none" /\ req[r].out = "none" /\ End(r, "cut")
    /\ UNCHANGED <<tables, phase, mapping, todo, listing, used, imports, dropped, shifted, bounds>>

CreateBinding(r) ==
    /\ At(r, "write") /\ req[r].kind = "create"
    /\ \/ Fits(req[r].key) /\ NoFault
          /\ \E i \in Id : Insert(i, req[r].key, req[r].set) /\ ToAudit(r, i)
       \/ ~Fits(req[r].key) /\ NoFault /\ End(r, "err") /\ UNCHANGED <<table, used>>
       \/ Fault /\ End(r, "err") /\ UNCHANGED <<table, used>>
    /\ UNCHANGED <<marker, audit, cache, phase, mapping, todo, listing, imports, dropped, shifted>>

UpdateBinding(r) ==
    /\ At(r, "write") /\ req[r].kind = "update"
    /\ \/ Row(req[r].id) # {} /\ NoFault /\ ToAudit(r, req[r].id)
          /\ table' = {IF b.id = req[r].id THEN [b EXCEPT !.set = req[r].set] ELSE b : b \in table}
       \/ Row(req[r].id) = {} /\ NoFault /\ End(r, "missing") /\ UNCHANGED table
       \/ Fault /\ End(r, "err") /\ UNCHANGED table
    /\ UNCHANGED <<marker, audit, cache, phase, mapping, todo, listing, used, imports, dropped, shifted>>

DeleteBinding(r) ==
    /\ At(r, "write") /\ req[r].kind = "delete"
    /\ \/ Row(req[r].id) # {} /\ NoFault /\ ToAudit(r, req[r].id)
          /\ table' = table \ Row(req[r].id)
          /\ dropped' = dropped \cup {b.key : b \in Row(req[r].id)}
       \/ Row(req[r].id) = {} /\ NoFault /\ End(r, "missing") /\ UNCHANGED <<table, dropped>>
       \/ Fault /\ End(r, "err") /\ UNCHANGED <<table, dropped>>
    /\ UNCHANGED <<marker, audit, cache, phase, mapping, todo, listing, used, imports, shifted>>

\* Mutants: the entry of an update names the setting of an import; an entry
\* names the key in place of the row.
EntryPlain(r) ==
    [by |-> r, kind |-> req[r].kind, id |-> req[r].id,
     set |-> IF req[r].kind = "update" THEN Plain ELSE req[r].set]
EntryOfKey(r) == [by |-> r, kind |-> req[r].kind, id |-> req[r].key, set |-> req[r].set]

Entry(r) == [by |-> r, kind |-> req[r].kind, id |-> req[r].id, set |-> req[r].set]

\* The entry after a write; an error is returned although the write stands.
Log(r) ==
    /\ At(r, "audit")
    /\ \/ NoFault /\ audit' = audit \cup {Entry(r)} /\ End(r, "ok")
       \/ Fault /\ End(r, "err") /\ UNCHANGED audit
    /\ UNCHANGED <<table, marker, cache, phase, mapping, todo, listing, used, imports, dropped, shifted>>

-----------------------------------------------------------------------------
(***************************************************************************)
(* The refresh of the room cache.  Synapse pages by offset.                *)
(***************************************************************************)
\* Mutant: the listing is taken to end with its first full page.
NextBatchNever(f) == 0

PageFrom(f) == SubSeq(listing, f + 1, IF f + Page < Len(listing) THEN f + Page ELSE Len(listing))
NextBatch(f) == IF f + Page < Len(listing) THEN f + Page ELSE 0

ListRooms(r) ==
    /\ At(r, "list")
    /\ \/ /\ NoFault
          /\ LET f == req[r].from
                 p == PageFrom(f)
             IN  Become(r, IF p = <<>> THEN [req[r] EXCEPT !.out = "ok"]
                           ELSE [req[r] EXCEPT !.page = p, !.next = NextBatch(f), !.stage = "children"])
       \/ Fault /\ End(r, "err")
    /\ UNCHANGED <<tables, phase, mapping, todo, listing, used, imports, dropped, shifted>>

\* A failed lookup passes for a room without children.
GetSpaceChildren(r) ==
    /\ At(r, "children")
    /\ LET is(a) == Become(r, [req[r] EXCEPT !.as = a, !.stage = "upsert"]) IN
         \/ NoFault /\ is(IF Head(req[r].page) \in Spaces THEN "space" ELSE "room")
         \/ Fault /\ is("room")
    /\ UNCHANGED <<tables, phase, mapping, todo, listing, used, imports, dropped, shifted>>

AfterUpsert(q) ==
    LET p == [q EXCEPT !.page = Tail(@), !.as = "absent"] IN
    CASE p.page # <<>> -> [p EXCEPT !.stage = "children"]
      [] p.page = <<>> /\ p.next # 0 -> [p EXCEPT !.stage = "list", !.from = p.next]
      [] OTHER -> [p EXCEPT !.out = "ok"]

UpsertCachedRoom(r) ==
    /\ At(r, "upsert")
    /\ \/ /\ NoFault /\ Become(r, AfterUpsert(req[r]))
          /\ cache' = [cache EXCEPT ![Head(req[r].page)] = req[r].as]
       \/ Fault /\ End(r, "err") /\ UNCHANGED cache
    /\ UNCHANGED <<table, marker, audit, phase, mapping, todo, listing, used, imports, dropped, shifted>>

\* Rooms come and go on Synapse meanwhile.
RoomAdded(t) ==
    /\ moves < MaxMoves /\ t \notin Existing
    /\ \E n \in 0..Len(listing) :
         listing' = SubSeq(listing, 1, n) \o <<t>> \o SubSeq(listing, n + 1, Len(listing))
    /\ moves' = moves + 1
    /\ UNCHANGED <<tables, process, used, imports, dropped, shifted, starts, faults>>

RoomRemoved(t) ==
    /\ moves < MaxMoves
    /\ \E n \in 1..Len(listing) :
         /\ listing[n] = t
         /\ listing' = SubSeq(listing, 1, n - 1) \o SubSeq(listing, n + 1, Len(listing))
    /\ shifted' = shifted \cup {r \in Req : req[r].kind = "refresh" /\ req[r].out = "none"}
    /\ moves' = moves + 1
    /\ UNCHANGED <<tables, process, used, imports, dropped, starts, faults>>

-----------------------------------------------------------------------------
Boot == StartUp \/ Crash \/ HasBootstrapped \/ (\E k \in Key : Import(k)) \/ MarkBootstrapped
Edit(r) == CreateBinding(r) \/ UpdateBinding(r) \/ DeleteBinding(r) \/ Log(r)
Refresh(r) == ListRooms(r) \/ GetSpaceChildren(r) \/ UpsertCachedRoom(r)
Synapse == \E t \in Rooms : RoomAdded(t) \/ RoomRemoved(t)

Next == Boot \/ Synapse \/ \E r \in Req : Submit(r) \/ Cut(r) \/ Edit(r) \/ Refresh(r)

Spec == Init /\ [][Next]_vars

-----------------------------------------------------------------------------
(***************************************************************************)
(* Properties.                                                             *)
(***************************************************************************)
AuditEntry == [by : Req, kind : Kind, id : Id, set : Setting \cup {None}]

\* The type invariant, with the table's own constraint: one row per id and key.
TypeOK ==
    /\ table \subseteq Binding
    /\ \A a, b \in table : a.id = b.id \/ a.key = b.key => a = b
    /\ marker \in BOOLEAN /\ settled \in BOOLEAN
    /\ audit \subseteq AuditEntry
    /\ cache \in [Rooms -> {"absent", "room", "space"}]
    /\ phase \in {"down", "check", "import", "up"}
    /\ mapping \subseteq Key /\ todo \subseteq mapping
    /\ req \in [Req -> Request]
    /\ listing \in Seq(Rooms)
    /\ used \subseteq Id /\ brought \subseteq used /\ {b.id : b \in table} \subseteq used
    /\ imported \subseteq Key /\ missed \subseteq Key /\ dropped \subseteq Key
    /\ shifted \subseteq Req
    /\ starts \in Nat /\ faults \in Nat /\ moves \in Nat

\* r has written its row and the entry for it is not in the log: not yet, or it
\* failed, or the request or the process was stopped before it.
Unlogged(r) == req[r].stage = "audit" /\ req[r].out # "ok"

Explains(i, s) ==
    \/ i \in brought /\ s = Plain
    \/ \E e \in audit : e.kind \in {"create", "update"} /\ e.id = i /\ e.set = s
    \/ \E r \in Req : req[r].kind \in {"create", "update"} /\ Unlogged(r)
                      /\ req[r].id = i /\ req[r].set = s

\* The audit log accounts for the table, whatever concurrent edits, failed
\* inserts and crashes have come between: the setting of every row stands in an
\* entry about it, and a row that is gone has its delete entry, except for what
\* the import wrote and for writes cut off from their entry (policy_service.rs).
TableTraced ==
    /\ \A b \in table : Explains(b.id, b.set)
    /\ \A i \in used : Row(i) = {} =>
         \/ \E e \in audit : e.kind = "delete" /\ e.id = i
         \/ \E r \in Req : req[r].kind = "delete" /\ Unlogged(r) /\ req[r].id = i

\* README: "After bootstrap, the database is the source of truth — changes to
\* the env var are ignored".  Once a start with mappings has come up, no later
\* start imports anything, whatever GROUP_MAPPINGS says then.
DatabaseIsTruth == [][settled => brought' = brought]_vars

\* The import that came to its end left a row for every mapping, also when an
\* earlier one had crashed half way: none is missing but those whose insert
\* failed and those an admin has deleted since (bootstrap_from_env).  That a second
\* start goes on with a half import is what the code does, which looks at the marker
\* only; README.md:255 says that it imports if "no bindings exist in the database".
ImportComplete ==
    imported \subseteq Keys \cup missed \cup dropped

\* A refresh that reports success has cached every room that was there when it
\* began, though rooms were added meanwhile, if none was removed
\* (refresh_room_cache: an offset names the same place only then).
RefreshSeesAll ==
    \A r \in Req \ shifted :
        req[r].kind = "refresh" /\ req[r].out = "ok" =>
            \A t \in req[r].had : cache[t] # "absent"
=============================================================================
