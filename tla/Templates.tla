------------------------------ MODULE Templates ------------------------------
(***************************************************************************)
(* The onboarding templates: a JSON file that create and delete load,      *)
(* change and save (handlers/templates.rs, models/onboarding_template.rs), *)
(* and that an invite and the pages read (handlers/invite.rs, dashboard).  *)
(*                                                                         *)
(* Nothing locks the file, and the handlers run on several threads: a save *)
(* opens the file, which empties it, and then writes.  Between these two   *)
(* there is no await, so a request cannot be dropped there; but another    *)
(* may read or write the file, and the process may stop.                   *)
(*                                                                         *)
(* The file is the list it begins with and a tail of older text behind it, *)
(* counted in templates.  An absent or empty file reads as the empty list. *)
(***************************************************************************)
EXTENDS Naturals, Sequences, FiniteSets, Filter

CONSTANTS
    Req,        \* requests, each made once
    Kinds,      \* Kinds[r]: what request r may be
    Name,       \* names of templates
    Grants,     \* what a template grants: its groups and roles
    None,       \* no name, no template
    MaxFaults,  \* bound: reads, writes and audit entries that fail
    MaxCrashes  \* bound: times the process stops

Kind == {"create", "delete", "invite", "page"}

ASSUME KindsAssumption == Kinds \in [Req -> SUBSET Kind]
ASSUME BoundsAssumption == MaxFaults \in Nat /\ MaxCrashes \in Nat
ASSUME NoneAssumption == None \notin Name \cup Grants

VARIABLES
    list, tail,  \* the file
    req,         \* the requests and how far each has come
    audit,       \* audit_logs
    \* history, never read by a guard of the program
    wanted,      \* the templates after the saves so far, had each been alone
    raced,       \* a request loaded the file while another was about to save it
    torn,        \* a save stopped between emptying the file and writing it
    faults, crashes

file == <<list, tail>>
vars == <<file, req, audit, wanted, raced, torn, faults, crashes>>

Template == [name : Name, grants : Grants]
Stage == {"idle", "open", "write", "audit", "end"}

Request ==
    [kind  : Kind \cup {"none"},
     name  : Name \cup {None},
     grants : Grants \cup {None},
     stage : Stage,
     copy  : Seq(Template),          \* the list to save
     found : Template \cup {None},   \* invite: the template it goes by
     wrote : BOOLEAN,                \* history: its list was written
     out   : {"none", "ok", "invalid", "exists", "unknown", "err", "cut"}]

Idle == [kind |-> "none", name |-> None, grants |-> None, stage |-> "idle",
         copy |-> <<>>, found |-> None, wrote |-> FALSE, out |-> "none"]

In(s) == {s[n] : n \in DOMAIN s}
Named(s, n) == {t \in In(s) : t.name = n}
Broken == tail > 0

Init ==
    /\ list = <<>> /\ tail = 0
    /\ req = [r \in Req |-> Idle]
    /\ audit = {}
    /\ wanted = {} /\ raced = FALSE /\ torn = FALSE
    /\ faults = 0 /\ crashes = 0

Fault == faults < MaxFaults /\ faults' = faults + 1
NoFault == UNCHANGED faults

Become(r, q) == req' = [req EXCEPT ![r] = q]
End(r, o) == Become(r, [req[r] EXCEPT !.stage = "end", !.copy = <<>>, !.out = o])
Saving(r) == req[r].stage \in {"open", "write"}

-----------------------------------------------------------------------------
(***************************************************************************)
(* What a request does with the file before its first await or save.       *)
(***************************************************************************)
Asked(r, k, n, g) == [req[r] EXCEPT !.kind = k, !.name = n, !.grants = g]
Ends(q, o) == [q EXCEPT !.stage = "end", !.out = o]
Saves(q, s) == [q EXCEPT !.stage = "open", !.copy = s]

\* Mutants: a file that cannot be parsed passes for an empty one; the check for
\* the name is left out.
UnreadableNever == FALSE
TakenNever(n) == FALSE

\* load_templates: what is read cannot be parsed when older text follows.
Unreadable == Broken

Taken(n) == Named(list, n) # {}

\* Mutant: the list is saved with the new template alone.
WithAlone(t) == <<t>>

With(t) == Append(list, t)
Without(n) == Filter(list, {t \in In(list) : t.name # n})

Create(r) ==
    \E n \in Name, g \in Grants :
      LET q == Asked(r, "create", n, g) IN
      \/ NoFault /\ ~Unreadable /\ Taken(n) /\ Become(r, Ends(q, "exists"))
      \/ NoFault /\ ~Unreadable /\ ~Taken(n) /\ Become(r, Saves(q, With([name |-> n, grants |-> g])))
      \/ NoFault /\ Unreadable /\ Become(r, Ends(q, "err"))
      \/ Fault /\ Become(r, Ends(q, "err"))
      \/ NoFault /\ Become(r, Ends(q, "invalid"))

\* A name that is not in the list is no error.
Delete(r) ==
    \E n \in Name :
      LET q == Asked(r, "delete", n, None) IN
      \/ NoFault /\ ~Unreadable /\ Become(r, Saves(q, Without(n)))
      \/ NoFault /\ Unreadable /\ Become(r, Ends(q, "err"))
      \/ Fault /\ Become(r, Ends(q, "err"))
      \/ NoFault /\ Become(r, Ends(q, "invalid"))

\* admin_invite, handle_invite: up to the call of invite_user.
Invite(r) ==
    \E n \in Name :
      LET q == Asked(r, "invite", n, None) IN
      \/ NoFault /\ ~Unreadable
         /\ \E t \in Named(list, n) : Become(r, Ends([q EXCEPT !.found = t], "ok"))
      \/ NoFault /\ ~Unreadable /\ ~Taken(n) /\ Become(r, Ends(q, "unknown"))
      \/ NoFault /\ Become(r, Ends([q EXCEPT !.name = None], "ok"))
      \/ NoFault /\ Unreadable /\ Become(r, Ends(q, "err"))
      \/ Fault /\ Become(r, Ends(q, "err"))
      \/ NoFault /\ Become(r, Ends(q, "invalid"))

\* The template list and the dashboard show no templates for a file that cannot
\* be read.
Page(r) == NoFault /\ Become(r, [Ends(Asked(r, "page", None, None), "ok")
                                 EXCEPT !.copy = IF Unreadable THEN <<>> ELSE list])

Arrive(r) ==
    /\ req[r].stage = "idle"
    /\ \/ "create" \in Kinds[r] /\ Create(r)
       \/ "delete" \in Kinds[r] /\ Delete(r)
       \/ "invite" \in Kinds[r] /\ Invite(r)
       \/ "page" \in Kinds[r] /\ Page(r)
    /\ raced' = (raced \/ (req'[r].stage = "open" /\ \E x \in Req : Saving(x)))
    /\ UNCHANGED <<file, audit, wanted, torn, crashes>>

-----------------------------------------------------------------------------
(***************************************************************************)
(* save_templates and what follows.                                        *)
(***************************************************************************)
\* std::fs::write opens the file and empties it ...
Open(r) ==
    /\ req[r].stage = "open"
    /\ \/ NoFault /\ list' = <<>> /\ tail' = 0 /\ Become(r, [req[r] EXCEPT !.stage = "write"])
       \/ Fault /\ End(r, "err") /\ UNCHANGED file
    /\ UNCHANGED <<audit, wanted, raced, torn, crashes>>

Over(s) == IF Len(list) + tail > Len(s) THEN Len(list) + tail - Len(s) ELSE 0

Wanted(r) ==
    {t \in wanted : t.name # req[r].name}
        \cup IF req[r].kind = "create" THEN {[name |-> req[r].name, grants |-> req[r].grants]} ELSE {}

\* ... and writes from its start, over what another save has put there.
Write(r) ==
    /\ req[r].stage = "write"
    /\ \/ /\ NoFault /\ list' = req[r].copy /\ tail' = Over(req[r].copy)
          /\ Become(r, [req[r] EXCEPT !.stage = "audit", !.wrote = TRUE])
          /\ wanted' = Wanted(r) /\ UNCHANGED torn
       \/ /\ Fault /\ End(r, "err") /\ torn' = TRUE
          /\ \/ UNCHANGED file
             \/ list' = <<>> /\ tail' = Len(list) + tail + 1
          /\ UNCHANGED wanted
    /\ UNCHANGED <<audit, raced, crashes>>

\* Mutants: the entry does not say what the template grants; it names the
\* request by another word.
EntryBare(r) == [kind |-> req[r].kind, name |-> req[r].name, grants |-> None]
EntrySave(r) == [kind |-> "save", name |-> req[r].name, grants |-> req[r].grants]

Entry(r) == [kind |-> req[r].kind, name |-> req[r].name, grants |-> req[r].grants]

Log(r) ==
    /\ req[r].stage = "audit"
    /\ \/ NoFault /\ audit' = audit \cup {Entry(r)} /\ End(r, "ok")
       \/ Fault /\ End(r, "err") /\ UNCHANGED audit
    /\ UNCHANGED <<file, wanted, raced, torn, crashes>>

\* The future is dropped at its only await behind a change.
Cut(r) ==
    /\ req[r].stage = "audit" /\ End(r, "cut")
    /\ UNCHANGED <<file, audit, wanted, raced, torn, faults, crashes>>

\* The process stops and is started again.
Crash ==
    /\ crashes < MaxCrashes /\ crashes' = crashes + 1
    /\ torn' = (torn \/ \E r \in Req : req[r].stage = "write")
    /\ req' = [r \in Req |-> IF req[r].stage \in {"idle", "end"} THEN req[r]
                             ELSE [req[r] EXCEPT !.stage = "end", !.copy = <<>>, !.out = "cut"]]
    /\ UNCHANGED <<file, audit, wanted, raced, faults>>

Next == Crash \/ \E r \in Req : Arrive(r) \/ Open(r) \/ Write(r) \/ Log(r) \/ Cut(r)

Spec == Init /\ [][Next]_vars

-----------------------------------------------------------------------------
(***************************************************************************)
(* Properties.                                                             *)
(***************************************************************************)
TypeOK ==
    /\ list \in Seq(Template) /\ tail \in Nat
    /\ req \in [Req -> Request]
    /\ audit \subseteq [kind : {"create", "delete"}, name : Name, grants : Grants \cup {None}]
    /\ wanted \subseteq Template /\ raced \in BOOLEAN /\ torn \in BOOLEAN
    /\ faults \in Nat /\ crashes \in Nat

\* No two templates of a name, whatever saves have crossed: an invite that names
\* one means one (create checks the list it loaded, not the file it writes).
NamesUnique == \A m, n \in DOMAIN list : list[m].name = list[n].name => m = n

\* Saves that did not overlap and were not stopped half way add up: between two
\* saves the file is readable and holds what was created and not deleted since.
FileIsWanted ==
    ~raced /\ ~torn /\ (\A r \in Req : req[r].stage # "write") => tail = 0 /\ In(list) = wanted

\* A file that cannot be read stays that way for someone to repair, once the
\* saves under way are over: no handler takes it for an empty list and goes on to
\* write that back, though the pages show it as empty (load_templates is an error
\* to create and delete, and unwrap_or_default to the pages).
BrokenKept == [][Broken /\ (\A r \in Req : ~Saving(r))
                    => UNCHANGED file /\ \A r \in Req : req'[r].stage # "open"]_vars

\* An admin created it as it stands, and the log says so, or its request came to
\* its end without an entry.
Created(t) ==
    \/ \E e \in audit : e.kind = "create" /\ e.name = t.name /\ e.grants = t.grants
    \/ \E r \in Req : /\ req[r].kind = "create" /\ req[r].wrote /\ req[r].out # "ok"
                      /\ req[r].name = t.name /\ req[r].grants = t.grants

\* Crossing saves and crashes lose templates and bring deleted ones back, but
\* they make none up: what the file lists, and what an invite grants by, was
\* created like that, and the audit log knows of it (create, admin_invite).
TemplatesTraced ==
    /\ \A t \in In(list) : Created(t)
    /\ \A r \in Req : req[r].found # None => Created(req[r].found)
=============================================================================
