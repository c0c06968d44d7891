---------------------------- MODULE TemplatesProofs ----------------------------
(***************************************************************************)
(* Proofs about the onboarding templates, for any requests, names, grants  *)
(* and bounds.                                                             *)
(***************************************************************************)
EXTENDS Templates, FilterProofs

Uniq(s) == \A m, n \in DOMAIN s : s[m].name = s[n].name => m = n

\* What a request knows by its stage.
Stages ==
    \A r \in Req :
      /\ req[r].stage = "idle" => req[r] = Idle
      /\ req[r].stage \in {"open", "write", "audit"} =>
            /\ req[r].kind \in {"create", "delete"} /\ req[r].name \in Name
            /\ req[r].kind = "create" => req[r].grants \in Grants
            /\ req[r].out = "none"
      /\ Saving(r) => ~req[r].wrote
      /\ req[r].stage = "audit" => req[r].wrote

\* A list is checked for the name when it is loaded and saved as it was loaded:
\* the lists under way are as free of doubles as the file.
CopiesUnique == \A r \in Req : Saving(r) => Uniq(req[r].copy)

\* A list under way holds what was created, and the template it is to add.
Adds(r, t) == req[r].kind = "create" /\ t.name = req[r].name /\ t.grants = req[r].grants
CopiesTraced ==
    \A r \in Req : Saving(r) => \A t \in In(req[r].copy) : Created(t) \/ Adds(r, t)

\* While no request has loaded the file behind another's back, one saves at a time.
OneSaves == ~raced => \A x, y \in Req : Saving(x) /\ Saving(y) => x = y

\* ... and, when no save was stopped half way, it is about to make the file what
\* is wanted.
SavesWanted ==
    ~raced /\ ~torn =>
        /\ \A r \in Req : Saving(r) => In(req[r].copy) = Wanted(r)
        /\ \A r \in Req : req[r].stage = "write" => list = <<>> /\ tail = 0

Inv == /\ TypeOK /\ Stages
       /\ NamesUnique /\ CopiesUnique
       /\ TemplatesTraced /\ CopiesTraced
       /\ FileIsWanted /\ OneSaves /\ SavesWanted

-----------------------------------------------------------------------------
(***************************************************************************)
(* The lists that create and delete save.                                  *)
(***************************************************************************)
LEMMA WithType ==
    ASSUME NEW t \in Template, list \in Seq(Template)
    PROVE  With(t) \in Seq(Template)
BY AppendProperties DEF With

LEMMA WithHolds ==
    ASSUME NEW t \in Template, list \in Seq(Template)
    PROVE  In(With(t)) = In(list) \cup {t}
<1> DEFINE s == With(t)
<1>1. /\ s \in Seq(Template) /\ Len(s) = Len(list) + 1 /\ Len(list) \in Nat
      /\ \A i \in 1..Len(list) : s[i] = list[i]
      /\ s[Len(list) + 1] = t
  BY AppendProperties DEF With
<1>2. DOMAIN s = 1..(Len(list) + 1) /\ DOMAIN list = 1..Len(list)
  BY <1>1
<1> HIDE DEF s
<1>3. ASSUME NEW i \in DOMAIN s PROVE s[i] \in In(list) \cup {t}
  <2>1. CASE i \in 1..Len(list)
    BY <1>1, <1>2, <2>1 DEF In
  <2>2. CASE i = Len(list) + 1
    BY <1>1, <2>2
  <2> QED
    BY <1>1, <1>2, <2>1, <2>2
<1>4. ASSUME NEW i \in DOMAIN list PROVE \E j \in DOMAIN s : s[j] = list[i]
  BY <1>1, <1>2
<1>5. \E j \in DOMAIN s : s[j] = t
  BY <1>1, <1>2
<1> QED
  BY <1>3, <1>4, <1>5 DEF In, s

LEMMA WithUnique ==
    ASSUME NEW t \in Template, list \in Seq(Template), Uniq(list), ~Taken(t.name)
    PROVE  Uniq(With(t))
<1> DEFINE s == With(t)
<1>1. /\ s \in Seq(Template) /\ Len(s) = Len(list) + 1 /\ Len(list) \in Nat
      /\ \A i \in 1..Len(list) : s[i] = list[i]
      /\ s[Len(list) + 1] = t
  BY AppendProperties DEF With
<1>2. DOMAIN s = 1..(Len(list) + 1) /\ DOMAIN list = 1..Len(list)
  BY <1>1
<1>3. \A i \in 1..Len(list) : list[i].name # t.name
  BY <1>2 DEF Taken, Named, In
<1> HIDE DEF s
<1>4. ASSUME NEW m \in DOMAIN s, NEW n \in DOMAIN s, s[m].name = s[n].name
      PROVE  m = n
  <2>1. CASE m \in 1..Len(list) /\ n \in 1..Len(list)
    BY <1>1, <1>2, <1>4, <2>1 DEF Uniq
  <2>2. CASE m = Len(list) + 1 /\ n \in 1..Len(list)
    BY <1>1, <1>3, <1>4, <2>2
  <2>3. CASE n = Len(list) + 1 /\ m \in 1..Len(list)
    BY <1>1, <1>3, <1>4, <2>3
  <2> QED
    BY <1>1, <1>2, <2>1, <2>2, <2>3
<1> QED
  BY <1>4 DEF Uniq, s

LEMMA WithoutType ==
    ASSUME NEW n, list \in Seq(Template)
    PROVE  Without(n) \in Seq(Template)
<1> DEFINE T == {t \in In(list) : t.name # n}
<1>1. Filter(list, T) \in Seq(Template \cap T)
  BY FilterType
<1>2. Template \cap T \subseteq Template
  OBVIOUS
<1> QED
  BY <1>1, <1>2, SeqMonotonic DEF Without

LEMMA WithoutHolds ==
    ASSUME NEW n, list \in Seq(Template)
    PROVE  In(Without(n)) = {t \in In(list) : t.name # n}
<1> DEFINE T == {t \in In(list) : t.name # n}
<1>1. Without(n) = Filter(list, T) /\ T \subseteq In(list) /\ \A t \in In(list) : t \in T <=> t.name # n
  BY DEF Without
<1> HIDE DEF T
<1>2. {Filter(list, T)[k] : k \in DOMAIN Filter(list, T)} = {list[j] : j \in DOMAIN list} \cap T
  BY FilterRange
<1>3. In(Without(n)) = In(list) \cap T
  BY <1>1, <1>2 DEF In
<1> QED
  BY <1>1, <1>3

LEMMA FilterUnique ==
    ASSUME NEW T, list \in Seq(Template), Uniq(list)
    PROVE  Uniq(Filter(list, T))
<1> DEFINE F == Filter(list, T)
<1>1. F \in Seq(Template \cap T)
  BY FilterType
<1>2. DOMAIN F = 1..Len(F) /\ DOMAIN list = 1..Len(list)
  BY <1>1
<1>3. ASSUME NEW k \in DOMAIN F, NEW m \in DOMAIN F, F[k].name = F[m].name
      PROVE  k = m
  <2>0. k \in 1..Len(Filter(list, T)) /\ m \in 1..Len(Filter(list, T))
    BY <1>2
  <2>1. PICK i \in 1..Len(list) : list[i] \in T /\ k = Place(list, T, i) /\ F[k] = list[i]
    BY <2>0, FilterFrom
  <2>2. PICK j \in 1..Len(list) : list[j] \in T /\ m = Place(list, T, j) /\ F[m] = list[j]
    BY <2>0, FilterFrom
  <2>3. i = j
    BY <1>2, <1>3, <2>1, <2>2 DEF Uniq
  <2> QED
    BY <2>1, <2>2, <2>3
<1> QED
  BY <1>3 DEF Uniq

LEMMA WithoutUnique ==
    ASSUME NEW n, list \in Seq(Template), Uniq(list)
    PROVE  Uniq(Without(n))
BY FilterUnique DEF Without

-----------------------------------------------------------------------------
(***************************************************************************)
(* What a step is, for the file.                                           *)
(***************************************************************************)
\* It leaves the file and the lists under way alone, or ends a save.
Quiet ==
    /\ UNCHANGED <<list, tail, wanted, raced>>
    /\ torn => torn'
    /\ \A x \in Req :
         /\ req'[x].stage \in {"open", "write"} => req'[x] = req[x]
         /\ req[x].stage = "write" /\ req'[x].stage # "write" => torn'
         /\ req'[x].found # None => req'[x].found \in {req[x].found} \cup In(list)

\* It loads the file to save it changed.
Loads(r, q) ==
    /\ req' = [req EXCEPT ![r] = q]
    /\ req[r].stage = "idle"
    /\ q \in Request /\ q.stage = "open" /\ q.out = "none" /\ q.found = None /\ ~q.wrote
    /\ ~Broken /\ q.name \in Name
    /\ \/ /\ q.kind = "create" /\ q.grants \in Grants /\ ~Taken(q.name)
          /\ q.copy = With([name |-> q.name, grants |-> q.grants])
       \/ q.kind = "delete" /\ q.copy = Without(q.name)
    /\ raced' = (raced \/ \E x \in Req : Saving(x))
    /\ UNCHANGED <<list, tail, audit, wanted, torn>>

Opens(r) ==
    /\ req[r].stage = "open"
    /\ req' = [req EXCEPT ![r] = [req[r] EXCEPT !.stage = "write"]]
    /\ list' = <<>> /\ tail' = 0
    /\ UNCHANGED <<audit, wanted, raced, torn>>

Writes(r) ==
    /\ req[r].stage = "write"
    /\ req' = [req EXCEPT ![r] = [req[r] EXCEPT !.stage = "audit", !.wrote = TRUE]]
    /\ list' = req[r].copy /\ tail' = Over(req[r].copy)
    /\ wanted' = Wanted(r)
    /\ UNCHANGED <<audit, raced, torn>>

Garbles(r) ==
    /\ req[r].stage = "write"
    /\ req' = [req EXCEPT ![r] = [req[r] EXCEPT !.stage = "end", !.copy = <<>>, !.out = "err"]]
    /\ list' = <<>> /\ tail' = Len(list) + tail + 1
    /\ torn' = TRUE
    /\ UNCHANGED <<audit, wanted, raced>>

\* A request as it is while its handler runs.
Begun(q, k, n, g) ==
    /\ q \in Request /\ q.kind = k /\ q.name = n /\ q.grants = g
    /\ q.found = None /\ q.wrote = FALSE /\ q.out = "none"

LEMMA AskedIs ==
    ASSUME NEW r \in Req, req[r] = Idle, NEW k \in Kind, NEW n \in Name \cup {None},
           NEW g \in Grants \cup {None}
    PROVE  Begun(Asked(r, k, n, g), k, n, g)
<1>1. Idle \in Request /\ Idle.found = None /\ Idle.wrote = FALSE /\ Idle.out = "none"
  BY EmptySeq DEF Idle, Request, Kind, Stage
<1> QED
  BY <1>1 DEF Asked, Request, Begun

LEMMA EndsIs ==
    ASSUME TypeOK, NEW r \in Req, NEW a \in Request, ~a.wrote,
           NEW o \in {"ok", "exists", "unknown", "err", "invalid"},
           a.found # None => a.found \in In(list), Become(r, Ends(a, o))
    PROVE  \E q \in Request : /\ req' = [req EXCEPT ![r] = q] /\ ~q.wrote
                              /\ q.stage = "end" /\ (q.found # None => q.found \in In(list))
<1>1. /\ Ends(a, o) \in Request /\ Ends(a, o).wrote = a.wrote
      /\ Ends(a, o).stage = "end" /\ Ends(a, o).found = a.found
  BY DEF Ends, Request, Stage
<1> QED
  BY <1>1 DEF Become

LEMMA SavesIs ==
    ASSUME TypeOK, NEW r \in Req, req[r].stage = "idle", Arrive(r), ~Unreadable,
           NEW a \in Request, ~a.wrote, a.found = None, a.out = "none", a.name \in Name,
           NEW w \in Seq(Template), Become(r, Saves(a, w)),
           \/ a.kind = "create" /\ a.grants \in Grants /\ ~Taken(a.name)
              /\ w = With([name |-> a.name, grants |-> a.grants])
           \/ a.kind = "delete" /\ w = Without(a.name)
    PROVE  \E q \in Request : req' = [req EXCEPT ![r] = q] /\ ~q.wrote /\ Loads(r, q)
<1> DEFINE q == Saves(a, w)
<1>1. /\ q \in Request /\ q.wrote = a.wrote /\ q.found = a.found /\ q.out = a.out
      /\ q.stage = "open" /\ q.copy = w
      /\ q.kind = a.kind /\ q.name = a.name /\ q.grants = a.grants
  BY DEF Saves, Request, Stage
<1> HIDE DEF q
<1>2. req' = [req EXCEPT ![r] = q]
  BY DEF Become, q
<1>3. raced' = (raced \/ \E x \in Req : Saving(x))
  BY <1>1, <1>2 DEF Arrive, TypeOK
<1>4. UNCHANGED <<list, tail, audit, wanted, torn>> /\ ~Broken
  BY DEF Arrive, file, Unreadable
<1>5. Loads(r, q)
  BY <1>1, <1>2, <1>3, <1>4 DEF Loads
<1> QED
  BY <1>1, <1>2, <1>5

LEMMA ArriveIs ==
    ASSUME TypeOK, Stages, NEW r \in Req, Arrive(r)
    PROVE  \E q \in Request :
             /\ req' = [req EXCEPT ![r] = q]
             /\ ~q.wrote
             /\ \/ q.stage = "end" /\ (q.found # None => q.found \in In(list))
                \/ Loads(r, q)
<1>0. req[r] = Idle /\ req[r].stage = "idle" /\ list \in Seq(Template)
  BY DEF TypeOK, Stages, Arrive
<1>2. CASE Create(r)
  <2>1. PICK n \in Name, g \in Grants :
          LET q == Asked(r, "create", n, g) IN
          \/ NoFault /\ ~Unreadable /\ Taken(n) /\ Become(r, Ends(q, "exists"))
          \/ NoFault /\ ~Unreadable /\ ~Taken(n) /\ Become(r, Saves(q, With([name |-> n, grants |-> g])))
          \/ NoFault /\ Unreadable /\ Become(r, Ends(q, "err"))
          \/ Fault /\ Become(r, Ends(q, "err"))
          \/ NoFault /\ Become(r, Ends(q, "invalid"))
    BY <1>2 DEF Create
  <2> DEFINE a == Asked(r, "create", n, g)
             w == With([name |-> n, grants |-> g])
  <2>2. /\ a \in Request /\ a.kind = "create" /\ a.name = n /\ a.grants = g
        /\ a.found = None /\ a.wrote = FALSE /\ a.out = "none"
    <3>1. "create" \in Kind /\ n \in Name \cup {None} /\ g \in Grants \cup {None}
      BY DEF Kind
    <3>2. Begun(a, "create", n, g)
      BY <1>0, <3>1, AskedIs
    <3> HIDE DEF a
    <3> QED
      BY <3>2 DEF Begun
  <2>3. w \in Seq(Template)
    BY <1>0, WithType DEF Template
  <2>4. \/ \E o \in {"exists", "err", "invalid"} : Become(r, Ends(a, o))
        \/ ~Unreadable /\ ~Taken(n) /\ Become(r, Saves(a, w))
    BY <2>1
  <2>5. w = With([name |-> a.name, grants |-> a.grants])
    BY <2>2
  <2> HIDE DEF a, w
  <2>6. CASE \E o \in {"exists", "err", "invalid"} : Become(r, Ends(a, o))
    BY <2>2, <2>6, EndsIs
  <2>7. CASE ~Unreadable /\ ~Taken(n) /\ Become(r, Saves(a, w))
    BY <1>0, <2>2, <2>3, <2>5, <2>7, SavesIs
  <2> QED
    BY <2>4, <2>6, <2>7
<1>3. CASE Delete(r)
  <2>1. PICK n \in Name :
          LET q == Asked(r, "delete", n, None) IN
          \/ NoFault /\ ~Unreadable /\ Become(r, Saves(q, Without(n)))
          \/ NoFault /\ Unreadable /\ Become(r, Ends(q, "err"))
          \/ Fault /\ Become(r, Ends(q, "err"))
          \/ NoFault /\ Become(r, Ends(q, "invalid"))
    BY <1>3 DEF Delete
  <2> DEFINE a == Asked(r, "delete", n, None)
             w == Without(n)
  <2>2. /\ a \in Request /\ a.kind = "delete" /\ a.name = n
        /\ a.found = None /\ a.wrote = FALSE /\ a.out = "none"
    <3>1. "delete" \in Kind /\ n \in Name \cup {None} /\ None \in Grants \cup {None}
      BY DEF Kind
    <3>2. Begun(a, "delete", n, None)
      BY <1>0, <3>1, AskedIs
    <3> HIDE DEF a
    <3> QED
      BY <3>2 DEF Begun
  <2>3. w \in Seq(Template)
    BY <1>0, WithoutType
  <2>4. \/ \E o \in {"err", "invalid"} : Become(r, Ends(a, o))
        \/ ~Unreadable /\ Become(r, Saves(a, w))
    BY <2>1
  <2>5. w = Without(a.name)
    BY <2>2
  <2> HIDE DEF a, w
  <2>6. CASE \E o \in {"err", "invalid"} : Become(r, Ends(a, o))
    BY <2>2, <2>6, EndsIs
  <2>7. CASE ~Unreadable /\ Become(r, Saves(a, w))
    BY <1>0, <2>2, <2>3, <2>5, <2>7, SavesIs
  <2> QED
    BY <2>4, <2>6, <2>7
<1>4. CASE Invite(r)
  <2>1. PICK n \in Name :
          LET q == Asked(r, "invite", n, None) IN
          \/ NoFault /\ ~Unreadable
             /\ \E t \in Named(list, n) : Become(r, Ends([q EXCEPT !.found = t], "ok"))
          \/ NoFault /\ ~Unreadable /\ ~Taken(n) /\ Become(r, Ends(q, "unknown"))
          \/ NoFault /\ Become(r, Ends([q EXCEPT !.name = None], "ok"))
          \/ NoFault /\ Unreadable /\ Become(r, Ends(q, "err"))
          \/ Fault /\ Become(r, Ends(q, "err"))
          \/ NoFault /\ Become(r, Ends(q, "invalid"))
    BY <1>4 DEF Invite
  <2> DEFINE a == Asked(r, "invite", n, None)
  <2>2. a \in Request /\ a.found = None /\ a.wrote = FALSE
    <3>1. "invite" \in Kind /\ n \in Name \cup {None} /\ None \in Grants \cup {None}
      BY DEF Kind
    <3>2. Begun(a, "invite", n, None)
      BY <1>0, <3>1, AskedIs
    <3> HIDE DEF a
    <3> QED
      BY <3>2 DEF Begun
  <2>3. \/ \E t \in Named(list, n) : Become(r, Ends([a EXCEPT !.found = t], "ok"))
        \/ \E o \in {"unknown", "err", "invalid"} : Become(r, Ends(a, o))
        \/ Become(r, Ends([a EXCEPT !.name = None], "ok"))
    BY <2>1
  <2> HIDE DEF a
  <2>4. ASSUME NEW t \in Named(list, n), Become(r, Ends([a EXCEPT !.found = t], "ok"))
        PROVE  \E q \in Request : /\ req' = [req EXCEPT ![r] = q] /\ ~q.wrote
                                  /\ q.stage = "end" /\ (q.found # None => q.found \in In(list))
    <3>1. t \in In(list) /\ t \in Template
      BY <1>0 DEF Named, In
    <3>2. /\ [a EXCEPT !.found = t] \in Request /\ [a EXCEPT !.found = t].found = t
          /\ [a EXCEPT !.found = t].wrote = FALSE
      BY <2>2, <3>1 DEF Request
    <3> QED
      BY <2>4, <3>1, <3>2, EndsIs
  <2>5. CASE \E o \in {"unknown", "err", "invalid"} : Become(r, Ends(a, o))
    BY <2>2, <2>5, EndsIs
  <2>6. CASE Become(r, Ends([a EXCEPT !.name = None], "ok"))
    <3>1. /\ [a EXCEPT !.name = None] \in Request /\ [a EXCEPT !.name = None].found = None
          /\ [a EXCEPT !.name = None].wrote = FALSE
      BY <2>2 DEF Request
    <3> QED
      BY <2>6, <3>1, EndsIs
  <2> QED
    BY <2>3, <2>4, <2>5, <2>6
<1>5. CASE Page(r)
  <2> DEFINE c == IF Unreadable THEN <<>> ELSE list
             a == Asked(r, "page", None, None)
             q == [Ends(a, "ok") EXCEPT !.copy = c]
  <2>1. c \in Seq(Template)
    BY <1>0, EmptySeq
  <2>2. a \in Request /\ a.found = None /\ a.wrote = FALSE
    <3>1. "page" \in Kind /\ None \in Name \cup {None} /\ None \in Grants \cup {None}
      BY DEF Kind
    <3>2. Begun(a, "page", None, None)
      BY <1>0, <3>1, AskedIs
    <3> HIDE DEF a
    <3> QED
      BY <3>2 DEF Begun
  <2>3. req' = [req EXCEPT ![r] = q]
    BY <1>5 DEF Page, Become
  <2> HIDE DEF a, c
  <2>4. q \in Request /\ q.found = None /\ q.wrote = FALSE /\ q.stage = "end"
    BY <2>1, <2>2 DEF Ends, Request, Stage
  <2> QED
    BY <2>3, <2>4
<1> QED
  BY <1>2, <1>3, <1>4, <1>5 DEF Arrive

LEMMA StepIs ==
    ASSUME TypeOK, Stages, [Next]_vars
    PROVE  \/ Quiet
           \/ \E r \in Req : \/ \E q \in Request : Loads(r, q)
                             \/ Opens(r) \/ Writes(r) \/ Garbles(r)
<1>0. \A x \in Req : req[x] \in Request
  BY DEF TypeOK
<1>1. ASSUME NEW r \in Req, Arrive(r)
      PROVE  Quiet \/ \E q \in Request : Loads(r, q)
  <2>1. PICK q \in Request : /\ req' = [req EXCEPT ![r] = q]
                             /\ ~q.wrote
                             /\ \/ q.stage = "end" /\ (q.found # None => q.found \in In(list))
                                \/ Loads(r, q)
    BY <1>1, ArriveIs
  <2>2. CASE q.stage = "end" /\ (q.found # None => q.found \in In(list))
    <3>1. req'[r] = q /\ req[r].stage = "idle" /\ \A x \in Req : x # r => req'[x] = req[x]
      BY <1>1, <2>1 DEF Arrive, TypeOK
    <3>2. UNCHANGED <<list, tail, wanted, raced>> /\ (torn => torn')
      BY <1>1, <2>2, <3>1 DEF Arrive, file, TypeOK
    <3> QED
      BY <2>2, <3>1, <3>2 DEF Quiet
  <2> QED
    BY <2>1, <2>2
<1>2. ASSUME NEW r \in Req, Open(r)
      PROVE  Quiet \/ Opens(r)
  <2>1. CASE End(r, "err") /\ UNCHANGED file
    BY <1>0, <1>2, <2>1 DEF Open, End, Become, Quiet, file, Request, TypeOK
  <2>2. CASE list' = <<>> /\ tail' = 0 /\ Become(r, [req[r] EXCEPT !.stage = "write"])
    BY <1>2, <2>2 DEF Open, Opens, Become
  <2> QED
    BY <1>2, <2>1, <2>2 DEF Open
<1>3. ASSUME NEW r \in Req, Write(r)
      PROVE  Quiet \/ Writes(r) \/ Garbles(r)
  <2>1. CASE /\ list' = req[r].copy /\ tail' = Over(req[r].copy)
             /\ Become(r, [req[r] EXCEPT !.stage = "audit", !.wrote = TRUE])
             /\ wanted' = Wanted(r) /\ UNCHANGED torn
    BY <1>3, <2>1 DEF Write, Writes, Become
  <2>2. CASE End(r, "err") /\ torn' = TRUE /\ UNCHANGED file /\ UNCHANGED wanted
    BY <1>0, <1>3, <2>2 DEF Write, End, Become, Quiet, file, Request, TypeOK
  <2>3. CASE /\ End(r, "err") /\ torn' = TRUE /\ UNCHANGED wanted
             /\ list' = <<>> /\ tail' = Len(list) + tail + 1
    BY <1>3, <2>3 DEF Write, End, Become, Garbles
  <2> QED
    BY <1>3, <2>1, <2>2, <2>3 DEF Write
<1>4. ASSUME NEW r \in Req, Log(r)
      PROVE  Quiet
  <2>1. PICK o \in {"ok", "err"} : End(r, o)
    BY <1>4 DEF Log
  <2>2. /\ req'[r].stage = "end" /\ req'[r].found = req[r].found
        /\ \A x \in Req : x # r => req'[x] = req[x]
    BY <1>0, <2>1 DEF End, Become, Request, TypeOK
  <2> QED
    BY <1>4, <2>2 DEF Log, Quiet, file
<1>5. ASSUME NEW r \in Req, Cut(r)
      PROVE  Quiet
  BY <1>0, <1>5 DEF Cut, End, Become, Quiet, file, Request, TypeOK
<1>6. ASSUME Crash
      PROVE  Quiet
  <2>1. ASSUME NEW x \in Req
        PROVE  /\ req'[x].stage \in {"open", "write"} => req'[x] = req[x]
               /\ req[x].stage = "write" => torn'
               /\ req'[x].found = req[x].found
    BY <1>0, <1>6 DEF Crash, Request
  <2> QED
    BY <1>6, <2>1 DEF Crash, Quiet, file, TypeOK
<1>7. ASSUME UNCHANGED vars
      PROVE  Quiet
  BY <1>7 DEF Quiet, vars, file
<1> QED
  BY <1>1, <1>2, <1>3, <1>4, <1>5, <1>6, <1>7 DEF Next

-----------------------------------------------------------------------------
(***************************************************************************)
(* Types and stages.                                                       *)
(***************************************************************************)
\* The part of a step that is about one request.
OneStage(q) ==
    /\ q.stage = "idle" => q = Idle
    /\ q.stage \in {"open", "write", "audit"} =>
          /\ q.kind \in {"create", "delete"} /\ q.name \in Name
          /\ q.kind = "create" => q.grants \in Grants
          /\ q.out = "none"
    /\ q.stage \in {"open", "write"} => ~q.wrote
    /\ q.stage = "audit" => q.wrote

LEMMA StagesAre == Stages <=> \A r \in Req : OneStage(req[r])
BY DEF Stages, OneStage, Saving

LEMMA TypeInit == Init => TypeOK /\ Stages
<1> SUFFICES ASSUME Init PROVE TypeOK /\ Stages
  OBVIOUS
<1>1. <<>> \in Seq(Template)
  BY EmptySeq
<1>2. Idle \in Request
  BY <1>1 DEF Idle, Request, Kind, Stage
<1>3. \A r \in Req : req[r] = Idle
  BY DEF Init
<1> QED
  BY <1>1, <1>2, <1>3 DEF Init, TypeOK, Stages, Idle, Saving

LEMMA OneKeeps ==
    ASSUME NEW r \in Req, NEW q \in Request, TypeOK, Stages, OneStage(q),
           req' = [req EXCEPT ![r] = q]
    PROVE  req' \in [Req -> Request] /\ Stages'
<1>1. req' \in [Req -> Request] /\ req'[r] = q /\ \A x \in Req : x # r => req'[x] = req[x]
  BY DEF TypeOK
<1>2. \A x \in Req : OneStage(req'[x])
  BY <1>1, StagesAre
<1> QED
  BY <1>1, <1>2 DEF Stages, OneStage, Saving

LEMMA ArriveKeepsType ==
    ASSUME TypeOK, Stages, NEW r \in Req, Arrive(r)
    PROVE  TypeOK' /\ Stages'
<1>1. PICK q \in Request : /\ req' = [req EXCEPT ![r] = q]
                           /\ ~q.wrote
                           /\ \/ q.stage = "end" /\ (q.found # None => q.found \in In(list))
                              \/ Loads(r, q)
  BY ArriveIs
<1>2. OneStage(q)
  BY <1>1 DEF OneStage, Loads
<1>3. req' \in [Req -> Request] /\ Stages'
  BY <1>1, <1>2, OneKeeps
<1>4. faults' \in Nat
  <2>1. Fault \/ NoFault
    BY DEF Arrive, Create, Delete, Invite, Page
  <2> QED
    BY <2>1 DEF Fault, NoFault, TypeOK
<1> QED
  BY <1>3, <1>4 DEF Arrive, file, TypeOK

LEMMA SaveKeepsType ==
    ASSUME TypeOK, Stages, NEW r \in Req, Open(r) \/ Write(r)
    PROVE  TypeOK' /\ Stages'
<1>1. req[r] \in Request /\ list \in Seq(Template) /\ tail \in Nat /\ OneStage(req[r])
  BY StagesAre DEF TypeOK
<1>2. <<>> \in Seq(Template) /\ Len(list) \in Nat /\ Len(req[r].copy) \in Nat
  BY <1>1, EmptySeq DEF Request
<1>f. faults' \in Nat
  <2>1. Fault \/ NoFault
    BY DEF Open, Write
  <2> QED
    BY <2>1 DEF Fault, NoFault, TypeOK
<1>e. ASSUME End(r, "err")
      PROVE  req' \in [Req -> Request] /\ Stages'
  <2> DEFINE q == [req[r] EXCEPT !.stage = "end", !.copy = <<>>, !.out = "err"]
  <2>1. q \in Request /\ OneStage(q)
    BY <1>1, <1>2 DEF Request, Stage, OneStage
  <2>2. req' = [req EXCEPT ![r] = q]
    BY <1>e DEF End, Become
  <2> QED
    BY <2>1, <2>2, OneKeeps
<1>3. CASE Open(r) /\ End(r, "err") /\ UNCHANGED file
  <2>1. UNCHANGED <<list, tail, audit, wanted, raced, torn, crashes>>
    BY <1>3 DEF Open, file
  <2> QED
    BY <1>e, <1>f, <1>3, <2>1 DEF TypeOK
<1>4. CASE /\ Open(r) /\ Become(r, [req[r] EXCEPT !.stage = "write"])
           /\ list' = <<>> /\ tail' = 0
  <2> DEFINE q == [req[r] EXCEPT !.stage = "write"]
  <2>1. q \in Request /\ OneStage(q)
    BY <1>1, <1>4 DEF Request, Stage, OneStage, Open
  <2>2. req' \in [Req -> Request] /\ Stages'
    BY <1>4, <2>1, OneKeeps DEF Become
  <2>3. UNCHANGED <<audit, wanted, raced, torn, crashes>>
    BY <1>4 DEF Open
  <2> QED
    BY <1>2, <1>4, <1>f, <2>2, <2>3 DEF TypeOK
<1>5. CASE /\ Write(r) /\ Become(r, [req[r] EXCEPT !.stage = "audit", !.wrote = TRUE])
           /\ list' = req[r].copy /\ tail' = Over(req[r].copy) /\ wanted' = Wanted(r) /\ torn' = torn
  <2> DEFINE q == [req[r] EXCEPT !.stage = "audit", !.wrote = TRUE]
  <2>1. q \in Request /\ OneStage(q)
    BY <1>1, <1>5 DEF Request, Stage, OneStage, Write
  <2>2. req' \in [Req -> Request] /\ Stages'
    BY <1>5, <2>1, OneKeeps DEF Become
  <2>3. Over(req[r].copy) \in Nat
    BY <1>1, <1>2 DEF Over
  <2>4. Wanted(r) \subseteq Template
    BY <1>1, <1>5 DEF Wanted, Template, TypeOK, OneStage, Write
  <2>5. req[r].copy \in Seq(Template)
    BY <1>1 DEF Request
  <2>6. UNCHANGED <<audit, raced, crashes>>
    BY <1>5 DEF Write
  <2> QED
    BY <1>5, <1>f, <2>2, <2>3, <2>4, <2>5, <2>6 DEF TypeOK
<1>6. CASE /\ Write(r) /\ End(r, "err") /\ torn' = TRUE /\ UNCHANGED wanted
           /\ \/ UNCHANGED file
              \/ list' = <<>> /\ tail' = Len(list) + tail + 1
  <2>1. list' \in Seq(Template) /\ tail' \in Nat
    <3>1. CASE UNCHANGED file
      BY <1>1, <3>1 DEF file
    <3>2. CASE list' = <<>> /\ tail' = Len(list) + tail + 1
      BY <1>1, <1>2, <3>2
    <3> QED
      BY <1>6, <3>1, <3>2
  <2>2. UNCHANGED <<audit, raced, crashes>>
    BY <1>6 DEF Write
  <2> QED
    BY <1>e, <1>f, <1>6, <2>1, <2>2 DEF TypeOK
<1> QED
  BY <1>3, <1>4, <1>5, <1>6 DEF Open, Write

LEMMA EndKeepsType ==
    ASSUME TypeOK, Stages, NEW r \in Req, Log(r) \/ Cut(r)
    PROVE  TypeOK' /\ Stages'
<1>1. req[r] \in Request /\ OneStage(req[r]) /\ req[r].stage = "audit"
  BY StagesAre DEF TypeOK, Log, Cut
<1>2. PICK o \in {"ok", "err", "cut"} : End(r, o)
  BY DEF Log, Cut
<1> DEFINE q == [req[r] EXCEPT !.stage = "end", !.copy = <<>>, !.out = o]
<1>3. q \in Request /\ OneStage(q)
  BY <1>1, EmptySeq DEF Request, Stage, OneStage
<1>4. req' \in [Req -> Request] /\ Stages'
  BY <1>2, <1>3, OneKeeps DEF End, Become
<1>5. Entry(r) \in [kind : {"create", "delete"}, name : Name, grants : Grants \cup {None}]
  BY <1>1 DEF Entry, OneStage, Request
<1> QED
  BY <1>4, <1>5 DEF Log, Cut, Fault, NoFault, file, TypeOK

LEMMA CrashKeepsType ==
    ASSUME TypeOK, Stages, Crash
    PROVE  TypeOK' /\ Stages'
<1>1. <<>> \in Seq(Template)
  BY EmptySeq
<1>2. ASSUME NEW x \in Req
      PROVE  req'[x] \in Request /\ OneStage(req'[x])
  <2>1. req[x] \in Request /\ OneStage(req[x])
    BY StagesAre DEF TypeOK
  <2>2. CASE req'[x] = req[x]
    BY <2>1, <2>2
  <2>3. CASE req'[x] = [req[x] EXCEPT !.stage = "end", !.copy = <<>>, !.out = "cut"]
    BY <1>1, <2>1, <2>3 DEF Request, Stage, OneStage
  <2> QED
    BY <2>2, <2>3 DEF Crash
<1>3. req' \in [Req -> Request]
  BY <1>2 DEF Crash
<1>4. Stages'
  BY <1>2 DEF Stages, OneStage, Saving
<1>5. UNCHANGED <<list, tail, audit, wanted, raced, faults>>
  BY DEF Crash, file
<1>7. crashes' \in Nat
  <2>1. crashes \in Nat
    BY DEF TypeOK
  <2>2. crashes' = crashes + 1
    BY DEF Crash
  <2> QED
    BY <2>1, <2>2
<1>6. torn' \in BOOLEAN
  BY Zenon DEF Crash
<1> QED
  BY <1>3, <1>4, <1>5, <1>6, <1>7 DEF TypeOK

LEMMA TypeKeeps ==
    ASSUME TypeOK, Stages, [Next]_vars
    PROVE  TypeOK' /\ Stages'
<1>1. CASE UNCHANGED vars
  BY <1>1 DEF vars, file, TypeOK, Stages, Saving
<1> QED
  BY <1>1, ArriveKeepsType, SaveKeepsType, EndKeepsType, CrashKeepsType DEF Next

\* The types: a request saves what it loaded and changed, whoever else saves.
THEOREM TypeCorrect == Spec => []TypeOK
<1>1. TypeOK /\ Stages /\ [Next]_vars => (TypeOK /\ Stages)'
  BY TypeKeeps
<1> QED
  BY <1>1, TypeInit, PTL DEF Spec

-----------------------------------------------------------------------------
(***************************************************************************)
(* No two templates of a name.                                             *)
(***************************************************************************)
LEMMA UniqueIs == NamesUnique <=> Uniq(list)
BY DEF NamesUnique, Uniq

LEMMA UniqueKeeps ==
    ASSUME TypeOK, Stages, NamesUnique, CopiesUnique, [Next]_vars
    PROVE  NamesUnique' /\ CopiesUnique'
<1>0. list \in Seq(Template) /\ Uniq(list)
  BY UniqueIs DEF TypeOK
<1>1. CASE Quiet
  <2>1. \A x \in Req : Saving(x)' => Saving(x) /\ req'[x] = req[x]
    BY <1>1 DEF Quiet, Saving
  <2> QED
    BY <1>1, <2>1 DEF Quiet, NamesUnique, CopiesUnique
<1>2. ASSUME NEW r \in Req, NEW q \in Request, Loads(r, q)
      PROVE  NamesUnique' /\ CopiesUnique'
  <2>1. req'[r] = q /\ \A x \in Req : x # r => req'[x] = req[x]
    BY <1>2 DEF Loads, TypeOK
  <2>2. Uniq(q.copy)
    <3>1. CASE /\ q.kind = "create" /\ q.grants \in Grants /\ ~Taken(q.name)
               /\ q.copy = With([name |-> q.name, grants |-> q.grants])
      <4> DEFINE t == [name |-> q.name, grants |-> q.grants]
      <4>1. t \in Template /\ t.name = q.name
        BY <1>2, <3>1 DEF Loads, Template
      <4> QED
        BY <1>0, <3>1, <4>1, WithUnique
    <3>2. CASE q.copy = Without(q.name)
      BY <1>0, <3>2, WithoutUnique
    <3> QED
      BY <1>2, <3>1, <3>2 DEF Loads
  <2>3. \A x \in Req : Saving(x)' => Uniq(req'[x].copy)
    BY <2>1, <2>2 DEF CopiesUnique, Saving
  <2> QED
    BY <1>2, <2>3 DEF Loads, NamesUnique, CopiesUnique, Uniq
<1>3. ASSUME NEW r \in Req, Opens(r)
      PROVE  NamesUnique' /\ CopiesUnique'
  <2>1. \A x \in Req : req'[x].copy = req[x].copy /\ (Saving(x)' => Saving(x))
    BY <1>3 DEF Opens, TypeOK, Request, Saving
  <2> QED
    BY <1>3, <2>1 DEF Opens, NamesUnique, CopiesUnique, Uniq
<1>4. ASSUME NEW r \in Req, Writes(r)
      PROVE  NamesUnique' /\ CopiesUnique'
  <2>1. \A x \in Req : req'[x].copy = req[x].copy /\ (Saving(x)' => Saving(x))
    BY <1>4 DEF Writes, TypeOK, Request, Saving
  <2>2. Uniq(req[r].copy)
    BY <1>4 DEF Writes, CopiesUnique, Saving
  <2> QED
    BY <1>4, <2>1, <2>2 DEF Writes, NamesUnique, CopiesUnique, Uniq
<1>5. ASSUME NEW r \in Req, Garbles(r)
      PROVE  NamesUnique' /\ CopiesUnique'
  <2>1. \A x \in Req : Saving(x)' => Saving(x) /\ req'[x] = req[x]
    BY <1>5 DEF Garbles, TypeOK, Request, Saving
  <2> QED
    BY <1>5, <2>1 DEF Garbles, NamesUnique, CopiesUnique, Uniq
<1> QED
  BY <1>1, <1>2, <1>3, <1>4, <1>5, StepIs

-----------------------------------------------------------------------------
(***************************************************************************)
(* No template is made up.                                                 *)
(***************************************************************************)
\* What was created stays created: an entry for it, or its request without one.
LEMMA CreatedStays ==
    ASSUME TypeOK, Stages, [Next]_vars, NEW t, Created(t)
    PROVE  Created(t)'
<1>1. CASE \E e \in audit : e.kind = "create" /\ e.name = t.name /\ e.grants = t.grants
  <2>1. audit \subseteq audit'
    BY DEF Next, vars, Arrive, Open, Write, Log, Cut, Crash
  <2> QED
    BY <1>1, <2>1 DEF Created
<1>2. ASSUME NEW r \in Req, req[r].kind = "create", req[r].wrote, req[r].out # "ok",
             req[r].name = t.name, req[r].grants = t.grants
      PROVE  Created(t)'
  <2>0. req[r] \in Request /\ req[r].stage \notin {"idle", "open", "write"}
    BY <1>2 DEF TypeOK, Stages, Saving, Idle
  <2>1. CASE req'[r] = req[r]
    BY <1>2, <2>1 DEF Created
  <2>2. CASE \E o \in {"err", "cut"} : req'[r] = [req[r] EXCEPT !.stage = "end", !.copy = <<>>, !.out = o]
    <3>1. /\ req'[r].kind = "create" /\ req'[r].wrote /\ req'[r].out # "ok"
          /\ req'[r].name = t.name /\ req'[r].grants = t.grants
      BY <1>2, <2>0, <2>2 DEF Request
    <3> QED
      BY <3>1 DEF Created
  <2>3. CASE Log(r) /\ audit' = audit \cup {Entry(r)}
    <3>1. Entry(r) \in audit' /\ Entry(r).kind = "create" /\ Entry(r).name = t.name /\ Entry(r).grants = t.grants
      BY <1>2, <2>3 DEF Entry
    <3> QED
      BY <3>1 DEF Created
  <2>4. ASSUME NEW x \in Req, Arrive(x) \/ Open(x) \/ Write(x)
        PROVE  req'[r] = req[r]
    BY <2>0, <2>4 DEF Arrive, Create, Delete, Invite, Page, Open, Write, End, Become, TypeOK
  <2>5. ASSUME NEW x \in Req, Log(x) \/ Cut(x), ~(Log(r) /\ audit' = audit \cup {Entry(r)})
        PROVE  \/ req'[r] = req[r]
               \/ \E o \in {"err", "cut"} : req'[r] = [req[r] EXCEPT !.stage = "end", !.copy = <<>>, !.out = o]
    BY <2>5 DEF Log, Cut, End, Become, TypeOK
  <2>6. CASE Crash
    BY <2>1, <2>2, <2>6 DEF Crash
  <2> QED
    BY <2>1, <2>2, <2>3, <2>4, <2>5, <2>6 DEF Next, vars
<1> QED
  BY <1>1, <1>2 DEF Created

\* The same of any log and requests.
CreatedBy(log, q, t) ==
    \/ \E e \in log : e.kind = "create" /\ e.name = t.name /\ e.grants = t.grants
    \/ \E r \in Req : /\ q[r].kind = "create" /\ q[r].wrote /\ q[r].out # "ok"
                      /\ q[r].name = t.name /\ q[r].grants = t.grants

LEMMA CreatedIs == \A t : Created(t) <=> CreatedBy(audit, req, t)
BY DEF Created, CreatedBy

\* What a step puts into the file, or finds for an invite, was there before.
LEMMA TracedKeeps ==
    ASSUME TypeOK, Stages, TemplatesTraced, CopiesTraced, [Next]_vars
    PROVE  TemplatesTraced' /\ CopiesTraced'
<1>0. \A x \in Req : req[x] \in Request
  BY DEF TypeOK
<1> DEFINE Old(t) == CreatedBy(audit, req, t)
           Now(t) == CreatedBy(audit', req', t)
<1>1. ASSUME NEW t, Old(t) PROVE Now(t)
  <2>1. Created(t)
    BY <1>1, CreatedIs
  <2>2. Created(t)'
    BY <2>1, CreatedStays
  <2> QED
    BY <2>2 DEF Created, CreatedBy
<1>2. /\ \A t \in In(list) : Old(t)
      /\ \A r \in Req : req[r].found # None => Old(req[r].found)
      /\ \A r \in Req : Saving(r) => \A t \in In(req[r].copy) : Old(t) \/ Adds(r, t)
  BY CreatedIs DEF TemplatesTraced, CopiesTraced
<1> HIDE DEF Old
<1>3. ASSUME Quiet
      PROVE  /\ \A t \in In(list') : Now(t)
             /\ \A x \in Req : req'[x].found # None => Now(req'[x].found)
             /\ \A x \in Req : Saving(x)' => \A t \in In(req'[x].copy) : Now(t) \/ Adds(x, t)'
  <2>1. \A x \in Req : Saving(x)' => Saving(x) /\ req'[x] = req[x]
    BY <1>3 DEF Quiet, Saving
  <2>2. \A x \in Req : req'[x].found # None => Now(req'[x].found)
    <3> HIDE DEF Now
    <3> QED
      BY <1>1, <1>2, <1>3 DEF Quiet
  <2>3. \A r \in Req : Saving(r)' => \A t \in In(req'[r].copy) : Now(t) \/ Adds(r, t)'
    <3> HIDE DEF Now
    <3> QED
      BY <1>1, <1>2, <2>1 DEF Adds
  <2>4. \A t \in In(list') : Now(t)
    <3> HIDE DEF Now
    <3> QED
      BY <1>1, <1>2, <1>3 DEF Quiet
  <2> QED
    BY <2>2, <2>3, <2>4
<1>4. ASSUME NEW r \in Req, NEW q \in Request, Loads(r, q)
      PROVE  /\ \A t \in In(list') : Now(t)
             /\ \A x \in Req : req'[x].found # None => Now(req'[x].found)
             /\ \A x \in Req : Saving(x)' => \A t \in In(req'[x].copy) : Now(t) \/ Adds(x, t)'
  <2>1. req'[r] = q /\ \A x \in Req : x # r => req'[x] = req[x]
    BY <1>4 DEF Loads, TypeOK
  <2>2. \A t \in In(q.copy) : \/ t \in In(list)
                              \/ q.kind = "create" /\ t.name = q.name /\ t.grants = q.grants
    <3>0. list \in Seq(Template)
      BY DEF TypeOK
    <3>1. CASE /\ q.kind = "create" /\ q.grants \in Grants
               /\ q.copy = With([name |-> q.name, grants |-> q.grants])
      <4> DEFINE t == [name |-> q.name, grants |-> q.grants]
      <4>1. t \in Template /\ t.name = q.name /\ t.grants = q.grants
        BY <1>4, <3>1 DEF Loads, Template
      <4> HIDE DEF t
      <4>2. In(With(t)) = In(list) \cup {t}
        BY <3>0, <4>1, WithHolds
      <4>3. q.copy = With(t)
        BY <3>1 DEF t
      <4>4. In(q.copy) = In(list) \cup {t}
        BY <4>2, <4>3
      <4> QED
        BY <3>1, <4>1, <4>4
    <3>2. CASE q.copy = Without(q.name)
      <4>1. In(q.copy) = {t \in In(list) : t.name # q.name}
        BY <3>0, <3>2, WithoutHolds
      <4> QED
        BY <4>1
    <3> QED
      BY <1>4, <3>1, <3>2 DEF Loads
  <2>3. \A x \in Req : x # r => (Saving(x)' <=> Saving(x))
    BY <2>1 DEF Saving
  <2>4. \A x \in Req : \A t : Adds(x, t)' <=>
          req'[x].kind = "create" /\ t.name = req'[x].name /\ t.grants = req'[x].grants
    BY DEF Adds
  <2>5. \A x \in Req : \A t : Adds(x, t) <=>
          req[x].kind = "create" /\ t.name = req[x].name /\ t.grants = req[x].grants
    BY DEF Adds
  <2> HIDE DEF Now
  <2>6. \A t \in In(list') : Now(t)
    BY <1>1, <1>2, <1>4 DEF Loads
  <2>7. ASSUME NEW x \in Req
        PROVE  /\ req'[x].found # None => Now(req'[x].found)
               /\ Saving(x)' => \A t \in In(req'[x].copy) : Now(t) \/ Adds(x, t)'
    <3>1. CASE x = r
      BY <1>1, <1>2, <1>4, <2>1, <2>2, <2>4, <3>1 DEF Loads
    <3>2. CASE x # r
      BY <1>1, <1>2, <2>1, <2>3, <2>4, <2>5, <3>2
    <3> QED
      BY <3>1, <3>2
  <2> QED
    BY <2>6, <2>7
<1>5. ASSUME NEW r \in Req, Opens(r) \/ Garbles(r)
      PROVE  /\ \A t \in In(list') : Now(t)
             /\ \A x \in Req : req'[x].found # None => Now(req'[x].found)
             /\ \A x \in Req : Saving(x)' => \A t \in In(req'[x].copy) : Now(t) \/ Adds(x, t)'
  <2>1. In(list') = {}
    BY <1>5 DEF Opens, Garbles, In
  <2>2. ASSUME NEW x \in Req
        PROVE  /\ req'[x].found = req[x].found
               /\ Saving(x)' => Saving(x) /\ req'[x].copy = req[x].copy
               /\ \A t : Adds(x, t) => Adds(x, t)'
    <3>1. /\ req'[x].found = req[x].found /\ req'[x].kind = req[x].kind
          /\ req'[x].name = req[x].name /\ req'[x].grants = req[x].grants
          /\ req'[x].stage \in {"open", "write"} =>
                req[x].stage \in {"open", "write"} /\ req'[x].copy = req[x].copy
      <4>1. CASE Opens(r)
        BY <1>0, <4>1 DEF Opens, TypeOK, Request
      <4>2. CASE Garbles(r)
        BY <1>0, <4>2 DEF Garbles, TypeOK, Request
      <4> QED
        BY <1>5, <4>1, <4>2
    <3> QED
      BY <3>1 DEF Saving, Adds
  <2> HIDE DEF Now
  <2> QED
    BY <1>1, <1>2, <2>1, <2>2
<1>6. ASSUME NEW r \in Req, Writes(r)
      PROVE  /\ \A t \in In(list') : Now(t)
             /\ \A x \in Req : req'[x].found # None => Now(req'[x].found)
             /\ \A x \in Req : Saving(x)' => \A t \in In(req'[x].copy) : Now(t) \/ Adds(x, t)'
  <2>1. ASSUME NEW x \in Req
        PROVE  /\ req'[x].found = req[x].found
               /\ Saving(x)' => Saving(x) /\ req'[x].copy = req[x].copy
               /\ \A t : Adds(x, t) => Adds(x, t)'
    BY <1>0, <1>6 DEF Writes, TypeOK, Request, Saving, Adds
  <2>2. \A t : Adds(r, t) => Now(t)
    <3>1. /\ req'[r].wrote /\ req'[r].out # "ok" /\ req'[r].kind = req[r].kind
          /\ req'[r].name = req[r].name /\ req'[r].grants = req[r].grants
      BY <1>0, <1>6 DEF Writes, TypeOK, Request, Stages
    <3> QED
      BY <3>1 DEF Adds, CreatedBy
  <2>3. list' = req[r].copy /\ Saving(r)
    BY <1>6 DEF Writes, Saving
  <2> HIDE DEF Now
  <2> QED
    BY <1>1, <1>2, <2>1, <2>2, <2>3
<1>7. /\ \A t \in In(list') : Now(t)
      /\ \A x \in Req : req'[x].found # None => Now(req'[x].found)
      /\ \A x \in Req : Saving(x)' => \A t \in In(req'[x].copy) : Now(t) \/ Adds(x, t)'
  BY <1>3, <1>4, <1>5, <1>6, StepIs
<1>8. (\A t : Created(t) <=> CreatedBy(audit, req, t))'
  BY CreatedIs, PTL
<1>9. TemplatesTraced' /\ CopiesTraced'
  <2>1. \A t : Created(t)' <=> CreatedBy(audit', req', t)
    BY <1>8 DEF CreatedBy
  <2> QED
    BY <1>7, <1>8, <2>1 DEF TemplatesTraced, CopiesTraced, In
<1> QED
  BY <1>9

-----------------------------------------------------------------------------
(***************************************************************************)
(* Saves that do not overlap add up.                                       *)
(***************************************************************************)
LEMMA WantedKeeps ==
    ASSUME TypeOK, Stages, FileIsWanted, OneSaves, SavesWanted, [Next]_vars
    PROVE  FileIsWanted' /\ OneSaves' /\ SavesWanted'
<1>0. list \in Seq(Template) /\ tail \in Nat /\ \A x \in Req : req[x] \in Request
  BY DEF TypeOK
<1>1. CASE Quiet
  <2>1. \A x \in Req : Saving(x)' => Saving(x) /\ req'[x] = req[x]
    BY <1>1 DEF Quiet, Saving
  <2>2. OneSaves'
    BY <1>1, <2>1 DEF Quiet, OneSaves
  <2>3. \A x \in Req : Saving(x)' => Wanted(x)' = Wanted(x)
    BY <1>1, <2>1 DEF Quiet, Wanted
  <2>4. \A x \in Req : req'[x].stage = "write" => req[x].stage = "write"
    BY <1>1 DEF Quiet
  <2>5. SavesWanted'
    BY <1>1, <2>1, <2>3, <2>4 DEF Quiet, SavesWanted, In
  <2>6. FileIsWanted'
    BY <1>1 DEF Quiet, FileIsWanted, In
  <2> QED
    BY <2>2, <2>5, <2>6
<1>2. ASSUME NEW r \in Req, NEW q \in Request, Loads(r, q)
      PROVE  FileIsWanted' /\ OneSaves' /\ SavesWanted'
  <2>1. req'[r] = q /\ \A x \in Req : x # r => req'[x] = req[x]
    BY <1>2 DEF Loads, TypeOK
  <2>2. CASE raced'
    BY <2>2 DEF FileIsWanted, OneSaves, SavesWanted
  <2>3. CASE ~raced'
    <3>1. ~raced /\ \A x \in Req : ~Saving(x)
      BY <1>2, <2>3 DEF Loads
    <3>2. \A x \in Req : Saving(x)' => x = r
      BY <2>1, <3>1 DEF Saving
    <3>3. \A x \in Req : req[x].stage # "write"
      BY <3>1 DEF Saving
    <3>4. FileIsWanted'
      BY <1>2, <3>1, <3>3 DEF Loads, FileIsWanted, In
    <3>5. ASSUME ~torn'
          PROVE  In(q.copy) = Wanted(r)'
      <4>1. In(list) = wanted
        BY <1>2, <3>1, <3>3, <3>5 DEF Loads, FileIsWanted
      <4>2. Wanted(r)' = {t \in wanted : t.name # q.name}
              \cup IF q.kind = "create" THEN {[name |-> q.name, grants |-> q.grants]} ELSE {}
        BY <1>2, <2>1 DEF Loads, Wanted
      <4>3. CASE /\ q.kind = "create" /\ q.grants \in Grants /\ ~Taken(q.name)
                 /\ q.copy = With([name |-> q.name, grants |-> q.grants])
        <5> DEFINE t == [name |-> q.name, grants |-> q.grants]
        <5>1. t \in Template
          BY <1>2, <4>3 DEF Loads, Template
        <5>2. \A x \in In(list) : x.name # q.name
          BY <4>3 DEF Taken, Named
        <5> HIDE DEF t
        <5>3. In(With(t)) = In(list) \cup {t}
          BY <1>0, <5>1, WithHolds
        <5>4. q.copy = With(t) /\ Wanted(r)' = {x \in wanted : x.name # q.name} \cup {t}
          BY <4>2, <4>3 DEF t
        <5> QED
          BY <4>1, <5>2, <5>3, <5>4
      <4>4. CASE q.kind = "delete" /\ q.copy = Without(q.name)
        <5>1. In(q.copy) = {t \in In(list) : t.name # q.name}
          BY <1>0, <4>4, WithoutHolds
        <5> QED
          BY <4>1, <4>2, <4>4, <5>1
      <4> QED
        BY <1>2, <4>3, <4>4 DEF Loads
    <3>6. \A x \in Req : req'[x].stage = "write" => FALSE
      BY <1>2, <2>1, <3>3 DEF Loads
    <3> QED
      BY <2>1, <3>2, <3>4, <3>5, <3>6 DEF OneSaves, SavesWanted, In
  <2> QED
    BY <2>2, <2>3
<1>3. ASSUME NEW r \in Req, Opens(r)
      PROVE  FileIsWanted' /\ OneSaves' /\ SavesWanted'
  <2>1. /\ req'[r].stage = "write"
        /\ \A x \in Req : /\ req'[x].copy = req[x].copy /\ req'[x].name = req[x].name
                          /\ req'[x].kind = req[x].kind /\ req'[x].grants = req[x].grants
                          /\ Saving(x)' => Saving(x)
    BY <1>0, <1>3 DEF Opens, TypeOK, Request, Saving
  <2>2. \A x \in Req : Wanted(x)' = Wanted(x)
    BY <1>3, <2>1 DEF Opens, Wanted
  <2> QED
    BY <1>3, <2>1, <2>2 DEF Opens, FileIsWanted, OneSaves, SavesWanted, In
<1>4. ASSUME NEW r \in Req, Writes(r)
      PROVE  FileIsWanted' /\ OneSaves' /\ SavesWanted'
  <2>1. /\ ~Saving(r)' /\ \A x \in Req : Saving(x)' => Saving(x)
        /\ \A x \in Req : req'[x].stage = "write" => req[x].stage = "write" /\ x # r
    BY <1>0, <1>4 DEF Writes, TypeOK, Request, Saving
  <2>2. Saving(r)
    BY <1>4 DEF Writes, Saving
  <2>3. CASE raced
    BY <1>4, <2>3 DEF Writes, FileIsWanted, OneSaves, SavesWanted
  <2>4. CASE ~raced
    <3>1. \A x \in Req : ~Saving(x)'
      BY <2>1, <2>2, <2>4 DEF OneSaves
    <3>2. \A x \in Req : req'[x].stage # "write"
      BY <3>1 DEF Saving
    <3>3. ASSUME ~torn'
          PROVE  tail' = 0 /\ In(list)' = wanted'
      <4>1. list = <<>> /\ tail = 0 /\ In(req[r].copy) = Wanted(r)
        BY <1>4, <2>2, <2>4, <3>3 DEF Writes, SavesWanted
      <4>2. Len(req[r].copy) \in Nat
        BY <1>0 DEF Request
      <4>3. Over(req[r].copy) = 0
        BY <4>1, <4>2 DEF Over
      <4> QED
        BY <1>4, <4>1, <4>3 DEF Writes, In
    <3> QED
      BY <3>1, <3>2, <3>3 DEF FileIsWanted, OneSaves, SavesWanted
  <2> QED
    BY <2>3, <2>4
<1>5. ASSUME NEW r \in Req, Garbles(r)
      PROVE  FileIsWanted' /\ OneSaves' /\ SavesWanted'
  <2>1. \A x \in Req : Saving(x)' => Saving(x)
    BY <1>5 DEF Garbles, TypeOK, Request, Saving
  <2> QED
    BY <1>5, <2>1 DEF Garbles, FileIsWanted, OneSaves, SavesWanted
<1> QED
  BY <1>1, <1>2, <1>3, <1>4, <1>5, StepIs

-----------------------------------------------------------------------------
(***************************************************************************)
(* The theorems.                                                           *)
(***************************************************************************)
LEMMA InvInit == Init => Inv
<1> SUFFICES ASSUME Init PROVE Inv
  OBVIOUS
<1>1. TypeOK /\ Stages
  BY TypeInit
<1>2. list = <<>> /\ In(list) = {} /\ DOMAIN list = {}
  BY DEF Init, In
<1>3. \A r \in Req : req[r] = Idle /\ ~Saving(r)
  BY DEF Init, Idle, Saving
<1>4. NamesUnique /\ CopiesUnique
  BY <1>2, <1>3 DEF NamesUnique, CopiesUnique
<1>5. TemplatesTraced /\ CopiesTraced
  BY <1>2, <1>3 DEF TemplatesTraced, CopiesTraced, Idle
<1>6. FileIsWanted /\ OneSaves /\ SavesWanted
  BY <1>2, <1>3 DEF Init, FileIsWanted, OneSaves, SavesWanted, Saving
<1> QED
  BY <1>1, <1>4, <1>5, <1>6 DEF Inv

LEMMA InvKeeps == Inv /\ [Next]_vars => Inv'
<1> SUFFICES ASSUME Inv, [Next]_vars PROVE Inv'
  OBVIOUS
<1>1. TypeOK' /\ Stages'
  BY TypeKeeps DEF Inv
<1>2. NamesUnique' /\ CopiesUnique'
  BY UniqueKeeps DEF Inv
<1>3. TemplatesTraced' /\ CopiesTraced'
  BY TracedKeeps DEF Inv
<1>4. FileIsWanted' /\ OneSaves' /\ SavesWanted'
  BY WantedKeeps DEF Inv
<1> QED
  BY <1>1, <1>2, <1>3, <1>4 DEF Inv

\* However many requests save over each other, no name is listed twice: each
\* list under way was checked when it was loaded, and is saved whole.
THEOREM NamesStayUnique == Spec => []NamesUnique
BY InvInit, InvKeeps, PTL DEF Spec, Inv

\* Saves that did not overlap and were not stopped half way add up.
THEOREM FileStaysWanted == Spec => []FileIsWanted
BY InvInit, InvKeeps, PTL DEF Spec, Inv

\* What the file lists and what an invite granted by was created so by an admin.
THEOREM TemplatesStayTraced == Spec => []TemplatesTraced
BY InvInit, InvKeeps, PTL DEF Spec, Inv

\* No handler writes over a file that cannot be read as if it were empty.
THEOREM BrokenStaysKept == Spec => BrokenKept
<1>1. ASSUME TypeOK, Stages, [Next]_vars, Broken, \A r \in Req : ~Saving(r)
      PROVE  UNCHANGED file /\ \A r \in Req : req'[r].stage # "open"
  <2>1. Quiet
    BY <1>1, StepIs DEF Loads, Opens, Writes, Garbles, Saving
  <2> QED
    BY <1>1, <2>1 DEF Quiet, file, Saving
<1>2. TypeOK /\ Stages /\ [Next]_vars =>
        [Broken /\ (\A r \in Req : ~Saving(r))
            => UNCHANGED file /\ \A r \in Req : req'[r].stage # "open"]_vars
  BY <1>1
<1>3. TypeOK /\ Stages /\ [Next]_vars => (TypeOK /\ Stages)'
  BY TypeKeeps
<1> QED
  BY <1>2, <1>3, TypeInit, PTL DEF Spec, BrokenKept
=============================================================================
