--------------------------- MODULE ReconcileProofs ---------------------------
(***************************************************************************)
(* Proofs about Reconcile, for every set of jobs, users, rooms, spaces and *)
(* bindings, every size of a page, and any number of faults and of changes *)
(* by others.                                                              *)
(***************************************************************************)
EXTENDS Reconcile, FilterProofs

-----------------------------------------------------------------------------
(***************************************************************************)
(* What a record says by itself.                                           *)
(***************************************************************************)
PassStage == {"expand", "members", "join", "kick", "levels", "power"}
UserStage == {"get_user", "groups", "roles"} \cup PassStage

Shape(q) ==
    /\ q \in Job
    /\ q.stage \in UserStage => q.who \in People
    /\ q.stage = "bindings" /\ q.kind # "all" => q.who \in People
    /\ q.stage \in {"count", "page"} => q.kind = "all"
    /\ q.stage = "get_user" => q.kind # "all"
    /\ q.stage \in PassStage => q.i \in DOMAIN table
    /\ q.out = "none" /\ q.stage \notin PassStage => q.i = 0
    /\ q.stage \in {"join", "kick", "levels", "power"} => q.room \in Rooms
    /\ q.stage \in {"levels", "power"} => table[q.i].level # None
    /\ q.res # "none" => q.stage \in {"join", "kick"}
    /\ q.stage = "end" => q.out # "none"
    /\ q.kind = "none" <=> q.stage = "idle"
    /\ q.kind = "none" => q.done = {}

TypeInv ==
    /\ table \in Tables
    /\ kc \in [People -> {"enabled", "disabled", "gone"}]
    /\ holds \in [People -> SUBSET Subjects]
    /\ member \in [Rooms -> SUBSET People]
    /\ power \in [Rooms -> [People -> Levels]]
    /\ jobs \in [Jobs -> Job]
    /\ \A j \in Jobs : Shape(jobs[j])
    /\ audit \subseteq AuditEntry
    /\ made \subseteq Call
    /\ moved \in [Jobs -> SUBSET (People \X Rooms)]
    /\ changed \in [Jobs -> SUBSET People]
    /\ stirs \in 0..MaxStirs /\ faults \in 0..MaxFaults

\* What the loops leave of a record as it is.
Carried(q, p) ==
    /\ p \in Job
    /\ p.kind = q.kind /\ p.plan = q.plan /\ p.near = q.near /\ p.lost = q.lost
    /\ p.warned = q.warned /\ p.blind = q.blind /\ p.first = q.first /\ p.full = q.full

Same(q, p) ==
    /\ p.who = q.who /\ p.subj = q.subj /\ p.queue = q.queue /\ p.done = q.done
    /\ p.out = q.out

\* The end of the work on one user: the next one, the next page, or the end.
Handover(q, p) ==
    \/ /\ q.kind = "all" /\ q.queue # <<>>
       /\ p.stage = "groups" /\ p.out = q.out /\ p.who = Head(q.queue) /\ p.queue = Tail(q.queue)
    \/ /\ q.kind = "all" /\ q.queue = <<>> /\ q.full
       /\ p.stage = "page" /\ p.out = q.out /\ p.who = None /\ p.queue = <<>>
    \/ /\ q.kind # "all" \/ (q.queue = <<>> /\ ~q.full)
       /\ p.stage = "end" /\ p.out \in {"ok", "warned"} /\ (p.out = "ok" <=> q.warned = {})
       /\ p.who = q.who /\ p.queue = q.queue

OnBinding(q, p) ==
    \/ /\ q.i < Len(table) /\ p.i = q.i + 1 /\ p.stage = "expand" /\ Same(q, p)
    \/ /\ q.i >= Len(table) /\ p.i = 0 /\ p.done = q.done \cup {q.who}
       /\ Handover(q, p)

OnRoom(q, p) ==
    \/ /\ q.near # {} /\ p.i = q.i /\ p.stage = "members" /\ Same(q, p)
    \/ /\ q.near = {} /\ OnBinding(q, p)

-----------------------------------------------------------------------------
(***************************************************************************)
(* Lemmas about the operators.                                             *)
(***************************************************************************)
LEMMA TableType == ASSUME table \in Tables PROVE table \in Seq(Binding) /\ Len(table) \in Nat
  BY TablesAssumption

LEMMA EndedIs ==
    ASSUME NEW q \in Job
    PROVE  LET p == Ended(q) IN
           /\ Carried(q, p) /\ p.i = q.i /\ p.done = q.done /\ p.res = q.res
           /\ p.stage = "end" /\ p.out \in {"ok", "warned"} /\ (p.out = "ok" <=> q.warned = {})
           /\ p.who = q.who /\ p.queue = q.queue
  <1> DEFINE o == IF q.warned = {} THEN "ok" ELSE "warned"
             p == [q EXCEPT !.stage = "end", !.out = o]
  <1>1. o \in {"ok", "warned"} /\ (o = "ok" <=> q.warned = {})
    OBVIOUS
  <1>2. Ended(q) = p
    BY DEF Ended
  <1> HIDE DEF o
  <1>3. p \in Job
    BY ZenonT(60), <1>1 DEF Job, Stage
  <1>4. /\ p.kind = q.kind /\ p.plan = q.plan /\ p.near = q.near /\ p.lost = q.lost
        /\ p.warned = q.warned /\ p.blind = q.blind /\ p.first = q.first /\ p.full = q.full
        /\ p.i = q.i /\ p.done = q.done /\ p.res = q.res /\ p.stage = "end" /\ p.out = o
        /\ p.who = q.who /\ p.queue = q.queue
    BY DEF Job
  <1> HIDE DEF p
  <1>5. QED
    BY <1>1, <1>2, <1>3, <1>4 DEF Carried

LEMMA NextUserIs ==
    ASSUME NEW q \in Job, q.kind = "all"
    PROVE  LET p == NextUser(q) IN
           /\ Carried(q, p) /\ p.i = q.i /\ p.done = q.done /\ p.res = q.res
           /\ Handover(q, p)
  <1>1. CASE q.queue # <<>>
    <2>1. Head(q.queue) \in People /\ Tail(q.queue) \in Seq(People)
      BY <1>1, HeadTailProperties DEF Job
    <2> DEFINE p == [q EXCEPT !.who = Head(q.queue), !.queue = Tail(q.queue),
                              !.stage = "groups", !.subj = {}]
    <2>2. NextUser(q) = p
      BY <1>1 DEF NextUser
    <2>3. p \in Job
      BY <2>1 DEF Job, Stage
    <2>4. /\ p.kind = q.kind /\ p.plan = q.plan /\ p.near = q.near /\ p.lost = q.lost
          /\ p.warned = q.warned /\ p.blind = q.blind /\ p.first = q.first /\ p.full = q.full
          /\ p.i = q.i /\ p.done = q.done /\ p.res = q.res
          /\ p.stage = "groups" /\ p.out = q.out /\ p.who = Head(q.queue) /\ p.queue = Tail(q.queue)
      BY DEF Job
    <2> HIDE DEF p
    <2>5. QED
      BY <1>1, <2>2, <2>3, <2>4 DEF Carried, Handover
  <1>2. CASE q.queue = <<>> /\ q.full
    <2> DEFINE p == [q EXCEPT !.stage = "page", !.who = None]
    <2>1. NextUser(q) = p
      BY <1>2 DEF NextUser
    <2>2. /\ p \in Job /\ p.kind = q.kind /\ p.plan = q.plan /\ p.near = q.near /\ p.lost = q.lost
          /\ p.warned = q.warned /\ p.blind = q.blind /\ p.first = q.first /\ p.full = q.full
          /\ p.i = q.i /\ p.done = q.done /\ p.res = q.res
          /\ p.stage = "page" /\ p.out = q.out /\ p.who = None /\ p.queue = q.queue
      BY DEF Job, Stage
    <2> HIDE DEF p
    <2>3. QED
      BY <1>2, <2>1, <2>2 DEF Carried, Handover
  <1>3. CASE q.queue = <<>> /\ ~q.full
    <2>1. NextUser(q) = Ended(q)
      BY <1>3 DEF NextUser
    <2>2. QED
      BY <1>3, <2>1, EndedIs DEF Handover
  <1>4. QED
    BY <1>1, <1>2, <1>3

LEMMA EndUserIs ==
    ASSUME NEW q \in Job, q.who \in People
    PROVE  LET p == EndUser(q) IN
           /\ Carried(q, p) /\ p.i = 0 /\ p.done = q.done \cup {q.who} /\ p.res = q.res
           /\ Handover(q, p)
  <1> DEFINE d == [q EXCEPT !.done = @ \cup {q.who}, !.i = 0]
  <1>1. /\ d \in Job /\ d.kind = q.kind /\ d.plan = q.plan /\ d.near = q.near /\ d.lost = q.lost
        /\ d.warned = q.warned /\ d.blind = q.blind /\ d.first = q.first /\ d.full = q.full
        /\ d.i = 0 /\ d.done = q.done \cup {q.who} /\ d.res = q.res /\ d.who = q.who
        /\ d.queue = q.queue /\ d.out = q.out
    BY DEF Job
  <1>2. EndUser(q) = IF q.kind = "all" THEN NextUser(d) ELSE Ended(d)
    BY DEF EndUser
  <1> HIDE DEF d
  <1>3. CASE q.kind = "all"
    <2> DEFINE p == NextUser(d)
    <2>1. Carried(d, p) /\ p.i = d.i /\ p.done = d.done /\ p.res = d.res /\ Handover(d, p)
      BY <1>1, <1>3, NextUserIs
    <2>2. EndUser(q) = p
      BY <1>2, <1>3
    <2> HIDE DEF p
    <2>3. QED
      BY <1>1, <2>1, <2>2 DEF Carried, Handover
  <1>4. CASE q.kind # "all"
    <2> DEFINE p == Ended(d)
    <2>1. /\ Carried(d, p) /\ p.i = d.i /\ p.done = d.done /\ p.res = d.res
          /\ p.stage = "end" /\ p.out \in {"ok", "warned"} /\ (p.out = "ok" <=> d.warned = {})
          /\ p.who = d.who /\ p.queue = d.queue
      BY <1>1, EndedIs
    <2>2. EndUser(q) = p
      BY <1>2, <1>4
    <2> HIDE DEF p
    <2>3. QED
      BY <1>1, <1>4, <2>1, <2>2 DEF Carried, Handover
  <1>5. QED
    BY <1>3, <1>4

LEMMA NextBindingIs ==
    ASSUME table \in Tables, NEW q \in Job, q.who \in People
    PROVE  LET p == NextBinding(q) IN Carried(q, p) /\ p.res = q.res /\ OnBinding(q, p)
  <1>0. Len(table) \in Nat /\ q.i \in Nat
    BY TableType DEF Job
  <1>1. CASE q.i < Len(table)
    <2> DEFINE n == q.i + 1
               p == [q EXCEPT !.i = n, !.stage = "expand"]
    <2>0. n \in Nat
      BY <1>0
    <2>1. NextBinding(q) = p
      BY <1>1 DEF NextBinding
    <2> HIDE DEF n
    <2>2. /\ p \in Job /\ p.kind = q.kind /\ p.plan = q.plan /\ p.near = q.near /\ p.lost = q.lost
          /\ p.warned = q.warned /\ p.blind = q.blind /\ p.first = q.first /\ p.full = q.full
          /\ p.i = n /\ p.done = q.done /\ p.res = q.res /\ p.stage = "expand"
          /\ p.out = q.out /\ p.who = q.who /\ p.queue = q.queue /\ p.subj = q.subj
      BY <2>0 DEF Job, Stage
    <2> HIDE DEF p
    <2>3. QED
      BY <1>1, <2>1, <2>2 DEF n, Carried, OnBinding, Same
  <1>2. CASE ~(q.i < Len(table))
    <2> DEFINE p == EndUser(q)
    <2>1. NextBinding(q) = p
      BY <1>2 DEF NextBinding
    <2>2. Carried(q, p) /\ p.i = 0 /\ p.done = q.done \cup {q.who} /\ p.res = q.res /\ Handover(q, p)
      BY EndUserIs
    <2> HIDE DEF p
    <2>3. QED
      BY <1>0, <1>2, <2>1, <2>2 DEF OnBinding
  <1>3. QED
    BY <1>1, <1>2

LEMMA NextRoomIs ==
    ASSUME table \in Tables, NEW q \in Job, q.who \in People
    PROVE  LET p == NextRoom(q) IN Carried(q, p) /\ p.res = "none" /\ OnRoom(q, p)
  <1> DEFINE d == [q EXCEPT !.room = None, !.res = "none"]
  <1>1. /\ d \in Job /\ d.kind = q.kind /\ d.plan = q.plan /\ d.near = q.near /\ d.lost = q.lost
        /\ d.warned = q.warned /\ d.blind = q.blind /\ d.first = q.first /\ d.full = q.full
        /\ d.i = q.i /\ d.done = q.done /\ d.res = "none" /\ d.who = q.who
        /\ d.queue = q.queue /\ d.out = q.out /\ d.subj = q.subj
    BY DEF Job
  <1>2. NextRoom(q) = IF q.near # {} THEN [d EXCEPT !.stage = "members"] ELSE NextBinding(d)
    BY DEF NextRoom
  <1> HIDE DEF d
  <1>3. CASE q.near # {}
    <2> DEFINE p == [d EXCEPT !.stage = "members"]
    <2>1. /\ p \in Job /\ p.kind = d.kind /\ p.plan = d.plan /\ p.near = d.near /\ p.lost = d.lost
          /\ p.warned = d.warned /\ p.blind = d.blind /\ p.first = d.first /\ p.full = d.full
          /\ p.i = d.i /\ p.done = d.done /\ p.res = d.res /\ p.stage = "members"
          /\ p.out = d.out /\ p.who = d.who /\ p.queue = d.queue /\ p.subj = d.subj
      BY <1>1 DEF Job, Stage
    <2>2. NextRoom(q) = p
      BY <1>2, <1>3
    <2> HIDE DEF p
    <2>3. QED
      BY <1>1, <1>3, <2>1, <2>2 DEF Carried, OnRoom, Same
  <1>4. CASE q.near = {}
    <2> DEFINE p == NextBinding(d)
    <2>1. Carried(d, p) /\ p.res = d.res /\ OnBinding(d, p)
      BY <1>1, NextBindingIs
    <2>2. NextRoom(q) = p
      BY <1>2, <1>4
    <2> HIDE DEF p
    <2>3. QED
      BY <1>1, <1>4, <2>1, <2>2 DEF Carried, OnRoom, OnBinding, Same, Handover
  <1>5. QED
    BY <1>3, <1>4

-----------------------------------------------------------------------------
(***************************************************************************)
(* Type correctness.                                                       *)
(***************************************************************************)
LEMMA OneJob ==
    ASSUME jobs \in [Jobs -> Job], \A k \in Jobs : Shape(jobs[k]),
           NEW j \in Jobs, NEW q, Shape(q), Become(j, q), UNCHANGED table
    PROVE  (jobs \in [Jobs -> Job] /\ \A k \in Jobs : Shape(jobs[k]))'
  <1>1. jobs' = [jobs EXCEPT ![j] = q] /\ q \in Job
    BY DEF Become, Shape
  <1>2. jobs' \in [Jobs -> Job] /\ jobs'[j] = q /\ \A k \in Jobs \ {j} : jobs'[k] = jobs[k]
    BY <1>1
  <1>3. Shape(jobs[j])'
    BY <1>2 DEF Shape
  <1>4. ASSUME NEW k \in Jobs \ {j} PROVE Shape(jobs[k])'
    <2>1. Shape(jobs[k]) /\ jobs'[k] = jobs[k]
      BY <1>2
    <2>2. QED
      BY <2>1 DEF Shape
  <1>5. QED
    BY <1>2, <1>3, <1>4

LEMMA ShapeOfHandover ==
    ASSUME NEW q \in Job, NEW p \in Job, p.kind = q.kind, q.who \in People, q.kind # "none",
           q.out = "none", p.i = 0, p.res = "none", Handover(q, p)
    PROVE  Shape(p)
  <1>1. CASE p.stage = "groups"
    <2>1. q.queue # <<>> /\ p.who = Head(q.queue) /\ q.queue \in Seq(People)
      BY <1>1 DEF Handover, Job
    <2>2. p.who \in People
      BY <2>1, HeadTailProperties
    <2>3. QED
      BY <1>1, <2>2 DEF Shape, UserStage, PassStage
  <1>2. CASE p.stage = "page" /\ q.kind = "all"
    BY <1>2 DEF Shape, UserStage, PassStage
  <1>3. CASE p.stage = "end" /\ p.out # "none"
    BY <1>3 DEF Shape, UserStage, PassStage
  <1>4. QED
    BY <1>1, <1>2, <1>3 DEF Handover

\* The same, without a user at work: at the page.
LEMMA NextUserShape ==
    ASSUME NEW q \in Job, q.kind = "all", q.out = "none", q.i = 0, q.res = "none"
    PROVE  Shape(NextUser(q))
  <1> DEFINE p == NextUser(q)
  <1>1. Carried(q, p) /\ p.i = q.i /\ p.done = q.done /\ p.res = q.res /\ Handover(q, p)
    BY NextUserIs
  <1> HIDE DEF p
  <1>2. p \in Job /\ p.kind = "all"
    BY <1>1 DEF Carried
  <1>3. CASE p.stage = "groups"
    <2>1. q.queue # <<>> /\ p.who = Head(q.queue) /\ q.queue \in Seq(People)
      BY <1>1, <1>3 DEF Handover, Job
    <2>2. p.who \in People
      BY <2>1, HeadTailProperties
    <2>3. QED
      BY <1>1, <1>2, <1>3, <2>2 DEF Shape, UserStage, PassStage, p
  <1>4. CASE p.stage = "page" \/ (p.stage = "end" /\ p.out # "none")
    <2>1. Shape(p)
      BY <1>1, <1>2, <1>4 DEF Shape, UserStage, PassStage
    <2>2. QED
      BY <2>1 DEF p
  <1>5. QED
    BY <1>1, <1>3, <1>4 DEF Handover

LEMMA ShapeOnBinding ==
    ASSUME table \in Tables, NEW q \in Job, NEW p \in Job, p.kind = q.kind, q.who \in People,
           q.kind # "none", q.out = "none", p.res = "none", OnBinding(q, p)
    PROVE  Shape(p)
  <1>1. CASE p.stage = "expand" /\ p.i = q.i + 1 /\ q.i < Len(table) /\ p.who = q.who
    <2>1. Len(table) \in Nat /\ q.i \in Nat /\ DOMAIN table = 1..Len(table)
      BY TableType DEF Job
    <2>2. p.i \in DOMAIN table
      BY <1>1, <2>1
    <2>3. QED
      BY <1>1, <2>2 DEF Shape, UserStage, PassStage
  <1>2. CASE p.i = 0 /\ Handover(q, p)
    BY <1>2, ShapeOfHandover
  <1>3. QED
    BY <1>1, <1>2 DEF OnBinding, Same

LEMMA NextBindingShape ==
    ASSUME table \in Tables, NEW q \in Job, q.who \in People, q.kind # "none", q.out = "none",
           q.res = "none"
    PROVE  Shape(NextBinding(q))
  <1> DEFINE p == NextBinding(q)
  <1>1. Carried(q, p) /\ p.res = q.res /\ OnBinding(q, p)
    BY NextBindingIs
  <1> HIDE DEF p
  <1>2. Shape(p)
    BY <1>1, ShapeOnBinding DEF Carried
  <1>3. QED
    BY <1>2 DEF p

LEMMA NextRoomShape ==
    ASSUME table \in Tables, NEW q \in Job, q.who \in People, q.kind # "none", q.out = "none",
           q.i \in DOMAIN table
    PROVE  Shape(NextRoom(q))
  <1> DEFINE p == NextRoom(q)
  <1>1. Carried(q, p) /\ p.res = "none" /\ OnRoom(q, p)
    BY NextRoomIs
  <1> HIDE DEF p
  <1>2. Shape(p)
    <2>1. CASE p.i = q.i /\ p.stage = "members" /\ p.who = q.who
      BY <1>1, <2>1 DEF Carried, Shape, UserStage, PassStage
    <2>2. CASE OnBinding(q, p)
      BY <1>1, <2>2, ShapeOnBinding DEF Carried
    <2>3. QED
      BY <1>1, <2>1, <2>2 DEF OnRoom, Same
  <1>3. QED
    BY <1>2 DEF p

\* A job that ends where it stands.
LEMMA AbortShape ==
    ASSUME NEW q, Shape(q), q.out = "none", NEW o \in {"err", "cut"}
    PROVE  Shape([q EXCEPT !.out = o])
  <1> DEFINE p == [q EXCEPT !.out = o]
  <1>1. q \in Job
    BY DEF Shape
  <1>2. p \in Job
    BY <1>1 DEF Job
  <1>3. /\ p.kind = q.kind /\ p.stage = q.stage /\ p.who = q.who /\ p.i = q.i /\ p.res = q.res
        /\ p.room = q.room /\ p.done = q.done /\ p.out = o
    BY <1>1 DEF Job
  <1> HIDE DEF p
  <1>4. Shape(p)
    BY <1>2, <1>3 DEF Shape
  <1>5. QED
    BY <1>4 DEF p

\* A warning about the user at work.
LEMMA WarnedIs ==
    ASSUME NEW q \in Job, q.who \in People
    PROVE  LET p == Warned(q) IN
           /\ p \in Job /\ p.kind = q.kind /\ p.stage = q.stage /\ p.first = q.first
           /\ p.full = q.full /\ p.queue = q.queue /\ p.who = q.who /\ p.subj = q.subj
           /\ p.i = q.i /\ p.near = q.near /\ p.room = q.room /\ p.res = q.res /\ p.read = q.read
           /\ p.plan = q.plan /\ p.done = q.done /\ p.warned = q.warned \cup {q.who}
           /\ p.blind = q.blind /\ p.lost = q.lost /\ p.out = q.out
  <1> DEFINE p == [q EXCEPT !.warned = @ \cup {q.who}]
  <1>1. Warned(q) = p
    BY DEF Warned
  <1>2. p \in Job
    BY DEF Job
  <1>3. /\ p.kind = q.kind /\ p.stage = q.stage /\ p.first = q.first
        /\ p.full = q.full /\ p.queue = q.queue /\ p.who = q.who /\ p.subj = q.subj
        /\ p.i = q.i /\ p.near = q.near /\ p.room = q.room /\ p.res = q.res /\ p.read = q.read
        /\ p.plan = q.plan /\ p.done = q.done /\ p.warned = q.warned \cup {q.who}
        /\ p.blind = q.blind /\ p.lost = q.lost /\ p.out = q.out
    BY DEF Job
  <1> HIDE DEF p
  <1>4. QED
    BY <1>1, <1>2, <1>3

LEMMA FaultType == ASSUME faults \in 0..MaxFaults, NoFault \/ Fault PROVE faults' \in 0..MaxFaults
  BY NumbersAssumption DEF NoFault, Fault

\* A step that reads and touches nothing but the job.
LEMMA QuietType ==
    ASSUME TypeInv, NEW j \in Jobs, NEW q, Shape(q), Become(j, q), Quiet, NoFault \/ Fault
    PROVE  TypeInv'
  <1>1. UNCHANGED <<table, kc, holds, member, power, audit, made, moved, changed, stirs>>
    BY DEF Quiet, upstream, history
  <1>2. (jobs \in [Jobs -> Job] /\ \A k \in Jobs : Shape(jobs[k]))'
    BY <1>1, OneJob DEF TypeInv
  <1>3. faults' \in 0..MaxFaults
    BY FaultType DEF TypeInv
  <1>4. QED
    BY <1>1, <1>2, <1>3 DEF TypeInv

LEMMA AbortType ==
    ASSUME TypeInv, NEW j \in Jobs, NEW o \in {"err", "cut"}, jobs[j].out = "none", Abort(j, o),
           Quiet, NoFault \/ Fault
    PROVE  TypeInv'
  <1>1. Shape(jobs[j])
    BY DEF TypeInv
  <1>2. Shape([jobs[j] EXCEPT !.out = o])
    BY <1>1, AbortShape
  <1>3. Become(j, [jobs[j] EXCEPT !.out = o])
    BY DEF Abort
  <1>4. QED
    BY <1>2, <1>3, QuietType

LEMMA IdleShape == Shape(Idle)
  <1>1. <<>> \in Seq(People) /\ NoLevels \in [People -> Levels]
    BY EmptySeq, NumbersAssumption DEF NoLevels
  <1>2. Idle \in Job
    BY <1>1 DEF Idle, Job, Kind, Stage
  <1>3. QED
    BY <1>2 DEF Shape, Idle, UserStage, PassStage

LEMMA ForUserIs ==
    ASSUME NEW k \in {"one", "preview"}, NEW p \in People
    PROVE  LET q == ForUser(k, p) IN
           /\ q \in Job /\ q.kind = k /\ q.stage = "get_user" /\ q.who = p /\ q.i = 0
           /\ q.res = "none" /\ q.out = "none" /\ q.done = {} /\ q.queue = <<>> /\ q.near = {}
           /\ q.plan = {} /\ q.warned = {} /\ q.blind = {} /\ ~q.full
  <1>1. Idle \in Job
    BY IdleShape DEF Shape
  <1>2. ForUser(k, p) = [Idle EXCEPT !.kind = k, !.stage = "get_user", !.who = p]
    BY DEF ForUser
  <1> DEFINE q == [Idle EXCEPT !.kind = k, !.stage = "get_user", !.who = p]
  <1>3. q \in Job
    BY ZenonT(60), <1>1 DEF Job, Kind, Stage
  <1>4. /\ q.kind = k /\ q.stage = "get_user" /\ q.who = p /\ q.i = 0
        /\ q.res = "none" /\ q.out = "none" /\ q.done = {} /\ q.queue = <<>> /\ q.near = {}
        /\ q.plan = {} /\ q.warned = {} /\ q.blind = {} /\ ~q.full
    BY DEF Idle
  <1> HIDE DEF q
  <1>5. QED
    BY <1>2, <1>3, <1>4 DEF q

LEMMA ForAllIs ==
    LET q == [Idle EXCEPT !.kind = "all", !.stage = "count"] IN
    /\ q \in Job /\ q.kind = "all" /\ q.stage = "count" /\ q.who = None /\ q.i = 0
    /\ q.res = "none" /\ q.out = "none" /\ q.done = {} /\ q.queue = <<>> /\ q.near = {}
    /\ q.plan = {} /\ q.warned = {} /\ q.blind = {} /\ ~q.full /\ q.first = 0
  <1>1. Idle \in Job
    BY IdleShape DEF Shape
  <1> DEFINE q == [Idle EXCEPT !.kind = "all", !.stage = "count"]
  <1>3. q \in Job
    BY ZenonT(60), <1>1 DEF Job, Kind, Stage
  <1>4. /\ q.kind = "all" /\ q.stage = "count" /\ q.who = None /\ q.i = 0
        /\ q.res = "none" /\ q.out = "none" /\ q.done = {} /\ q.queue = <<>> /\ q.near = {}
        /\ q.plan = {} /\ q.warned = {} /\ q.blind = {} /\ ~q.full /\ q.first = 0
    BY DEF Idle
  <1>5. QED
    BY <1>3, <1>4

\* How a job begins.
LEMMA StartIs ==
    ASSUME NEW j \in Jobs, Start(j)
    PROVE  /\ jobs[j].kind = "none"
           /\ \E q : /\ Become(j, q) /\ q \in Job /\ q.kind # "none" /\ q.i = 0 /\ q.res = "none"
                     /\ q.out = "none" /\ q.done = {} /\ q.queue = <<>> /\ q.near = {}
                     /\ q.plan = {} /\ q.warned = {} /\ q.blind = {} /\ ~q.full
                     /\ \/ q.kind # "all" /\ q.stage = "get_user" /\ q.who \in People
                        \/ q.kind = "all" /\ q.stage = "count" /\ q.first = 0
  <1>1. CASE SubmitBulk(j)
    BY <1>1, ForAllIs DEF SubmitBulk, Start
  <1>2. ASSUME NEW p \in People, NEW k \in {"one", "preview"}, Become(j, ForUser(k, p))
        PROVE  \E q : /\ Become(j, q) /\ q \in Job /\ q.kind # "none" /\ q.i = 0 /\ q.res = "none"
                     /\ q.out = "none" /\ q.done = {} /\ q.queue = <<>> /\ q.near = {}
                     /\ q.plan = {} /\ q.warned = {} /\ q.blind = {} /\ ~q.full
                     /\ q.kind # "all" /\ q.stage = "get_user" /\ q.who \in People
    <2> DEFINE q == ForUser(k, p)
    <2>1. /\ q \in Job /\ q.kind = k /\ q.stage = "get_user" /\ q.who = p /\ q.i = 0
          /\ q.res = "none" /\ q.out = "none" /\ q.done = {} /\ q.queue = <<>> /\ q.near = {}
          /\ q.plan = {} /\ q.warned = {} /\ q.blind = {} /\ ~q.full
      BY ForUserIs
    <2>2. Become(j, q)
      BY <1>2
    <2> HIDE DEF q
    <2>3. QED
      BY <2>1, <2>2
  <1>3. QED
    BY <1>1, <1>2 DEF Start, SubmitReconcile, SubmitPreview

LEMMA StartType == ASSUME TypeInv, NEW j \in Jobs, Start(j) PROVE TypeInv'
  <1>1. PICK q : /\ Become(j, q) /\ q \in Job /\ q.kind # "none" /\ q.i = 0 /\ q.res = "none"
                 /\ q.out = "none" /\ q.done = {}
                 /\ \/ q.kind # "all" /\ q.stage = "get_user" /\ q.who \in People
                    \/ q.kind = "all" /\ q.stage = "count"
    BY StartIs
  <1>2. Shape(q)
    BY <1>1 DEF Shape, UserStage, PassStage
  <1>3. Quiet /\ NoFault
    BY DEF Start, Quiet, NoFault
  <1>4. QED
    BY <1>1, <1>2, <1>3, QuietType

LEMMA CutType == ASSUME TypeInv, NEW j \in Jobs, Cut(j) PROVE TypeInv'
  BY AbortType DEF Cut, Quiet, NoFault

\* A job that goes on to another stage, outside the pass.
LEMMA GoesOnShape ==
    ASSUME NEW q, Shape(q), q.out = "none", q.res = "none", q.kind # "none", q.stage \notin PassStage,
           NEW s \in {"bindings", "page", "groups"},
           s = "page" => q.kind = "all",
           s = "bindings" => q.kind = "all" \/ q.who \in People,
           s = "groups" => q.who \in People
    PROVE  Shape([q EXCEPT !.stage = s])
  <1> DEFINE p == [q EXCEPT !.stage = s]
  <1>1. q \in Job
    BY DEF Shape
  <1>2. p \in Job
    BY <1>1 DEF Job, Stage
  <1>3. /\ p.kind = q.kind /\ p.stage = s /\ p.who = q.who /\ p.i = q.i /\ p.res = q.res
        /\ p.room = q.room /\ p.done = q.done /\ p.out = q.out
    BY <1>1 DEF Job
  <1> HIDE DEF p
  <1>4. Shape(p)
    BY <1>2, <1>3 DEF Shape, UserStage, PassStage
  <1>5. QED
    BY <1>4 DEF p

LEMMA CountType == ASSUME TypeInv, NEW j \in Jobs, CountUsers(j) PROVE TypeInv'
  <1>1. /\ Shape(jobs[j]) /\ jobs[j].stage = "count" /\ jobs[j].res = "none" /\ jobs[j].out = "none"
        /\ Quiet /\ (NoFault \/ Fault)
    BY DEF TypeInv, CountUsers, At
  <1>2. CASE Abort(j, "err")
    BY <1>1, <1>2, AbortType
  <1>3. CASE Become(j, [jobs[j] EXCEPT !.stage = "bindings"])
    <2>1. jobs[j].kind = "all" /\ jobs[j].stage \notin PassStage
      BY <1>1 DEF Shape, PassStage
    <2>2. Shape([jobs[j] EXCEPT !.stage = "bindings"])
      BY <1>1, <2>1, GoesOnShape
    <2>3. QED
      BY <1>1, <1>3, <2>2, QuietType
  <1>4. QED
    BY <1>2, <1>3 DEF CountUsers

LEMMA GetUserType == ASSUME TypeInv, NEW j \in Jobs, GetUser(j) PROVE TypeInv'
  <1>1. /\ Shape(jobs[j]) /\ jobs[j].stage = "get_user" /\ jobs[j].res = "none" /\ jobs[j].out = "none"
        /\ Quiet /\ (NoFault \/ Fault)
    BY DEF TypeInv, GetUser, At
  <1>2. CASE Abort(j, "err")
    BY <1>1, <1>2, AbortType
  <1>3. CASE Become(j, [jobs[j] EXCEPT !.stage = "groups"])
    <2>1. jobs[j].who \in People /\ jobs[j].stage \notin PassStage /\ jobs[j].kind # "none"
      BY <1>1 DEF Shape, UserStage, PassStage
    <2>2. Shape([jobs[j] EXCEPT !.stage = "groups"])
      BY <1>1, <2>1, GoesOnShape
    <2>3. QED
      BY <1>1, <1>3, <2>2, QuietType
  <1>4. QED
    BY <1>2, <1>3 DEF GetUser

\* Two ways on: the roles, or, in a bulk run that could not read the groups, the next user.
LEMMA GroupsIs ==
    ASSUME TypeInv, NEW j \in Jobs, GetUserGroups(j)
    PROVE  LET q == jobs[j] IN
           /\ Shape(q) /\ q.stage = "groups" /\ q.res = "none" /\ q.out = "none" /\ q.who \in People
           /\ q.kind # "none" /\ q.i = 0 /\ Quiet /\ (NoFault \/ Fault)
           /\ \/ Abort(j, "err")
              \/ q.kind = "all" /\ Become(j, NextUser(Warned(q)))
              \/ \E p : /\ Become(j, p) /\ Carried(q, p) /\ p.stage = "roles" /\ p.res = "none"
                        /\ p.i = 0 /\ p.who = q.who /\ p.out = "none" /\ p.queue = q.queue
                        /\ p.done = q.done /\ p.subj = holds[q.who] \cap Groups
  <1> DEFINE q == jobs[j]
  <1>1. /\ Shape(q) /\ q.stage = "groups" /\ q.res = "none" /\ q.out = "none"
        /\ Quiet /\ (NoFault \/ Fault)
    BY DEF TypeInv, GetUserGroups, At
  <1>2. q \in Job /\ q.who \in People /\ q.kind # "none" /\ q.i = 0
    BY <1>1 DEF Shape, UserStage, PassStage
  <1>3. ASSUME Become(j, [q EXCEPT !.stage = "roles", !.subj = holds[q.who] \cap Groups])
        PROVE  \E p : /\ Become(j, p) /\ Carried(q, p) /\ p.stage = "roles" /\ p.res = "none"
                        /\ p.i = 0 /\ p.who = q.who /\ p.out = "none" /\ p.queue = q.queue
                        /\ p.done = q.done /\ p.subj = holds[q.who] \cap Groups
    <2> DEFINE S == holds[q.who] \cap Groups
               p == [q EXCEPT !.stage = "roles", !.subj = S]
    <2>1. S \subseteq Subjects
      BY DEF Subjects
    <2>2. Become(j, p)
      BY <1>3
    <2> HIDE DEF S, q
    <2>3. p \in Job
      BY <1>2, <2>1 DEF Job, Stage
    <2>4. /\ p.kind = q.kind /\ p.plan = q.plan /\ p.near = q.near /\ p.lost = q.lost
          /\ p.warned = q.warned /\ p.blind = q.blind /\ p.first = q.first /\ p.full = q.full
          /\ p.stage = "roles" /\ p.res = q.res /\ p.i = q.i /\ p.who = q.who /\ p.out = q.out
          /\ p.queue = q.queue /\ p.done = q.done /\ p.subj = S
      BY <1>2 DEF Job
    <2> HIDE DEF p
    <2>5. QED
      BY <1>1, <1>2, <2>2, <2>3, <2>4 DEF Carried, S
  <1>4. \/ Abort(j, "err")
        \/ q.kind = "all" /\ Become(j, NextUser(Warned(q)))
        \/ Become(j, [q EXCEPT !.stage = "roles", !.subj = holds[q.who] \cap Groups])
    BY DEF GetUserGroups
  <1>5. QED
    BY <1>1, <1>2, <1>3, <1>4

LEMMA GroupsType == ASSUME TypeInv, NEW j \in Jobs, GetUserGroups(j) PROVE TypeInv'
  <1> DEFINE q == jobs[j]
  <1>1. /\ Shape(q) /\ q.stage = "groups" /\ q.res = "none" /\ q.out = "none" /\ q.who \in People
        /\ q.kind # "none" /\ q.i = 0 /\ Quiet /\ (NoFault \/ Fault)
    BY GroupsIs
  <1>2. CASE Abort(j, "err")
    BY <1>1, <1>2, AbortType
  <1>3. CASE q.kind = "all" /\ Become(j, NextUser(Warned(q)))
    <2>1. q \in Job
      BY <1>1 DEF Shape
    <2>2. /\ Warned(q) \in Job /\ Warned(q).kind = "all" /\ Warned(q).out = "none"
          /\ Warned(q).i = 0 /\ Warned(q).res = "none"
      BY <1>1, <1>3, <2>1, WarnedIs
    <2>3. Shape(NextUser(Warned(q)))
      BY <2>2, NextUserShape
    <2>4. QED
      BY <1>1, <1>3, <2>3, QuietType
  <1>4. ASSUME NEW p, Become(j, p), Carried(q, p), p.stage = "roles", p.res = "none",
               p.i = 0, p.who = q.who, p.out = "none"
        PROVE  TypeInv'
    <2>1. Shape(p)
      BY <1>1, <1>4 DEF Carried, Shape, UserStage, PassStage
    <2>2. QED
      BY <1>1, <1>4, <2>1, QuietType
  <1>5. QED
    BY <1>2, <1>3, <1>4, GroupsIs

\* What the calls for one user leave of a record as it is.
Alike(q, d) ==
    /\ d \in Job /\ d.kind = q.kind /\ d.first = q.first /\ d.full = q.full /\ d.queue = q.queue
    /\ d.who = q.who /\ d.i = q.i /\ d.done = q.done /\ d.out = q.out

\* The roles are known, or a bulk run goes on without them.
RolesRead(q, d, H) ==
    /\ Alike(q, d) /\ d.near = q.near /\ d.plan = q.plan /\ d.lost = q.lost
    /\ d.res = "none" /\ d.stage = "roles"
    /\ \/ /\ d.subj = q.subj \cup (H[q.who] \cap Roles)
          /\ d.warned = q.warned /\ d.blind = q.blind
       \/ /\ q.kind = "all" /\ d.subj = q.subj
          /\ d.warned = q.warned \cup {q.who} /\ d.blind = q.blind \cup {q.who}

LEMMA RolesIs ==
    ASSUME TypeInv, NEW j \in Jobs, GetUserRoles(j)
    PROVE  LET q == jobs[j] IN
           /\ Shape(q) /\ q.stage = "roles" /\ q.res = "none" /\ q.out = "none" /\ q.who \in People
           /\ q.kind # "none" /\ q.i = 0 /\ Quiet /\ (NoFault \/ Fault)
           /\ \/ Abort(j, "err")
              \/ \E d : /\ RolesRead(q, d, holds)
                        /\ Become(j, IF q.kind = "all" THEN NextBinding(d)
                                     ELSE [d EXCEPT !.stage = "bindings"])
  <1> DEFINE q == jobs[j]
             Goes(d) == Become(j, IF q.kind = "all" THEN NextBinding(d)
                                  ELSE [d EXCEPT !.stage = "bindings"])
  <1>1. /\ Shape(q) /\ q.stage = "roles" /\ q.res = "none" /\ q.out = "none"
        /\ Quiet /\ (NoFault \/ Fault)
    BY DEF TypeInv, GetUserRoles, At
  <1>2. q \in Job /\ q.who \in People /\ q.kind # "none" /\ q.i = 0
    BY <1>1 DEF Shape, UserStage, PassStage
  <1>3. ASSUME Goes([q EXCEPT !.subj = @ \cup (holds[q.who] \cap Roles)])
        PROVE  \E d : RolesRead(q, d, holds) /\ Goes(d)
    <2> DEFINE S == q.subj \cup (holds[q.who] \cap Roles)
               d == [q EXCEPT !.subj = S]
    <2>1. S \subseteq Subjects
      BY <1>2 DEF Subjects, Job
    <2> HIDE DEF S
    <2>2. d \in Job
      BY <1>2, <2>1 DEF Job
    <2>3. /\ d.kind = q.kind /\ d.first = q.first /\ d.full = q.full /\ d.queue = q.queue
          /\ d.who = q.who /\ d.i = q.i /\ d.done = q.done /\ d.out = q.out
          /\ d.near = q.near /\ d.plan = q.plan /\ d.lost = q.lost
          /\ d.res = q.res /\ d.stage = q.stage /\ d.subj = S /\ d.warned = q.warned /\ d.blind = q.blind
      BY <1>2 DEF Job
    <2>4. Goes(d)
      BY <1>3 DEF S
    <2> HIDE DEF d, q
    <2>5. RolesRead(q, d, holds)
      BY <1>1, <2>2, <2>3 DEF RolesRead, Alike, S
    <2>6. QED
      BY <2>4, <2>5
  <1>4. ASSUME q.kind = "all", Goes([Warned(q) EXCEPT !.blind = @ \cup {q.who}])
        PROVE  \E d : RolesRead(q, d, holds) /\ Goes(d)
    <2> DEFINE w == Warned(q)
               d == [w EXCEPT !.blind = @ \cup {q.who}]
    <2>1. /\ w \in Job /\ w.kind = q.kind /\ w.stage = q.stage /\ w.first = q.first
          /\ w.full = q.full /\ w.queue = q.queue /\ w.who = q.who /\ w.subj = q.subj
          /\ w.i = q.i /\ w.near = q.near /\ w.res = q.res
          /\ w.plan = q.plan /\ w.done = q.done /\ w.warned = q.warned \cup {q.who}
          /\ w.blind = q.blind /\ w.lost = q.lost /\ w.out = q.out
      BY <1>2, WarnedIs
    <2>2. Goes(d)
      BY <1>4
    <2> HIDE DEF w
    <2>3. d \in Job
      BY <1>2, <2>1 DEF Job
    <2>4. /\ d.kind = w.kind /\ d.first = w.first /\ d.full = w.full /\ d.queue = w.queue
          /\ d.who = w.who /\ d.i = w.i /\ d.done = w.done /\ d.out = w.out
          /\ d.near = w.near /\ d.plan = w.plan /\ d.lost = w.lost
          /\ d.res = w.res /\ d.stage = w.stage /\ d.subj = w.subj /\ d.warned = w.warned
          /\ d.blind = w.blind \cup {q.who}
      BY <2>1 DEF Job
    <2> HIDE DEF d, q
    <2>5. RolesRead(q, d, holds)
      BY <1>1, <1>4, <2>1, <2>3, <2>4 DEF RolesRead, Alike
    <2>6. QED
      BY <2>2, <2>5
  <1>5. \/ Abort(j, "err")
        \/ Goes([q EXCEPT !.subj = @ \cup (holds[q.who] \cap Roles)])
        \/ q.kind = "all" /\ Goes([Warned(q) EXCEPT !.blind = @ \cup {q.who}])
    BY DEF GetUserRoles
  <1>6. QED
    BY <1>1, <1>2, <1>3, <1>4, <1>5

LEMMA RolesType == ASSUME TypeInv, NEW j \in Jobs, GetUserRoles(j) PROVE TypeInv'
  <1> DEFINE q == jobs[j]
  <1>1. /\ q.kind # "none" /\ q.out = "none" /\ q.who \in People /\ q.i = 0
        /\ Quiet /\ (NoFault \/ Fault) /\ table \in Tables
    BY RolesIs DEF TypeInv
  <1>2. CASE Abort(j, "err")
    BY <1>1, <1>2, AbortType
  <1>3. ASSUME NEW d, RolesRead(q, d, holds),
               Become(j, IF q.kind = "all" THEN NextBinding(d) ELSE [d EXCEPT !.stage = "bindings"])
        PROVE  TypeInv'
    <2>1. /\ d \in Job /\ d.kind = q.kind /\ d.who = q.who /\ d.i = 0 /\ d.res = "none"
          /\ d.out = "none" /\ d.stage = "roles"
      BY <1>1, <1>3 DEF RolesRead, Alike
    <2> HIDE DEF q
    <2>2. Shape(d)
      BY <1>1, <2>1 DEF Shape, UserStage, PassStage
    <2>3. Shape(NextBinding(d))
      BY <1>1, <2>1, NextBindingShape
    <2>4. Shape([d EXCEPT !.stage = "bindings"])
      BY <1>1, <2>1, <2>2, GoesOnShape DEF PassStage
    <2>5. QED
      BY <1>1, <1>3, <2>3, <2>4, QuietType
  <1>4. QED
    BY <1>2, <1>3, RolesIs

LEMMA BindingsType == ASSUME TypeInv, NEW j \in Jobs, ListBindings(j) PROVE TypeInv'
  <1> DEFINE q == jobs[j]
  <1>1. /\ Shape(q) /\ q.stage = "bindings" /\ q.res = "none" /\ q.out = "none"
        /\ Quiet /\ (NoFault \/ Fault) /\ table \in Tables
    BY DEF TypeInv, ListBindings, At
  <1>2. q.kind # "none" /\ q \in Job /\ q.stage \notin PassStage
    BY <1>1 DEF Shape, PassStage
  <1>3. CASE Abort(j, "err")
    BY <1>1, <1>3, AbortType
  <1>4. CASE q.kind = "all" /\ Become(j, [q EXCEPT !.stage = "page"])
    <2>1. Shape([q EXCEPT !.stage = "page"])
      BY <1>1, <1>2, <1>4, GoesOnShape
    <2>2. QED
      BY <1>1, <1>4, <2>1, QuietType
  <1>5. CASE q.kind # "all" /\ Become(j, NextBinding(q))
    <2>1. q.who \in People
      BY <1>1, <1>5 DEF Shape
    <2>2. Shape(NextBinding(q))
      BY <1>1, <1>2, <2>1, NextBindingShape
    <2>3. QED
      BY <1>1, <1>5, <2>2, QuietType
  <1>6. QED
    BY <1>3, <1>4, <1>5 DEF ListBindings

-----------------------------------------------------------------------------
(***************************************************************************)
(* The pages of the listing, when Keycloak's users are K.                  *)
(***************************************************************************)
PresentIn(K) == {p \in People : K[p] # "gone"}
EnabledIn(K) == {p \in People : K[p] = "enabled"}
Listing(K) == Filter(Order, PresentIn(K))
PageAt(K, f) == SubSeq(Listing(K), f + 1, Smaller(f + PageSize, Len(Listing(K))))
Batch(K, f) == Filter(PageAt(K, f), EnabledIn(K))

\* The place in the listing of the n-th user, who is present.
Rank(K, n) == Place(Order, PresentIn(K), n)

LEMMA OrderType ==
    /\ Order \in Seq(People) /\ Len(Order) \in Nat /\ DOMAIN Order = 1..Len(Order)
    /\ \A p \in People : \E n \in DOMAIN Order : Order[n] = p
  <1>1. Order \in Seq(People)
    BY OrderAssumption DEF People
  <1>2. QED
    BY <1>1 DEF People

LEMMA ListingIs ==
    ASSUME NEW K
    PROVE  /\ Listing(K) \in Seq(People) /\ Len(Listing(K)) \in Nat
           /\ \A n \in DOMAIN Order : Order[n] \in PresentIn(K) =>
                /\ Rank(K, n) \in 1..Len(Listing(K))
                /\ Listing(K)[Rank(K, n)] = Order[n]
           /\ \A k \in 1..Len(Listing(K)) : \E n \in DOMAIN Order :
                Order[n] \in PresentIn(K) /\ k = Rank(K, n) /\ Listing(K)[k] = Order[n]
  <1>0. Order \in Seq(People) /\ DOMAIN Order = 1..Len(Order)
    BY OrderType
  <1>1. Listing(K) \in Seq(People \cap PresentIn(K))
    BY <1>0, FilterType DEF Listing
  <1>2. People \cap PresentIn(K) \subseteq People
    OBVIOUS
  <1>3. Listing(K) \in Seq(People)
    BY <1>1, <1>2, SeqMonotonic
  <1>4. ASSUME NEW n \in DOMAIN Order, Order[n] \in PresentIn(K)
        PROVE  Rank(K, n) \in 1..Len(Listing(K)) /\ Listing(K)[Rank(K, n)] = Order[n]
    BY <1>0, <1>4, PlaceIn, FilterKeeps DEF Listing, Rank
  <1>5. ASSUME NEW k \in 1..Len(Listing(K))
        PROVE  \E n \in DOMAIN Order :
                  Order[n] \in PresentIn(K) /\ k = Rank(K, n) /\ Listing(K)[k] = Order[n]
    BY SMTT(30), <1>0, FilterFrom DEF Listing, Rank
  <1>6. QED
    BY <1>3, <1>4, <1>5

LEMMA PageAtIs ==
    ASSUME NEW K, NEW f \in Nat
    PROVE  LET l == Len(PageAt(K, f)) IN
           /\ PageAt(K, f) \in Seq(People) /\ l \in 0..PageSize
           /\ l # PageSize => f + l >= Len(Listing(K))
           /\ \A i \in 1..l : f + i \in 1..Len(Listing(K)) /\ PageAt(K, f)[i] = Listing(K)[f + i]
  <1> DEFINE L == Listing(K)
             b == Smaller(f + PageSize, Len(L))
             a == f + 1
  <1>1. L \in Seq(People) /\ Len(L) \in Nat /\ PageSize \in Nat \ {0}
    BY ListingIs, NumbersAssumption
  <1>2. b \in Nat /\ b <= Len(L) /\ b <= f + PageSize /\ (b = Len(L) \/ b = f + PageSize)
    BY <1>1 DEF Smaller
  <1>3. a \in Nat /\ a = f + 1
    OBVIOUS
  <1>4. PageAt(K, f) = SubSeq(L, a, b)
    BY DEF PageAt
  <1> HIDE DEF L, a, b
  <1>5. \A i \in a..b : L[i] \in People
    BY <1>1, <1>2, <1>3, ElementOfSeq
  <1>6. /\ SubSeq(L, a, b) \in Seq(People)
        /\ Len(SubSeq(L, a, b)) = IF a <= b THEN b - a + 1 ELSE 0
        /\ \A i \in 1..(b - a + 1) : SubSeq(L, a, b)[i] = L[a + i - 1]
    BY <1>2, <1>3, <1>5, SubSeqProperties
  <1> DEFINE l == Len(PageAt(K, f))
  <1>7. l = IF a <= b THEN b - f ELSE 0
    BY <1>2, <1>3, <1>4, <1>6
  <1> HIDE DEF l
  <1>8. l \in 0..PageSize /\ (l # PageSize => f + l >= Len(L))
    BY <1>1, <1>2, <1>3, <1>7
  <1>9. ASSUME NEW i \in 1..l
        PROVE  f + i \in 1..Len(L) /\ PageAt(K, f)[i] = L[f + i]
    <2>1. i \in 1..(b - a + 1) /\ a + i - 1 = f + i /\ f + i \in 1..Len(L)
      BY <1>1, <1>2, <1>3, <1>7
    <2>2. SubSeq(L, a, b)[i] = L[a + i - 1]
      BY <1>6, <2>1
    <2>3. QED
      BY <1>4, <2>1, <2>2
  <1>10. QED
    BY <1>4, <1>6, <1>8, <1>9 DEF L, l

\* Two users have two places.
LEMMA PlacesDiffer ==
    ASSUME NEW K, NEW m \in DOMAIN Order, NEW n \in DOMAIN Order,
           Order[m] \in PresentIn(K), Order[n] \in PresentIn(K), Rank(K, m) = Rank(K, n)
    PROVE  m = n
  BY ListingIs, OrderAssumption

\* Who is to be worked on next: the enabled users of the page, each of them once.
LEMMA BatchIs ==
    ASSUME NEW K, NEW f \in Nat
    PROVE  LET B == Batch(K, f)
               l == Len(PageAt(K, f))
           IN  /\ B \in Seq(People)
               /\ \A m \in DOMAIN B : \E n \in DOMAIN Order :
                     B[m] = Order[n] /\ Order[n] \in PresentIn(K) /\ Rank(K, n) \in (f + 1)..(f + l)
               /\ \A m, n \in DOMAIN B : B[m] = B[n] => m = n
               /\ \A n \in DOMAIN Order :
                     /\ K[Order[n]] = "enabled" /\ Order[n] \in PresentIn(K)
                     /\ Rank(K, n) \in (f + 1)..(f + l)
                     => \E m \in DOMAIN B : B[m] = Order[n]
  <1> DEFINE B == Batch(K, f)
             P == PageAt(K, f)
             l == Len(P)
             E == EnabledIn(K)
  <1>1. /\ P \in Seq(People) /\ l \in Nat
        /\ \A i \in 1..l : f + i \in 1..Len(Listing(K)) /\ P[i] = Listing(K)[f + i]
    BY PageAtIs, NumbersAssumption
  <1>2. B \in Seq(People)
    <2>1. B \in Seq(People \cap E)
      BY <1>1, FilterType DEF Batch
    <2>2. People \cap E \subseteq People
      OBVIOUS
    <2>3. QED
      BY <2>1, <2>2, SeqMonotonic
  <1>3. \A i \in 1..l : \E n \in DOMAIN Order :
           Order[n] \in PresentIn(K) /\ Rank(K, n) = f + i /\ P[i] = Order[n]
    BY <1>1, ListingIs
  <1>4. \A m \in 1..Len(B) : \E i \in 1..l : P[i] \in E /\ m = Place(P, E, i) /\ B[m] = P[i]
    BY <1>1, FilterFrom DEF Batch
  <1>5. \A i \in 1..l : P[i] \in E => Place(P, E, i) \in 1..Len(B) /\ B[Place(P, E, i)] = P[i]
    BY <1>1, PlaceIn, FilterKeeps DEF Batch
  <1>6. DOMAIN B = 1..Len(B)
    BY <1>2
  <1> HIDE DEF B, P, l, E
  <1>7. \A i, k \in 1..l : P[i] = P[k] => i = k
    <2> SUFFICES ASSUME NEW i \in 1..l, NEW k \in 1..l, P[i] = P[k] PROVE i = k
      OBVIOUS
    <2>1. PICK m \in DOMAIN Order : Rank(K, m) = f + i /\ P[i] = Order[m]
      BY <1>3
    <2>2. PICK n \in DOMAIN Order : Rank(K, n) = f + k /\ P[k] = Order[n]
      BY <1>3
    <2>3. m = n
      BY <2>1, <2>2, OrderAssumption
    <2>4. QED
      BY <1>1, <2>1, <2>2, <2>3
  <1>8. ASSUME NEW m \in DOMAIN B
        PROVE  \E n \in DOMAIN Order :
                  B[m] = Order[n] /\ Order[n] \in PresentIn(K) /\ Rank(K, n) \in (f + 1)..(f + l)
    <2>1. PICK i \in 1..l : B[m] = P[i]
      BY <1>4, <1>6
    <2>2. PICK n \in DOMAIN Order : Order[n] \in PresentIn(K) /\ Rank(K, n) = f + i /\ P[i] = Order[n]
      BY <1>3
    <2>3. f + i \in (f + 1)..(f + l)
      BY <1>1
    <2>4. QED
      BY <2>1, <2>2, <2>3
  <1>9. ASSUME NEW m \in DOMAIN B, NEW n \in DOMAIN B, B[m] = B[n] PROVE m = n
    BY <1>4, <1>6, <1>7, <1>9
  <1>10. ASSUME NEW n \in DOMAIN Order, K[Order[n]] = "enabled", Order[n] \in PresentIn(K),
                Rank(K, n) \in (f + 1)..(f + l)
         PROVE  \E m \in DOMAIN B : B[m] = Order[n]
    <2> DEFINE i == Rank(K, n) - f
    <2>1. i \in 1..l /\ f + i = Rank(K, n)
      BY <1>1, <1>10
    <2> HIDE DEF i
    <2>2. P[i] = Order[n]
      BY <1>1, <1>10, <2>1, ListingIs
    <2>3. P[i] \in E
      BY <1>10, <2>2 DEF E, EnabledIn, PresentIn
    <2>4. QED
      BY <1>5, <1>6, <2>1, <2>2, <2>3
  <1>11. QED
    BY <1>2, <1>8, <1>9, <1>10 DEF B, P, l

-----------------------------------------------------------------------------
(***************************************************************************)
(* The steps of a job, by what they leave in its record.                   *)
(***************************************************************************)
PageRead(q, d, K) ==
    /\ d \in Job /\ d.kind = q.kind /\ d.who = q.who /\ d.i = q.i /\ d.done = q.done /\ d.out = q.out
    /\ d.warned = q.warned /\ d.blind = q.blind /\ d.plan = q.plan /\ d.near = q.near
    /\ d.res = q.res /\ d.lost = q.lost /\ d.queue = Batch(K, q.first)
    /\ d.first = q.first + Len(PageAt(K, q.first))
    /\ d.full = (Len(PageAt(K, q.first)) = PageSize)

LEMMA SearchIs ==
    ASSUME TypeInv, NEW j \in Jobs, SearchUsers(j)
    PROVE  LET q == jobs[j] IN
           /\ Shape(q) /\ q.stage = "page" /\ q.res = "none" /\ q.out = "none" /\ q.kind = "all"
           /\ q.i = 0 /\ Quiet /\ (NoFault \/ Fault)
           /\ \/ Abort(j, "err")
              \/ \E d : PageRead(q, d, kc) /\ Become(j, NextUser(d))
  <1> DEFINE q == jobs[j]
             P == PageAt(kc, q.first)
             B == Batch(kc, q.first)
             n == q.first + Len(P)
             c == Len(P) = PageSize
  <1>1. /\ Shape(q) /\ q.stage = "page" /\ q.res = "none" /\ q.out = "none"
        /\ Quiet /\ (NoFault \/ Fault)
    BY DEF TypeInv, SearchUsers, At
  <1>2. q \in Job /\ q.kind = "all" /\ q.i = 0 /\ q.first \in Nat
    BY <1>1 DEF Shape, PassStage, Job
  <1>3. Listed = Listing(kc)
    BY DEF Listed, Listing, PresentIn, Present
  <1>4. P = SubSeq(Listed, q.first + 1, Smaller(q.first + PageSize, Len(Listed)))
    BY <1>3 DEF PageAt
  <1>5. B = Filter(P, {p \in People : IsEnabled(p)})
    BY DEF Batch, EnabledIn, IsEnabled
  <1>6. \/ Abort(j, "err")
        \/ Become(j, NextUser([q EXCEPT !.queue = B, !.first = n, !.full = c]))
    BY <1>4, <1>5 DEF SearchUsers
  <1>7. B \in Seq(People) /\ n \in Nat /\ c \in BOOLEAN
    <2>1. Len(P) \in Nat
      BY <1>2, PageAtIs, NumbersAssumption
    <2>2. QED
      BY <1>2, <2>1, BatchIs
  <1> DEFINE d == [q EXCEPT !.queue = B, !.first = n, !.full = c]
  <1> HIDE DEF B, n, c, P, q
  <1>8. d \in Job
    BY <1>2, <1>7 DEF Job
  <1>9. /\ d.kind = q.kind /\ d.who = q.who /\ d.i = q.i /\ d.done = q.done /\ d.out = q.out
        /\ d.warned = q.warned /\ d.blind = q.blind /\ d.plan = q.plan /\ d.near = q.near
        /\ d.res = q.res /\ d.lost = q.lost /\ d.queue = B /\ d.first = n /\ d.full = c
    BY <1>2 DEF Job
  <1>10. ASSUME Become(j, NextUser(d)) PROVE \E e : PageRead(q, e, kc) /\ Become(j, NextUser(e))
    <2> HIDE DEF d
    <2>1. PageRead(q, d, kc)
      BY <1>8, <1>9 DEF PageRead, B, n, c, P
    <2>2. QED
      BY <1>10, <2>1
  <1>11. QED
    BY <1>1, <1>2, <1>6, <1>10 DEF q

LEMMA SearchType == ASSUME TypeInv, NEW j \in Jobs, SearchUsers(j) PROVE TypeInv'
  <1> DEFINE q == jobs[j]
  <1>1. /\ q.res = "none" /\ q.out = "none" /\ q.kind = "all" /\ q.i = 0 /\ Quiet /\ (NoFault \/ Fault)
    BY SearchIs
  <1>2. CASE Abort(j, "err")
    BY <1>1, <1>2, AbortType
  <1>3. ASSUME NEW d, PageRead(q, d, kc), Become(j, NextUser(d)) PROVE TypeInv'
    <2>1. d \in Job /\ d.kind = "all" /\ d.out = "none" /\ d.i = 0 /\ d.res = "none"
      BY <1>1, <1>3 DEF PageRead
    <2>2. Shape(NextUser(d))
      BY <2>1, NextUserShape
    <2>3. QED
      BY <1>1, <1>3, <2>2, QuietType
  <1>4. QED
    BY <1>2, <1>3, SearchIs

\* The rooms of a binding are at hand.
Expanded(q, d) ==
    /\ Alike(q, d) /\ d.subj = q.subj /\ d.blind = q.blind /\ d.lost = q.lost /\ d.plan = q.plan
    /\ \/ d.warned = q.warned /\ d.near = IF Visits(q) THEN Targets(table[q.i]) ELSE {}
       \/ d.warned = q.warned \cup {q.who} /\ d.near = IF Visits(q) THEN {table[q.i].root} ELSE {}

LEMMA PassIs ==
    ASSUME TypeInv, NEW j \in Jobs, jobs[j].stage \in PassStage
    PROVE  LET q == jobs[j] IN
           /\ q \in Job /\ Shape(q) /\ q.who \in People /\ q.kind # "none" /\ q.i \in DOMAIN table
           /\ table \in Tables /\ table[q.i] \in Binding /\ table[q.i].root \in Rooms
           /\ table[q.i].subject \in Subjects
           /\ Targets(table[q.i]) \subseteq Rooms
  <1>1. Shape(jobs[j]) /\ table \in Tables
    BY DEF TypeInv
  <1>2. /\ jobs[j] \in Job /\ jobs[j].who \in People /\ jobs[j].i \in DOMAIN table
        /\ jobs[j].kind # "none"
    BY <1>1 DEF Shape, UserStage, PassStage
  <1>3. table \in Seq(Binding)
    BY <1>1, TableType
  <1>4. table[jobs[j].i] \in Binding
    BY <1>2, <1>3, ElementOfSeq
  <1>5. QED
    BY <1>1, <1>2, <1>4, RoomsAssumption DEF Binding, Targets

LEMMA ChildrenIs ==
    ASSUME TypeInv, NEW j \in Jobs, GetSpaceChildren(j)
    PROVE  LET q == jobs[j] IN
           /\ q.stage = "expand" /\ q.res = "none" /\ q.out = "none" /\ Quiet /\ (NoFault \/ Fault)
           /\ \E d : Expanded(q, d) /\ Become(j, NextRoom(d))
  <1> DEFINE q == jobs[j]
             T == IF Visits(q) THEN Targets(table[q.i]) ELSE {}
             R == IF Visits(q) THEN {table[q.i].root} ELSE {}
             Goes(d) == Become(j, NextRoom(d))
  <1>1. q.stage = "expand" /\ q.res = "none" /\ q.out = "none" /\ Quiet /\ (NoFault \/ Fault)
    BY DEF GetSpaceChildren, At
  <1>2. q \in Job /\ q.who \in People /\ Targets(table[q.i]) \subseteq Rooms /\ table[q.i].root \in Rooms
    BY <1>1, PassIs DEF PassStage
  <1>3. T \subseteq Rooms /\ R \subseteq Rooms
    BY <1>2
  <1>4. Goes([q EXCEPT !.near = T]) \/ Goes([Warned(q) EXCEPT !.near = R])
    BY DEF GetSpaceChildren
  <1> HIDE DEF T, R, q
  <1>5. ASSUME Goes([q EXCEPT !.near = T]) PROVE \E d : Expanded(q, d) /\ Goes(d)
    <2> DEFINE d == [q EXCEPT !.near = T]
    <2>1. /\ d \in Job /\ d.kind = q.kind /\ d.first = q.first /\ d.full = q.full
          /\ d.queue = q.queue /\ d.who = q.who /\ d.i = q.i /\ d.done = q.done /\ d.out = q.out
          /\ d.subj = q.subj /\ d.blind = q.blind /\ d.lost = q.lost /\ d.plan = q.plan
          /\ d.warned = q.warned /\ d.near = T
      BY <1>2, <1>3 DEF Job
    <2>2. Goes(d)
      BY <1>5
    <2> HIDE DEF d
    <2>3. QED
      BY <2>1, <2>2 DEF Expanded, Alike, T
  <1>6. ASSUME Goes([Warned(q) EXCEPT !.near = R]) PROVE \E d : Expanded(q, d) /\ Goes(d)
    <2> DEFINE w == Warned(q)
               d == [w EXCEPT !.near = R]
    <2>1. /\ w \in Job /\ w.kind = q.kind /\ w.first = q.first /\ w.full = q.full
          /\ w.queue = q.queue /\ w.who = q.who /\ w.i = q.i /\ w.done = q.done /\ w.out = q.out
          /\ w.subj = q.subj /\ w.blind = q.blind /\ w.lost = q.lost /\ w.plan = q.plan
          /\ w.warned = q.warned \cup {q.who}
      BY <1>2, WarnedIs
    <2>2. Goes(d)
      BY <1>6
    <2> HIDE DEF w
    <2>3. /\ d \in Job /\ d.kind = w.kind /\ d.first = w.first /\ d.full = w.full
          /\ d.queue = w.queue /\ d.who = w.who /\ d.i = w.i /\ d.done = w.done /\ d.out = w.out
          /\ d.subj = w.subj /\ d.blind = w.blind /\ d.lost = w.lost /\ d.plan = w.plan
          /\ d.warned = w.warned /\ d.near = R
      BY <1>3, <2>1 DEF Job
    <2> HIDE DEF d
    <2>4. QED
      BY <2>1, <2>2, <2>3 DEF Expanded, Alike, R
  <1>7. QED
    BY <1>1, <1>4, <1>5, <1>6 DEF q

LEMMA ChildrenType == ASSUME TypeInv, NEW j \in Jobs, GetSpaceChildren(j) PROVE TypeInv'
  <1> DEFINE q == jobs[j]
  <1>1. q.stage = "expand" /\ q.out = "none" /\ Quiet /\ (NoFault \/ Fault)
    BY ChildrenIs
  <1>2. q.who \in People /\ q.kind # "none" /\ q.i \in DOMAIN table /\ table \in Tables
    BY <1>1, PassIs DEF PassStage
  <1>3. PICK d : Expanded(q, d) /\ Become(j, NextRoom(d))
    BY ChildrenIs
  <1>4. Shape(NextRoom(d))
    BY <1>1, <1>2, <1>3, NextRoomShape DEF Expanded, Alike
  <1>5. QED
    BY <1>1, <1>3, <1>4, QuietType

\* The members of one of the rooms are known, or could not be read.
Met(q, d, t) ==
    /\ Alike(q, d) /\ d.subj = q.subj /\ d.blind = q.blind /\ d.lost = q.lost
    /\ d.res = "none" /\ d.near = q.near \ {t} /\ d.room = t

MembersRead(j, q, t, in) ==
    \/ \E d : /\ Met(q, d, t) /\ q.kind = "preview" /\ d.warned = q.warned
              /\ d.plan = LET x == Shown(q, t, in)
                          IN  IF x.act = "none" THEN q.plan ELSE q.plan \cup {x}
              /\ Become(j, NextRoom(d))
    \/ \E d : /\ Met(q, d, t) /\ q.kind # "preview" /\ d.warned = q.warned /\ d.plan = q.plan
              /\ in = Matches(q)
              /\ Become(j, NextRoom(d))
    \/ \E d : /\ Met(q, d, t) /\ q.kind # "preview" /\ d.warned = q.warned /\ d.plan = q.plan
              /\ in # Matches(q) /\ d.stage = (IF Matches(q) THEN "join" ELSE "kick")
              /\ Become(j, d)
    \/ \E d : /\ Met(q, d, t) /\ d.warned = q.warned \cup {q.who} /\ d.plan = q.plan
              /\ Become(j, NextRoom(d))

LEMMA ShownType ==
    ASSUME NEW q, NEW t \in Rooms, NEW in, q.i \in Nat, Shown(q, t, in).act # "none"
    PROVE  Shown(q, t, in) \in Action
  <1> DEFINE a == CASE Matches(q) /\ ~in -> "join"
                    [] ~Matches(q) /\ in /\ table[q.i].remove -> "kick"
                    [] Matches(q) /\ in -> "keep"
                    [] OTHER -> "none"
  <1>1. Shown(q, t, in) = [act |-> a, room |-> t, i |-> q.i]
    BY DEF Shown
  <1>2. a \in {"join", "kick", "keep", "none"}
    OBVIOUS
  <1> HIDE DEF a
  <1>3. a # "none"
    BY <1>1
  <1>4. QED
    BY <1>1, <1>2, <1>3 DEF Action

LEMMA MembersIs ==
    ASSUME TypeInv, NEW j \in Jobs, GetJoinedRoomMembers(j)
    PROVE  LET q == jobs[j] IN
           /\ q.stage = "members" /\ q.res = "none" /\ q.out = "none" /\ Quiet /\ (NoFault \/ Fault)
           /\ \E t \in q.near : t \in Rooms /\ MembersRead(j, q, t, q.who \in member[t])
  <1> DEFINE q == jobs[j]
  <1>1. q.stage = "members" /\ q.res = "none" /\ q.out = "none" /\ Quiet
    BY DEF GetJoinedRoomMembers, At
  <1>2. q \in Job /\ q.who \in People
    BY <1>1, PassIs DEF PassStage
  <1> DEFINE v(t) == [q EXCEPT !.near = @ \ {t}, !.room = t]
             x(t) == Shown(v(t), t, q.who \in member[t])
             l(t) == IF x(t).act = "none" THEN q.plan ELSE q.plan \cup {x(t)}
             in(t) == q.who \in member[t]
  <1>3. PICK t \in q.near :
           \/ v(t).kind = "preview" /\ NoFault
              /\ Become(j, NextRoom([v(t) EXCEPT !.plan =
                                  IF Shown(v(t), t, v(t).who \in member[t]).act = "none" THEN @
                                  ELSE @ \cup {Shown(v(t), t, v(t).who \in member[t])}]))
           \/ v(t).kind # "preview" /\ (v(t).who \in member[t]) = Matches(v(t)) /\ NoFault
              /\ Become(j, NextRoom(v(t)))
           \/ v(t).kind # "preview" /\ (v(t).who \in member[t]) # Matches(v(t)) /\ NoFault
              /\ Become(j, [v(t) EXCEPT !.stage = IF Matches(v(t)) THEN "join" ELSE "kick"])
           \/ Fault /\ Become(j, NextRoom(Warned(v(t))))
    BY DEF GetJoinedRoomMembers
  <1>4. t \in Rooms /\ v(t) \in Job
    BY <1>2 DEF Job
  <1>5. /\ v(t).kind = q.kind /\ v(t).first = q.first /\ v(t).full = q.full /\ v(t).queue = q.queue
        /\ v(t).who = q.who /\ v(t).i = q.i /\ v(t).done = q.done /\ v(t).out = q.out
        /\ v(t).subj = q.subj /\ v(t).blind = q.blind /\ v(t).lost = q.lost
        /\ v(t).res = q.res /\ v(t).near = q.near \ {t} /\ v(t).room = t
        /\ v(t).warned = q.warned /\ v(t).plan = q.plan
    BY <1>2, <1>4 DEF Job
  <1>6. Matches(v(t)) = Matches(q) /\ x(t) = Shown(q, t, in(t))
    BY <1>5 DEF Matches, Shown
  <1> DEFINE p == v(t)
             y == x(t)
             m == l(t)
             z == in(t)
  <1>7. \/ p.kind = "preview" /\ Become(j, NextRoom([p EXCEPT !.plan = m]))
        \/ p.kind # "preview" /\ z = Matches(q) /\ Become(j, NextRoom(p))
        \/ p.kind # "preview" /\ z # Matches(q)
             /\ Become(j, [p EXCEPT !.stage = IF Matches(q) THEN "join" ELSE "kick"])
        \/ Become(j, NextRoom(Warned(p)))
    BY <1>3, <1>5, <1>6
  <1>8. NoFault \/ Fault
    BY <1>3
  <1>9. m = (LET a == Shown(q, t, z) IN IF a.act = "none" THEN q.plan ELSE q.plan \cup {a})
    BY <1>6
  <1>10. m \subseteq Action
    <2>1. q.plan \subseteq Action /\ q.i \in Nat
      BY <1>2 DEF Job
    <2>2. Shown(q, t, z).act # "none" => Shown(q, t, z) \in Action
      BY <1>4, <2>1, ShownType
    <2> HIDE DEF m, z
    <2>3. QED
      BY <1>9, <2>1, <2>2
  <1> HIDE DEF v, x, l, in, p, m, z
  <1>11. p \in Job /\ Met(q, p, t) /\ p.warned = q.warned /\ p.plan = q.plan /\ p.kind = q.kind
    BY <1>1, <1>4, <1>5 DEF p, Met, Alike
  <1>12. CASE p.kind = "preview" /\ Become(j, NextRoom([p EXCEPT !.plan = m]))
    <2> DEFINE d == [p EXCEPT !.plan = m]
    <2>1. d \in Job
      BY <1>10, <1>11 DEF Job
    <2>2. /\ d.kind = p.kind /\ d.first = p.first /\ d.full = p.full /\ d.queue = p.queue
          /\ d.who = p.who /\ d.i = p.i /\ d.done = p.done /\ d.out = p.out
          /\ d.subj = p.subj /\ d.blind = p.blind /\ d.lost = p.lost
          /\ d.res = p.res /\ d.near = p.near /\ d.room = p.room
          /\ d.warned = p.warned /\ d.plan = m
      BY <1>11 DEF Job
    <2>3. Become(j, NextRoom(d))
      BY <1>12
    <2> HIDE DEF d
    <2>4. Met(q, d, t) /\ q.kind = "preview" /\ d.warned = q.warned
      BY <1>11, <1>12, <2>1, <2>2 DEF Met, Alike
    <2>5. MembersRead(j, q, t, z)
      BY <1>9, <2>2, <2>3, <2>4 DEF MembersRead
    <2>6. QED
      BY <1>1, <1>4, <1>8, <2>5 DEF z, in
  <1>13. CASE p.kind # "preview" /\ z = Matches(q) /\ Become(j, NextRoom(p))
    <2>1. MembersRead(j, q, t, z)
      BY <1>11, <1>13 DEF MembersRead
    <2>2. QED
      BY <1>1, <1>4, <1>8, <2>1 DEF z, in
  <1>14. CASE p.kind # "preview" /\ z # Matches(q)
              /\ Become(j, [p EXCEPT !.stage = IF Matches(q) THEN "join" ELSE "kick"])
    <2> DEFINE s == IF Matches(q) THEN "join" ELSE "kick"
               d == [p EXCEPT !.stage = s]
    <2>0. s \in {"join", "kick"}
      OBVIOUS
    <2>1. Become(j, d)
      BY <1>14
    <2> HIDE DEF s
    <2>2. d \in Job
      BY <1>11, <2>0 DEF Job, Stage
    <2>3. /\ d.kind = p.kind /\ d.first = p.first /\ d.full = p.full /\ d.queue = p.queue
          /\ d.who = p.who /\ d.i = p.i /\ d.done = p.done /\ d.out = p.out
          /\ d.subj = p.subj /\ d.blind = p.blind /\ d.lost = p.lost
          /\ d.res = p.res /\ d.near = p.near /\ d.room = p.room
          /\ d.warned = p.warned /\ d.plan = p.plan /\ d.stage = s
      BY <1>11 DEF Job
    <2> HIDE DEF d
    <2>4. Met(q, d, t)
      BY <1>11, <2>2, <2>3 DEF Met, Alike
    <2>5. MembersRead(j, q, t, z)
      BY <1>11, <1>14, <2>1, <2>3, <2>4 DEF MembersRead, s
    <2>6. QED
      BY <1>1, <1>4, <1>8, <2>5 DEF z, in
  <1>15. CASE Become(j, NextRoom(Warned(p)))
    <2> DEFINE d == Warned(p)
    <2>1. p.who = q.who /\ p.who \in People
      BY <1>2, <1>11 DEF Met, Alike
    <2>2. /\ d \in Job /\ d.kind = p.kind /\ d.first = p.first /\ d.full = p.full /\ d.queue = p.queue
          /\ d.who = p.who /\ d.i = p.i /\ d.done = p.done /\ d.out = p.out
          /\ d.subj = p.subj /\ d.blind = p.blind /\ d.lost = p.lost
          /\ d.res = p.res /\ d.near = p.near /\ d.room = p.room
          /\ d.warned = p.warned \cup {p.who} /\ d.plan = p.plan
      BY <1>11, <2>1, WarnedIs
    <2>3. Become(j, NextRoom(d))
      BY <1>15
    <2> HIDE DEF d
    <2>4. Met(q, d, t) /\ d.warned = q.warned \cup {q.who} /\ d.plan = q.plan
      BY <1>11, <2>1, <2>2 DEF Met, Alike
    <2>5. MembersRead(j, q, t, z)
      BY <2>3, <2>4 DEF MembersRead
    <2>6. QED
      BY <1>1, <1>4, <1>8, <2>5 DEF z, in
  <1>16. QED
    BY <1>7, <1>12, <1>13, <1>14, <1>15

LEMMA MembersType == ASSUME TypeInv, NEW j \in Jobs, GetJoinedRoomMembers(j) PROVE TypeInv'
  <1> DEFINE q == jobs[j]
  <1>1. q.stage = "members" /\ q.out = "none" /\ Quiet /\ (NoFault \/ Fault)
    BY MembersIs
  <1>2. q.who \in People /\ q.kind # "none" /\ q.i \in DOMAIN table /\ table \in Tables
    BY <1>1, PassIs DEF PassStage
  <1>3. PICK t \in q.near : t \in Rooms /\ MembersRead(j, q, t, q.who \in member[t])
    BY MembersIs
  <1>4. ASSUME NEW d, Met(q, d, t), Become(j, NextRoom(d)) PROVE TypeInv'
    <2>1. Shape(NextRoom(d))
      BY <1>1, <1>2, <1>4, NextRoomShape DEF Met, Alike
    <2>2. QED
      BY <1>1, <1>4, <2>1, QuietType
  <1>5. ASSUME NEW d, Met(q, d, t), d.stage \in {"join", "kick"}, Become(j, d) PROVE TypeInv'
    <2>1. Shape(d)
      BY <1>1, <1>2, <1>3, <1>5 DEF Met, Alike, Shape, UserStage, PassStage
    <2>2. QED
      BY <1>1, <1>5, <2>1, QuietType
  <1>6. QED
    BY <1>3, <1>4, <1>5 DEF MembersRead

\* A call was made and answered.
Called(q, p, a) ==
    /\ Alike(q, p) /\ p.subj = q.subj /\ p.blind = q.blind /\ p.lost = q.lost
    /\ p.warned = q.warned /\ p.plan = q.plan /\ p.near = q.near /\ p.room = q.room
    /\ p.stage = q.stage /\ p.res = Answer(a)

LEMMA CallIs ==
    ASSUME NEW q \in Job, NEW a
    PROVE  Called(q, [q EXCEPT !.res = Answer(a)], a)
  <1> DEFINE x == Answer(a)
             p == [q EXCEPT !.res = x]
  <1>1. x \in {"ok", "err"}
    BY DEF Answer
  <1> HIDE DEF x
  <1>2. p \in Job
    BY <1>1 DEF Job
  <1>3. /\ p.kind = q.kind /\ p.first = q.first /\ p.full = q.full /\ p.queue = q.queue
        /\ p.who = q.who /\ p.i = q.i /\ p.done = q.done /\ p.out = q.out
        /\ p.subj = q.subj /\ p.blind = q.blind /\ p.lost = q.lost
        /\ p.warned = q.warned /\ p.plan = q.plan /\ p.near = q.near /\ p.room = q.room
        /\ p.stage = q.stage /\ p.res = x
    BY DEF Job
  <1> HIDE DEF p
  <1>4. Called(q, p, a)
    BY <1>2, <1>3 DEF Called, Alike, x
  <1>5. QED
    BY <1>4 DEF p, x

\* The record of a call.
ThisCall(j, q) == [by |-> j, act |-> q.stage, who |-> q.who, room |-> q.room, i |-> q.i]

LEMMA CallsType ==
    ASSUME TypeInv, NEW j \in Jobs, NEW a, Calls(j, a), jobs[j].stage \in {"join", "kick", "power"}
    PROVE  /\ made' \subseteq Call /\ faults' \in 0..MaxFaults
           /\ UNCHANGED <<table, kc, holds, audit, changed, stirs>>
           /\ made' = made \cup {ThisCall(j, jobs[j])}
  <1>1. Shape(jobs[j]) /\ jobs[j] \in Job /\ jobs[j].room \in Rooms /\ jobs[j].who \in People
    BY DEF TypeInv, Shape, UserStage, PassStage
  <1>2. ThisCall(j, jobs[j]) \in Call
    BY <1>1 DEF ThisCall, Call, Job
  <1>3. made' = made \cup {ThisCall(j, jobs[j])}
    BY DEF Calls, ThisCall
  <1>4. NoFault \/ Fault
    BY DEF Calls, Costs
  <1>5. faults' \in 0..MaxFaults
    BY <1>4, FaultType DEF TypeInv
  <1>6. QED
    BY <1>2, <1>3, <1>5 DEF Calls, TypeInv

LEMMA MovesType ==
    ASSUME moved \in [Jobs -> SUBSET (People \X Rooms)], NEW j, NEW p \in People, NEW r \in Rooms,
           Moves(j, p, r)
    PROVE  moved' \in [Jobs -> SUBSET (People \X Rooms)]
  BY DEF Moves

LEMMA JoinIs ==
    ASSUME TypeInv, NEW j \in Jobs, ForceJoinUser(j)
    PROVE  LET q == jobs[j] IN
           /\ q.stage = "join" /\ q.res = "none" /\ q.out = "none" /\ UNCHANGED power
           /\ \E a \in {"ok", "late", "fail"} : \E p :
                /\ Calls(j, a) /\ Become(j, p) /\ Called(q, p, a)
                /\ IF Applied(a) /\ q.who \notin member[q.room]
                     THEN member' = [member EXCEPT ![q.room] = @ \cup {q.who}] /\ Moves(j, q.who, q.room)
                     ELSE UNCHANGED <<member, moved>>
  <1> DEFINE q == jobs[j]
             In(a) == IF Applied(a) /\ q.who \notin member[q.room]
                        THEN member' = [member EXCEPT ![q.room] = @ \cup {q.who}] /\ Moves(j, q.who, q.room)
                        ELSE UNCHANGED <<member, moved>>
  <1>1. q.stage = "join" /\ q.res = "none" /\ q.out = "none" /\ UNCHANGED power
    BY DEF ForceJoinUser, At
  <1>2. PICK a \in {"ok", "late", "fail"} :
           Calls(j, a) /\ Become(j, [q EXCEPT !.res = Answer(a)]) /\ In(a)
    BY DEF ForceJoinUser, Answers
  <1>3. q \in Job
    BY DEF TypeInv
  <1>4. Called(q, [q EXCEPT !.res = Answer(a)], a)
    BY <1>3, CallIs
  <1>5. QED
    BY <1>1, <1>2, <1>4

LEMMA KickIs ==
    ASSUME TypeInv, NEW j \in Jobs, KickUser(j)
    PROVE  LET q == jobs[j] IN
           /\ q.stage = "kick" /\ q.res = "none" /\ q.out = "none" /\ UNCHANGED power
           /\ \E a \in {"ok", "late", "fail", "refused"} : \E p :
                /\ Calls(j, a) /\ Become(j, p) /\ Called(q, p, a)
                /\ IF Applied(a)
                     THEN member' = [member EXCEPT ![q.room] = @ \ {q.who}] /\ Moves(j, q.who, q.room)
                     ELSE UNCHANGED <<member, moved>>
  <1> DEFINE q == jobs[j]
             Out(a) == IF Applied(a)
                         THEN member' = [member EXCEPT ![q.room] = @ \ {q.who}] /\ Moves(j, q.who, q.room)
                         ELSE UNCHANGED <<member, moved>>
  <1>1. q.stage = "kick" /\ q.res = "none" /\ q.out = "none" /\ UNCHANGED power
    BY DEF KickUser, At
  <1>2. PICK a \in {"ok", "late", "fail", "refused"} :
           Calls(j, a) /\ Become(j, [q EXCEPT !.res = Answer(a)]) /\ Out(a)
    BY DEF KickUser, Answers
  <1>3. q \in Job
    BY DEF TypeInv
  <1>4. Called(q, [q EXCEPT !.res = Answer(a)], a)
    BY <1>3, CallIs
  <1>5. QED
    BY <1>1, <1>2, <1>4

LEMMA JoinKickType ==
    ASSUME TypeInv, NEW j \in Jobs, jobs[j].stage \in {"join", "kick"}, jobs[j].out = "none",
           UNCHANGED power, NEW a, NEW p, Calls(j, a), Become(j, p), Called(jobs[j], p, a),
           \/ member' = [member EXCEPT ![jobs[j].room] = @ \cup {jobs[j].who}]
           \/ member' = [member EXCEPT ![jobs[j].room] = @ \ {jobs[j].who}]
           \/ member' = member,
           Moves(j, jobs[j].who, jobs[j].room) \/ UNCHANGED moved
    PROVE  TypeInv'
  <1> DEFINE q == jobs[j]
  <1>1. Shape(q) /\ q.room \in Rooms /\ q.who \in People
    BY DEF TypeInv, Shape, UserStage, PassStage
  <1>2. /\ made' \subseteq Call /\ faults' \in 0..MaxFaults
        /\ UNCHANGED <<table, kc, holds, audit, changed, stirs>>
    BY CallsType
  <1>3. Shape(p)
    BY <1>1 DEF Called, Alike, Shape, UserStage, PassStage
  <1>4. (jobs \in [Jobs -> Job] /\ \A k \in Jobs : Shape(jobs[k]))'
    BY <1>2, <1>3, OneJob DEF TypeInv
  <1>5. moved' \in [Jobs -> SUBSET (People \X Rooms)]
    BY <1>1, MovesType DEF TypeInv
  <1>6. member' \in [Rooms -> SUBSET People]
    BY <1>1 DEF TypeInv
  <1>7. QED
    BY <1>2, <1>4, <1>5, <1>6 DEF TypeInv

LEMMA JoinType == ASSUME TypeInv, NEW j \in Jobs, ForceJoinUser(j) PROVE TypeInv'
  <1>1. PICK a, p : /\ Calls(j, a) /\ Become(j, p) /\ Called(jobs[j], p, a)
                    /\ \/ member' = [member EXCEPT ![jobs[j].room] = @ \cup {jobs[j].who}]
                       \/ member' = member
                    /\ Moves(j, jobs[j].who, jobs[j].room) \/ UNCHANGED moved
    BY JoinIs
  <1>2. jobs[j].stage = "join" /\ jobs[j].out = "none" /\ UNCHANGED power
    BY JoinIs
  <1>3. QED
    BY <1>1, <1>2, JoinKickType

LEMMA KickType == ASSUME TypeInv, NEW j \in Jobs, KickUser(j) PROVE TypeInv'
  <1>1. PICK a, p : /\ Calls(j, a) /\ Become(j, p) /\ Called(jobs[j], p, a)
                    /\ \/ member' = [member EXCEPT ![jobs[j].room] = @ \ {jobs[j].who}]
                       \/ member' = member
                    /\ Moves(j, jobs[j].who, jobs[j].room) \/ UNCHANGED moved
    BY KickIs
  <1>2. jobs[j].stage = "kick" /\ jobs[j].out = "none" /\ UNCHANGED power
    BY KickIs
  <1>3. QED
    BY <1>1, <1>2, JoinKickType

\* What a record keeps over an audit entry and over the calls for a level.
Entered(q, d) ==
    /\ Alike(q, d) /\ d.subj = q.subj /\ d.blind = q.blind /\ d.plan = q.plan
    /\ d.near = q.near /\ d.room = q.room
    /\ d.warned = q.warned \/ d.warned = q.warned \cup {q.who}

AfterIs(j, q, d) ==
    \/ /\ q.stage = "join" /\ q.res = "ok" /\ table[q.i].level # None
       /\ Become(j, d) /\ d.stage = "levels" /\ d.res = "none"
    \/ Become(j, NextRoom(d))

LEMMA AfterEntryIs ==
    ASSUME NEW j \in Jobs, NEW q \in Job, q.who \in People, q.res # "none", Become(j, AfterEntry(q))
    PROVE  \E d : /\ Entered(q, d) /\ d.lost = q.lost /\ AfterIs(j, q, d)
                  /\ q.res = "err" => q.who \in d.warned
  <1>1. CASE q.stage = "join" /\ q.res = "ok" /\ table[q.i].level # None
    <2> DEFINE d == [q EXCEPT !.res = "none", !.stage = "levels"]
    <2>1. Become(j, d)
      BY <1>1 DEF AfterEntry
    <2>2. /\ d \in Job /\ d.kind = q.kind /\ d.first = q.first /\ d.full = q.full /\ d.queue = q.queue
          /\ d.who = q.who /\ d.i = q.i /\ d.done = q.done /\ d.out = q.out
          /\ d.subj = q.subj /\ d.blind = q.blind /\ d.lost = q.lost /\ d.warned = q.warned
          /\ d.plan = q.plan /\ d.near = q.near /\ d.room = q.room
          /\ d.stage = "levels" /\ d.res = "none"
      BY DEF Job, Stage
    <2> HIDE DEF d
    <2>3. QED
      BY <1>1, <2>1, <2>2 DEF Entered, Alike, AfterIs
  <1>2. CASE ~(q.stage = "join" /\ q.res = "ok" /\ table[q.i].level # None) /\ q.res = "ok"
    <2>1. Become(j, NextRoom(q))
      BY <1>2 DEF AfterEntry
    <2>2. Entered(q, q)
      BY DEF Entered, Alike
    <2>3. QED
      BY <1>2, <2>1, <2>2 DEF AfterIs
  <1>3. CASE q.res = "err"
    <2> DEFINE d == Warned(q)
    <2>1. Become(j, NextRoom(d))
      BY <1>3 DEF AfterEntry
    <2>2. /\ d \in Job /\ d.kind = q.kind /\ d.first = q.first /\ d.full = q.full /\ d.queue = q.queue
          /\ d.who = q.who /\ d.i = q.i /\ d.done = q.done /\ d.out = q.out
          /\ d.subj = q.subj /\ d.blind = q.blind /\ d.lost = q.lost
          /\ d.warned = q.warned \cup {q.who}
          /\ d.plan = q.plan /\ d.near = q.near /\ d.room = q.room
      BY WarnedIs
    <2> HIDE DEF d
    <2>3. QED
      BY <1>3, <2>1, <2>2 DEF Entered, Alike, AfterIs
  <1>4. QED
    BY <1>1, <1>2, <1>3 DEF Job

\* The step that writes an entry, or fails to.
LEMMA AuditIs ==
    ASSUME TypeInv, NEW j \in Jobs, Audit(j)
    PROVE  LET q == jobs[j] IN
           /\ q.stage \in {"join", "kick"} /\ q.res # "none" /\ q.out = "none"
           /\ UNCHANGED <<table, kc, holds, member, power, made, moved, changed, stirs>>
           /\ NoFault \/ Fault
           /\ \E d : /\ Entered(q, d) /\ AfterIs(j, q, d)
                     /\ q.res = "err" => q.who \in d.warned
                     /\ \/ audit' = audit \cup {Entry(j, q)} /\ d.lost = q.lost
                        \/ audit' = audit /\ d.lost /\ q.who \in d.warned
  <1> DEFINE q == jobs[j]
             w == Warned(q)
             c == [w EXCEPT !.lost = TRUE]
  <1>1. /\ q.res # "none" /\ q.out = "none"
        /\ UNCHANGED <<table, kc, holds, member, power, made, moved, changed, stirs>>
        /\ NoFault \/ Fault
    BY DEF Audit, upstream, history
  <1>2. q \in Job /\ q.stage \in {"join", "kick"} /\ q.who \in People
    BY <1>1 DEF TypeInv, Shape, UserStage, PassStage
  <1>3. CASE audit' = audit \cup {Entry(j, q)} /\ Become(j, AfterEntry(q))
    BY <1>1, <1>2, <1>3, AfterEntryIs
  <1>4. CASE audit' = audit /\ Become(j, AfterEntry(c))
    <2>0. Become(j, AfterEntry(c))
      BY <1>4
    <2>1. /\ w \in Job /\ w.kind = q.kind /\ w.first = q.first /\ w.full = q.full
          /\ w.queue = q.queue /\ w.who = q.who /\ w.i = q.i /\ w.done = q.done /\ w.out = q.out
          /\ w.subj = q.subj /\ w.blind = q.blind /\ w.plan = q.plan
          /\ w.warned = q.warned \cup {q.who} /\ w.stage = q.stage /\ w.res = q.res
          /\ w.near = q.near /\ w.room = q.room
      BY <1>2, WarnedIs
    <2> HIDE DEF w, q
    <2>2. /\ c \in Job /\ c.kind = w.kind /\ c.first = w.first /\ c.full = w.full
          /\ c.queue = w.queue /\ c.who = w.who /\ c.i = w.i /\ c.done = w.done /\ c.out = w.out
          /\ c.subj = w.subj /\ c.blind = w.blind /\ c.plan = w.plan
          /\ c.warned = w.warned /\ c.stage = w.stage /\ c.res = w.res
          /\ c.near = w.near /\ c.room = w.room /\ c.lost
      BY <2>1 DEF Job
    <2> HIDE DEF c
    <2>3. c.who \in People /\ c.res # "none"
      BY <1>1, <1>2, <2>1, <2>2
    <2>4. \E d : /\ Entered(c, d) /\ d.lost = c.lost /\ AfterIs(j, c, d)
                 /\ c.res = "err" => c.who \in d.warned
      BY <2>0, <2>2, <2>3, AfterEntryIs
    <2>5. PICK d : /\ Entered(c, d) /\ d.lost = c.lost /\ AfterIs(j, c, d)
                   /\ c.res = "err" => c.who \in d.warned
      BY <2>4
    <2>6. Entered(q, d) /\ d.lost /\ q.who \in d.warned
      BY <2>1, <2>2, <2>5 DEF Entered, Alike
    <2>7. AfterIs(j, q, d)
      BY <2>1, <2>2, <2>5 DEF AfterIs
    <2>8. QED
      BY <1>1, <1>2, <1>4, <2>6, <2>7 DEF q
  <1>5. QED
    BY <1>3, <1>4 DEF Audit

LEMMA EntryType ==
    ASSUME TypeInv, NEW j \in Jobs, jobs[j].stage \in {"join", "kick"}
    PROVE  Entry(j, jobs[j]) \in AuditEntry
  <1>1. Shape(jobs[j]) /\ jobs[j].room \in Rooms /\ jobs[j].who \in People
    BY DEF TypeInv, Shape, UserStage, PassStage
  <1>2. table[jobs[j].i].subject \in Subjects
    BY PassIs DEF PassStage
  <1>3. QED
    BY <1>1, <1>2 DEF Entry, AuditEntry

\* What follows an entry or the calls for a level is a proper record.
LEMMA AfterShape ==
    ASSUME TypeInv, NEW j \in Jobs, jobs[j].stage \in PassStage, jobs[j].out = "none",
           NEW d, Entered(jobs[j], d)
    PROVE  Shape(NextRoom(d))
  <1>1. /\ jobs[j].who \in People /\ jobs[j].kind # "none" /\ jobs[j].i \in DOMAIN table
        /\ table \in Tables
    BY PassIs
  <1>2. QED
    BY <1>1, NextRoomShape DEF Entered, Alike

LEMMA AuditType == ASSUME TypeInv, NEW j \in Jobs, Audit(j) PROVE TypeInv'
  <1> DEFINE q == jobs[j]
  <1>1. /\ q.stage \in {"join", "kick"} /\ q.out = "none"
        /\ UNCHANGED <<table, kc, holds, member, power, made, moved, changed, stirs>>
        /\ NoFault \/ Fault
    BY AuditIs
  <1>2. PICK d : /\ Entered(q, d) /\ AfterIs(j, q, d)
                 /\ q.res = "err" => q.who \in d.warned
                 /\ \/ audit' = audit \cup {Entry(j, q)} /\ d.lost = q.lost
                    \/ audit' = audit /\ d.lost /\ q.who \in d.warned
    BY AuditIs
  <1>3. PICK p : Become(j, p) /\ Shape(p)
    <2>1. CASE Become(j, NextRoom(d))
      BY <1>1, <1>2, <2>1, AfterShape DEF PassStage
    <2>2. CASE Become(j, d) /\ d.stage = "levels" /\ d.res = "none" /\ table[q.i].level # None
      <3>1. q.who \in People /\ q.kind # "none" /\ q.i \in DOMAIN table /\ q.room \in Rooms
        BY <1>1, PassIs DEF TypeInv, Shape, PassStage
      <3>2. Shape(d)
        BY <1>1, <1>2, <2>2, <3>1 DEF Entered, Alike, Shape, UserStage, PassStage
      <3>3. QED
        BY <2>2, <3>2
    <2>3. QED
      BY <1>2, <2>1, <2>2 DEF AfterIs
  <1>4. (jobs \in [Jobs -> Job] /\ \A k \in Jobs : Shape(jobs[k]))'
    BY <1>1, <1>3, OneJob DEF TypeInv
  <1>5. audit' \subseteq AuditEntry /\ faults' \in 0..MaxFaults
    BY <1>1, <1>2, EntryType, FaultType DEF TypeInv
  <1>6. QED
    BY <1>1, <1>4, <1>5 DEF TypeInv

LEMMA LevelsIs ==
    ASSUME TypeInv, NEW j \in Jobs, GetPowerLevels(j)
    PROVE  LET q == jobs[j] IN
           /\ q.stage = "levels" /\ q.res = "none" /\ q.out = "none" /\ Quiet /\ (NoFault \/ Fault)
           /\ \E d : /\ Entered(q, d) /\ d.lost = q.lost
                     /\ \/ Become(j, d) /\ d.stage = "power" /\ d.res = "none"
                        \/ Become(j, NextRoom(d))
  <1> DEFINE q == jobs[j]
             l == power[q.room]
             w == Warned(q)
             p == [q EXCEPT !.read = l, !.stage = "power"]
  <1>1. q.stage = "levels" /\ q.res = "none" /\ q.out = "none" /\ Quiet /\ (NoFault \/ Fault)
    BY DEF GetPowerLevels, At
  <1>2. q \in Job /\ q.who \in People /\ q.room \in Rooms
    BY <1>1 DEF TypeInv, Shape, UserStage, PassStage
  <1>3. l \in [People -> Levels]
    BY <1>2 DEF TypeInv
  <1>4. Become(j, p) \/ Become(j, NextRoom(w))
    BY DEF GetPowerLevels
  <1>5. /\ w \in Job /\ w.kind = q.kind /\ w.first = q.first /\ w.full = q.full
        /\ w.queue = q.queue /\ w.who = q.who /\ w.i = q.i /\ w.done = q.done /\ w.out = q.out
        /\ w.subj = q.subj /\ w.blind = q.blind /\ w.plan = q.plan /\ w.lost = q.lost
        /\ w.warned = q.warned \cup {q.who} /\ w.near = q.near /\ w.room = q.room
    BY <1>2, WarnedIs
  <1> HIDE DEF q, w, l
  <1>6. p \in Job
    BY <1>2, <1>3 DEF Job, Stage
  <1>7. /\ p.kind = q.kind /\ p.first = q.first /\ p.full = q.full
        /\ p.queue = q.queue /\ p.who = q.who /\ p.i = q.i /\ p.done = q.done /\ p.out = q.out
        /\ p.subj = q.subj /\ p.blind = q.blind /\ p.plan = q.plan /\ p.lost = q.lost
        /\ p.warned = q.warned /\ p.near = q.near /\ p.room = q.room
        /\ p.stage = "power" /\ p.res = q.res
    BY <1>2 DEF Job
  <1> HIDE DEF p
  <1>8. Entered(q, w) /\ Entered(q, p)
    BY <1>5, <1>6, <1>7 DEF Entered, Alike
  <1>9. QED
    BY <1>1, <1>4, <1>5, <1>7, <1>8 DEF q

LEMMA PowerIs ==
    ASSUME TypeInv, NEW j \in Jobs, PutPowerLevels(j)
    PROVE  LET q == jobs[j] IN
           /\ q.stage = "power" /\ q.res = "none" /\ q.out = "none" /\ UNCHANGED <<member, moved>>
           /\ \E a : \E d : /\ Calls(j, a) /\ Entered(q, d) /\ d.lost = q.lost
                            /\ Become(j, NextRoom(d))
                            /\ a # "ok" => q.who \in d.warned
                            /\ power' = IF Applied(a) THEN [power EXCEPT ![q.room] = WithLevel(q)]
                                                      ELSE power
  <1> DEFINE q == jobs[j]
             p == [q EXCEPT !.read = NoLevels]
             w == Warned(p)
             Put(a) == power' = IF Applied(a) THEN [power EXCEPT ![q.room] = WithLevel(q)]
                                              ELSE power
  <1>1. q.stage = "power" /\ q.res = "none" /\ q.out = "none" /\ UNCHANGED <<member, moved>>
    BY DEF PutPowerLevels, At
  <1>2. q \in Job /\ q.who \in People
    BY <1>1 DEF TypeInv, Shape, UserStage, PassStage
  <1>3. PICK a : Calls(j, a) /\ Become(j, NextRoom(IF a = "ok" THEN p ELSE w)) /\ Put(a)
    BY DEF PutPowerLevels
  <1>4. NoLevels \in [People -> Levels]
    BY NumbersAssumption DEF NoLevels
  <1> HIDE DEF q, Put, w
  <1>5. p \in Job
    BY <1>2, <1>4 DEF Job
  <1>6. /\ p.kind = q.kind /\ p.first = q.first /\ p.full = q.full
        /\ p.queue = q.queue /\ p.who = q.who /\ p.i = q.i /\ p.done = q.done /\ p.out = q.out
        /\ p.subj = q.subj /\ p.blind = q.blind /\ p.plan = q.plan /\ p.lost = q.lost
        /\ p.warned = q.warned /\ p.near = q.near /\ p.room = q.room
    BY <1>2 DEF Job
  <1> HIDE DEF p
  <1>7. /\ w \in Job /\ w.kind = p.kind /\ w.first = p.first /\ w.full = p.full
        /\ w.queue = p.queue /\ w.who = p.who /\ w.i = p.i /\ w.done = p.done /\ w.out = p.out
        /\ w.subj = p.subj /\ w.blind = p.blind /\ w.plan = p.plan /\ w.lost = p.lost
        /\ w.warned = p.warned \cup {p.who} /\ w.near = p.near /\ w.room = p.room
    BY <1>2, <1>5, <1>6, WarnedIs DEF w
  <1>8. Entered(q, p) /\ Entered(q, w) /\ q.who \in w.warned /\ p.lost = q.lost /\ w.lost = q.lost
    BY <1>5, <1>6, <1>7 DEF Entered, Alike
  <1>9. CASE a = "ok"
    <2>1. Become(j, NextRoom(p))
      BY <1>3, <1>9
    <2>2. QED
      BY <1>1, <1>3, <1>8, <1>9, <2>1 DEF q, Put
  <1>10. CASE a # "ok"
    <2>1. Become(j, NextRoom(w))
      BY <1>3, <1>10
    <2>2. QED
      BY <1>1, <1>3, <1>8, <1>10, <2>1 DEF q, Put
  <1>11. QED
    BY <1>9, <1>10

LEMMA LevelsType == ASSUME TypeInv, NEW j \in Jobs, GetPowerLevels(j) PROVE TypeInv'
  <1> DEFINE q == jobs[j]
  <1>1. q.stage = "levels" /\ q.out = "none" /\ Quiet /\ (NoFault \/ Fault)
    BY LevelsIs
  <1>2. PICK d : /\ Entered(q, d)
                 /\ \/ Become(j, d) /\ d.stage = "power" /\ d.res = "none"
                    \/ Become(j, NextRoom(d))
    BY LevelsIs
  <1>3. CASE Become(j, NextRoom(d))
    <2>1. Shape(NextRoom(d))
      BY <1>1, <1>2, AfterShape DEF PassStage
    <2>2. QED
      BY <1>1, <1>3, <2>1, QuietType
  <1>4. CASE Become(j, d) /\ d.stage = "power" /\ d.res = "none"
    <2>1. /\ q.who \in People /\ q.kind # "none" /\ q.i \in DOMAIN table /\ q.room \in Rooms
          /\ table[q.i].level # None
      BY <1>1, PassIs DEF TypeInv, Shape, PassStage
    <2>2. Shape(d)
      BY <1>1, <1>2, <1>4, <2>1 DEF Entered, Alike, Shape, UserStage, PassStage
    <2>3. QED
      BY <1>1, <1>4, <2>2, QuietType
  <1>5. QED
    BY <1>2, <1>3, <1>4

LEMMA PowerType == ASSUME TypeInv, NEW j \in Jobs, PutPowerLevels(j) PROVE TypeInv'
  <1> DEFINE q == jobs[j]
  <1>1. q.stage = "power" /\ q.out = "none" /\ UNCHANGED <<member, moved>>
    BY PowerIs
  <1>2. PICK a, d : /\ Calls(j, a) /\ Entered(q, d) /\ Become(j, NextRoom(d))
                    /\ \/ power' = [power EXCEPT ![q.room] = WithLevel(q)]
                       \/ power' = power
    BY PowerIs
  <1>3. /\ made' \subseteq Call /\ faults' \in 0..MaxFaults
        /\ UNCHANGED <<table, kc, holds, audit, changed, stirs>>
    BY <1>1, <1>2, CallsType
  <1>4. Shape(NextRoom(d))
    BY <1>1, <1>2, AfterShape DEF PassStage
  <1>5. (jobs \in [Jobs -> Job] /\ \A k \in Jobs : Shape(jobs[k]))'
    BY <1>2, <1>3, <1>4, OneJob DEF TypeInv
  <1>6. power' \in [Rooms -> [People -> Levels]]
    <2>1. table[q.i] \in Binding /\ q \in Job /\ q.room \in Rooms /\ table[q.i].level # None
      BY <1>1, PassIs DEF Shape, PassStage
    <2>2. table[q.i].level \in Levels /\ q.read \in [People -> Levels]
      BY <2>1 DEF Binding, Job
    <2>3. WithLevel(q) \in [People -> Levels]
      BY <2>2 DEF WithLevel
    <2>4. power \in [Rooms -> [People -> Levels]]
      BY DEF TypeInv
    <2> HIDE DEF q
    <2>5. QED
      BY <1>2, <2>1, <2>3, <2>4
  <1>7. QED
    BY <1>1, <1>3, <1>5, <1>6 DEF TypeInv

-----------------------------------------------------------------------------
LEMMA InitType == Init => TypeInv
  <1> SUFFICES ASSUME Init PROVE TypeInv
    OBVIOUS
  <1>1. NoLevels \in [People -> Levels]
    BY NumbersAssumption DEF NoLevels
  <1>2. power \in [Rooms -> [People -> Levels]]
    BY <1>1 DEF Init
  <1>3. Idle \in Job
    BY IdleShape DEF Shape
  <1>4. jobs \in [Jobs -> Job] /\ \A j \in Jobs : Shape(jobs[j])
    BY <1>3, IdleShape DEF Init
  <1>5. /\ moved \in [Jobs -> SUBSET (People \X Rooms)] /\ changed \in [Jobs -> SUBSET People]
        /\ audit \subseteq AuditEntry /\ made \subseteq Call
    BY DEF Init
  <1>6. kc \in [People -> {"enabled", "disabled", "gone"}]
    BY ChangesAssumption DEF Init
  <1>7. stirs \in 0..MaxStirs /\ faults \in 0..MaxFaults
    BY NumbersAssumption DEF Init
  <1>8. QED
    BY <1>2, <1>4, <1>5, <1>6, <1>7 DEF Init, TypeInv

LEMMA WorldType == ASSUME TypeInv, World PROVE TypeInv'
  <1>1. UNCHANGED <<table, power, jobs, audit, made, faults>>
    BY DEF World, Walk, Regroup, SetStatus
  <1>2. stirs' \in 0..MaxStirs
    BY NumbersAssumption DEF TypeInv, World, Walk, Regroup, SetStatus, Stir
  <1>3. (\A j \in Jobs : Shape(jobs[j]))'
    BY <1>1 DEF TypeInv, Shape
  <1>4. ASSUME NEW p \in People, NEW r \in Rooms, Walk(p, r) PROVE TypeInv'
    <2>1. member' \in [Rooms -> SUBSET People] /\ UNCHANGED <<kc, holds, changed>>
      BY <1>4 DEF TypeInv, Walk
    <2>2. moved' \in [Jobs -> SUBSET (People \X Rooms)]
      BY <1>4, MovesType DEF TypeInv, Walk
    <2>3. QED
      BY <1>1, <1>2, <1>3, <2>1, <2>2 DEF TypeInv
  <1>5. ASSUME NEW p \in People, NEW s \in Subjects, Regroup(p, s) PROVE TypeInv'
    <2>1. holds' \in [People -> SUBSET Subjects] /\ UNCHANGED <<kc, member, moved>>
      BY <1>5 DEF TypeInv, Regroup
    <2>2. changed' \in [Jobs -> SUBSET People]
      BY <1>5 DEF TypeInv, Regroup, Shifts
    <2>3. QED
      BY <1>1, <1>2, <1>3, <2>1, <2>2 DEF TypeInv
  <1>6. ASSUME NEW p \in People, NEW k \in {"enabled", "disabled", "gone"}, SetStatus(p, k) PROVE TypeInv'
    <2>1. kc' \in [People -> {"enabled", "disabled", "gone"}] /\ UNCHANGED <<holds, member, moved>>
      BY <1>6 DEF TypeInv, SetStatus
    <2>2. changed' \in [Jobs -> SUBSET People]
      BY <1>6 DEF TypeInv, SetStatus, Shifts
    <2>3. QED
      BY <1>1, <1>2, <1>3, <2>1, <2>2 DEF TypeInv
  <1>7. QED
    BY <1>4, <1>5, <1>6 DEF World

LEMMA TypeStep == TypeInv /\ [Next]_vars => TypeInv'
  <1> SUFFICES ASSUME TypeInv, [Next]_vars PROVE TypeInv'
    OBVIOUS
  <1>1. CASE World
    BY <1>1, WorldType
  <1>2. ASSUME NEW j \in Jobs, Start(j) \/ Cut(j) PROVE TypeInv'
    BY <1>2, StartType, CutType
  <1>3. ASSUME NEW j \in Jobs, Read(j) PROVE TypeInv'
    BY <1>3, CountType, GetUserType, GroupsType, RolesType, BindingsType, SearchType,
       ChildrenType, MembersType, LevelsType DEF Read
  <1>4. ASSUME NEW j \in Jobs, ForceJoinUser(j) \/ KickUser(j) \/ Audit(j) \/ PutPowerLevels(j)
        PROVE  TypeInv'
    BY <1>4, JoinType, KickType, AuditType, PowerType
  <1>5. CASE UNCHANGED vars
    BY <1>5 DEF vars, upstream, history, TypeInv, Shape
  <1>6. QED
    BY <1>1, <1>2, <1>3, <1>4, <1>5 DEF Next, Program, Step

LEMMA TypeInvOK == TypeInv => TypeOK
  BY DEF TypeInv, TypeOK, Shape, UserStage, PassStage

\* Every variable, and every field of a job, stays in range, and a job inside the
\* loop over the bindings has a user and a binding (reconcile_membership).
THEOREM TypeCorrect == Spec => []TypeOK
  <1>1. Init => TypeInv
    BY InitType
  <1>2. QED
    BY <1>1, TypeStep, TypeInvOK, PTL DEF Spec

-----------------------------------------------------------------------------
(***************************************************************************)
(* The audit trail.  A call still without an entry is the one its job was  *)
(* suspended after: who, where and for which binding stand in the record   *)
(* until the entry is written.                                             *)
(***************************************************************************)
Rest(q, p) ==
    /\ p \in Job /\ p.kind = q.kind /\ p.first = q.first /\ p.full = q.full /\ p.queue = q.queue
    /\ p.who = q.who /\ p.subj = q.subj /\ p.i = q.i /\ p.near = q.near /\ p.room = q.room
    /\ p.res = q.res /\ p.plan = q.plan /\ p.done = q.done /\ p.warned = q.warned
    /\ p.blind = q.blind /\ p.lost = q.lost

LEMMA AbortIs ==
    ASSUME NEW q \in Job, NEW o \in {"err", "cut"}
    PROVE  LET p == [q EXCEPT !.out = o] IN Rest(q, p) /\ p.stage = q.stage /\ p.out = o
  <1> DEFINE p == [q EXCEPT !.out = o]
  <1>1. p \in Job
    BY DEF Job
  <1>2. /\ p.kind = q.kind /\ p.first = q.first /\ p.full = q.full /\ p.queue = q.queue
        /\ p.who = q.who /\ p.subj = q.subj /\ p.i = q.i /\ p.near = q.near /\ p.room = q.room
        /\ p.res = q.res /\ p.plan = q.plan /\ p.done = q.done /\ p.warned = q.warned
        /\ p.blind = q.blind /\ p.lost = q.lost /\ p.stage = q.stage /\ p.out = o
    BY DEF Job
  <1> HIDE DEF p
  <1>3. Rest(q, p) /\ p.stage = q.stage /\ p.out = o
    BY <1>1, <1>2 DEF Rest
  <1>4. QED
    BY <1>3 DEF p

LEMMA GoesOnIs ==
    ASSUME NEW q \in Job, NEW s \in {"bindings", "page", "groups"}
    PROVE  LET p == [q EXCEPT !.stage = s] IN Rest(q, p) /\ p.stage = s /\ p.out = q.out
  <1> DEFINE p == [q EXCEPT !.stage = s]
  <1>1. p \in Job
    BY DEF Job, Stage
  <1>2. /\ p.kind = q.kind /\ p.first = q.first /\ p.full = q.full /\ p.queue = q.queue
        /\ p.who = q.who /\ p.subj = q.subj /\ p.i = q.i /\ p.near = q.near /\ p.room = q.room
        /\ p.res = q.res /\ p.plan = q.plan /\ p.done = q.done /\ p.warned = q.warned
        /\ p.blind = q.blind /\ p.lost = q.lost /\ p.stage = s /\ p.out = q.out
    BY DEF Job
  <1> HIDE DEF p
  <1>3. Rest(q, p) /\ p.stage = s /\ p.out = q.out
    BY <1>1, <1>2 DEF Rest
  <1>4. QED
    BY <1>3 DEF p

\* The reads before the listing of users and the first stages of a job.
LEMMA CountIs ==
    ASSUME TypeInv, NEW j \in Jobs, CountUsers(j)
    PROVE  LET q == jobs[j] IN
           /\ q.stage = "count" /\ q.res = "none" /\ q.out = "none" /\ q.kind = "all" /\ Quiet
           /\ \E p : /\ Become(j, p) /\ Rest(q, p)
                     /\ \/ p.stage = q.stage /\ p.out = "err"
                        \/ p.stage = "bindings" /\ p.out = "none"
  <1> DEFINE q == jobs[j]
  <1>1. q \in Job /\ q.stage = "count" /\ q.res = "none" /\ q.out = "none" /\ q.kind = "all" /\ Quiet
    BY DEF TypeInv, CountUsers, At, Shape
  <1>2. \/ Become(j, [q EXCEPT !.out = "err"]) \/ Become(j, [q EXCEPT !.stage = "bindings"])
    BY DEF CountUsers, Abort
  <1> HIDE DEF q
  <1> DEFINE a == [q EXCEPT !.out = "err"]
             b == [q EXCEPT !.stage = "bindings"]
  <1>3. Rest(q, a) /\ a.stage = q.stage /\ a.out = "err"
    BY <1>1, AbortIs
  <1>4. Rest(q, b) /\ b.stage = "bindings" /\ b.out = "none"
    BY <1>1, GoesOnIs
  <1>5. Become(j, a) \/ Become(j, b)
    BY <1>2
  <1> HIDE DEF a, b
  <1>6. QED
    BY <1>1, <1>3, <1>4, <1>5 DEF q

LEMMA GetUserIs ==
    ASSUME TypeInv, NEW j \in Jobs, GetUser(j)
    PROVE  LET q == jobs[j] IN
           /\ q.stage = "get_user" /\ q.res = "none" /\ q.out = "none" /\ q.kind \notin {"all", "none"}
           /\ Quiet
           /\ \E p : /\ Become(j, p) /\ Rest(q, p)
                     /\ \/ p.stage = q.stage /\ p.out = "err"
                        \/ p.stage = "groups" /\ p.out = "none"
  <1> DEFINE q == jobs[j]
  <1>1. /\ q \in Job /\ q.stage = "get_user" /\ q.res = "none" /\ q.out = "none"
        /\ q.kind \notin {"all", "none"} /\ Quiet
    BY DEF TypeInv, GetUser, At, Shape
  <1>2. \/ Become(j, [q EXCEPT !.out = "err"]) \/ Become(j, [q EXCEPT !.stage = "groups"])
    BY DEF GetUser, Abort
  <1> HIDE DEF q
  <1> DEFINE a == [q EXCEPT !.out = "err"]
             b == [q EXCEPT !.stage = "groups"]
  <1>3. Rest(q, a) /\ a.stage = q.stage /\ a.out = "err"
    BY <1>1, AbortIs
  <1>4. Rest(q, b) /\ b.stage = "groups" /\ b.out = "none"
    BY <1>1, GoesOnIs
  <1>5. Become(j, a) \/ Become(j, b)
    BY <1>2
  <1> HIDE DEF a, b
  <1>6. QED
    BY <1>1, <1>3, <1>4, <1>5 DEF q

LEMMA BindingsIs ==
    ASSUME TypeInv, NEW j \in Jobs, ListBindings(j)
    PROVE  LET q == jobs[j] IN
           /\ q.stage = "bindings" /\ q.res = "none" /\ q.out = "none" /\ q.kind # "none" /\ q.i = 0
           /\ Quiet
           /\ \/ \E p : Become(j, p) /\ Rest(q, p) /\ p.stage = q.stage /\ p.out = "err"
              \/ q.kind = "all" /\ \E p : /\ Become(j, p) /\ Rest(q, p)
                                          /\ p.stage = "page" /\ p.out = "none"
              \/ q.kind # "all" /\ q.who \in People /\ Become(j, NextBinding(q))
  <1> DEFINE q == jobs[j]
  <1>1. /\ q \in Job /\ q.stage = "bindings" /\ q.res = "none" /\ q.out = "none"
        /\ q.kind # "none" /\ q.i = 0 /\ (q.kind # "all" => q.who \in People) /\ Quiet
    BY DEF TypeInv, ListBindings, At, Shape, PassStage
  <1>2. \/ Become(j, [q EXCEPT !.out = "err"])
        \/ q.kind = "all" /\ Become(j, [q EXCEPT !.stage = "page"])
        \/ q.kind # "all" /\ Become(j, NextBinding(q))
    BY DEF ListBindings, Abort
  <1> HIDE DEF q
  <1>3. CASE Become(j, [q EXCEPT !.out = "err"])
    BY <1>1, <1>3, AbortIs DEF q
  <1>4. CASE q.kind = "all" /\ Become(j, [q EXCEPT !.stage = "page"])
    <2> DEFINE b == [q EXCEPT !.stage = "page"]
    <2>1. Rest(q, b) /\ b.stage = "page" /\ b.out = "none"
      BY <1>1, GoesOnIs
    <2>2. Become(j, b)
      BY <1>4
    <2> HIDE DEF b
    <2>3. QED
      BY <1>1, <1>4, <2>1, <2>2 DEF q
  <1>5. QED
    BY <1>1, <1>2, <1>3, <1>4 DEF q

\* A read leaves the call the job last made, if it has an entry or none is owed.
Keeps(j, q) == \E p : Become(j, p) /\ p.kind = q.kind /\ p.lost = q.lost

LEMMA RestKeeps ==
    ASSUME NEW j, NEW q, NEW p, Become(j, p), Rest(q, p)
    PROVE  Keeps(j, q)
  BY DEF Keeps, Rest

LEMMA NextRoomKeeps ==
    ASSUME table \in Tables, NEW j, NEW q, NEW d \in Job, d.who \in People,
           d.kind = q.kind, d.lost = q.lost, Become(j, NextRoom(d))
    PROVE  Keeps(j, q)
  BY NextRoomIs DEF Keeps, Carried

LEMMA ReadKeeps ==
    ASSUME TypeInv, NEW j \in Jobs, Read(j)
    PROVE  Quiet /\ jobs[j].res = "none" /\ jobs[j].kind # "none" /\ Keeps(j, jobs[j])
  <1> DEFINE q == jobs[j]
  <1>0. q \in Job /\ table \in Tables
    BY DEF TypeInv
  <1>00. ASSUME Abort(j, "err") PROVE Keeps(j, q)
    BY <1>0, <1>00, AbortIs, RestKeeps DEF Abort
  <1>1. CASE CountUsers(j)
    <2>1. PICK p : Become(j, p) /\ Rest(q, p)
      BY <1>1, CountIs
    <2>2. QED
      BY <1>1, <2>1, CountIs, RestKeeps
  <1>2. CASE GetUser(j)
    <2>1. PICK p : Become(j, p) /\ Rest(q, p)
      BY <1>2, GetUserIs
    <2>2. QED
      BY <1>2, <2>1, GetUserIs, RestKeeps
  <1>3. CASE GetUserGroups(j)
    <2>1. q.res = "none" /\ q.kind # "none" /\ q.who \in People /\ Quiet
      BY <1>3, GroupsIs
    <2>2. CASE q.kind = "all" /\ Become(j, NextUser(Warned(q)))
      <3>1. Warned(q) \in Job /\ Warned(q).kind = "all" /\ Warned(q).lost = q.lost
        BY <1>0, <2>1, <2>2, WarnedIs
      <3>2. NextUser(Warned(q)).kind = q.kind /\ NextUser(Warned(q)).lost = q.lost
        BY <2>2, <3>1, NextUserIs DEF Carried
      <3>3. QED
        BY <2>1, <2>2, <3>2 DEF Keeps
    <2>3. ASSUME NEW p, Become(j, p), Carried(q, p) PROVE Keeps(j, q)
      BY <2>3 DEF Keeps, Carried
    <2>4. QED
      BY <1>3, <1>00, <2>1, <2>2, <2>3, GroupsIs
  <1>4. CASE GetUserRoles(j)
    <2>1. q.res = "none" /\ q.kind # "none" /\ q.who \in People /\ Quiet
      BY <1>4, RolesIs
    <2>2. ASSUME NEW d, RolesRead(q, d, holds),
                 Become(j, IF q.kind = "all" THEN NextBinding(d) ELSE [d EXCEPT !.stage = "bindings"])
          PROVE  Keeps(j, q)
      <3>1. d \in Job /\ d.who \in People /\ d.kind = q.kind /\ d.lost = q.lost
        BY <2>1, <2>2 DEF RolesRead, Alike
      <3>2. NextBinding(d).kind = q.kind /\ NextBinding(d).lost = q.lost
        BY <1>0, <3>1, NextBindingIs DEF Carried
      <3>3. [d EXCEPT !.stage = "bindings"].kind = q.kind /\ [d EXCEPT !.stage = "bindings"].lost = q.lost
        BY <3>1, GoesOnIs DEF Rest
      <3>4. QED
        BY <2>2, <3>2, <3>3 DEF Keeps
    <2>3. QED
      BY <1>4, <1>00, <2>1, <2>2, RolesIs
  <1>5. CASE ListBindings(j)
    <2>1. q.res = "none" /\ q.kind # "none" /\ Quiet
      BY <1>5, BindingsIs
    <2>2. CASE q.who \in People /\ Become(j, NextBinding(q))
      <3> DEFINE p == NextBinding(q)
      <3>1. Carried(q, p) /\ Become(j, p)
        BY <1>0, <2>2, NextBindingIs
      <3> HIDE DEF p
      <3>2. QED
        BY <2>1, <3>1 DEF Keeps, Carried
    <2>3. QED
      BY <1>5, <2>1, <2>2, BindingsIs, RestKeeps
  <1>6. CASE SearchUsers(j)
    <2>1. q.res = "none" /\ q.kind = "all" /\ Quiet
      BY <1>6, SearchIs
    <2>2. ASSUME NEW d, PageRead(q, d, kc), d.lost = q.lost, Become(j, NextUser(d)) PROVE Keeps(j, q)
      BY <2>1, <2>2, NextUserIs DEF Keeps, Carried, PageRead
    <2>3. QED
      BY <1>6, <1>00, <2>1, <2>2, SearchIs DEF PageRead
  <1>7. CASE GetSpaceChildren(j)
    <2>1. /\ q.res = "none" /\ q.kind # "none" /\ q.who \in People /\ Quiet
      BY <1>7, ChildrenIs, PassIs DEF PassStage
    <2>2. PICK d : Expanded(q, d) /\ Become(j, NextRoom(d))
      BY <1>7, ChildrenIs
    <2>3. QED
      BY <1>0, <2>1, <2>2, NextRoomKeeps DEF Expanded, Alike
  <1>8. CASE GetJoinedRoomMembers(j)
    <2>1. /\ q.res = "none" /\ q.kind # "none" /\ q.who \in People /\ Quiet
      BY <1>8, MembersIs, PassIs DEF PassStage
    <2>2. PICK t \in q.near : MembersRead(j, q, t, q.who \in member[t])
      BY <1>8, MembersIs
    <2>3. ASSUME NEW d, Met(q, d, t), Become(j, NextRoom(d)) \/ Become(j, d) PROVE Keeps(j, q)
      <3>1. d \in Job /\ d.who \in People /\ d.kind = q.kind /\ d.lost = q.lost
        BY <2>1, <2>3 DEF Met, Alike
      <3>2. QED
        BY <1>0, <2>3, <3>1, NextRoomKeeps DEF Keeps
    <2>4. QED
      BY <2>1, <2>2, <2>3 DEF MembersRead
  <1>9. CASE GetPowerLevels(j)
    <2>1. /\ q.res = "none" /\ q.kind # "none" /\ q.who \in People /\ Quiet
      BY <1>9, LevelsIs, PassIs DEF PassStage
    <2>2. PICK d : /\ Entered(q, d) /\ d.lost = q.lost
                   /\ Become(j, d) \/ Become(j, NextRoom(d))
      BY <1>9, LevelsIs
    <2>3. d \in Job /\ d.who \in People /\ d.kind = q.kind
      BY <2>1, <2>2 DEF Entered, Alike
    <2>4. QED
      BY <1>0, <2>1, <2>2, <2>3, NextRoomKeeps DEF Keeps
  <1>10. QED
    BY <1>1, <1>2, <1>3, <1>4, <1>5, <1>6, <1>7, <1>8, <1>9 DEF Read

\* What is owed for the call c when q is the record of its job and the table of
\* audit entries is A.
Trail(c, q) ==
    \/ c.act = "power" \/ Logged(c) \/ q.lost
    \/ q.res # "none" /\ q.stage = c.act /\ q.i = c.i /\ q.who = c.who /\ q.room = c.room

TrailInv == \A c \in made : jobs[c.by].kind # "none" /\ Trail(c, jobs[c.by])

\* Nobody's audit entry goes, so what is owed changes only for the job at work.
LEMMA TrailStep ==
    ASSUME TypeInv, TrailInv, NEW j \in Jobs, NEW q, Become(j, q), q.kind # "none",
           UNCHANGED table, audit \subseteq audit',
           \A c \in made' : c \in made \/ c.by = j,
           \A c \in made' : c.by = j => Trail(c, q)'
    PROVE  TrailInv'
  <1> SUFFICES ASSUME NEW c \in made' PROVE jobs'[c.by].kind # "none" /\ Trail(c, jobs[c.by])'
    BY DEF TrailInv
  <1>1. jobs'[j] = q /\ \A k \in Jobs \ {j} : jobs'[k] = jobs[k]
    BY DEF TypeInv, Become
  <1>2. CASE c.by = j
    <2>1. Trail(c, q)'
      BY <1>2
    <2>2. QED
      BY <1>1, <1>2, <2>1 DEF Trail
  <1>3. CASE c.by # j
    <2>1. c \in made /\ c.by \in Jobs \ {j}
      BY <1>3 DEF TypeInv, Call
    <2>2. jobs[c.by].kind # "none" /\ Trail(c, jobs[c.by]) /\ jobs'[c.by] = jobs[c.by]
      BY <1>1, <2>1 DEF TrailInv
    <2>3. Logged(c) => Logged(c)'
      BY DEF Logged
    <2>4. QED
      BY <2>2, <2>3 DEF Trail
  <1>4. QED
    BY <1>2, <1>3

\* Steps that make no call and write no entry.
LEMMA TrailSame ==
    ASSUME TypeInv, TrailInv, NEW j \in Jobs, NEW q, Become(j, q), q.kind # "none",
           UNCHANGED <<table, audit, made>>, q.lost = jobs[j].lost,
           \/ jobs[j].res = "none"
           \/ /\ q.res = jobs[j].res /\ q.stage = jobs[j].stage /\ q.i = jobs[j].i
              /\ q.who = jobs[j].who /\ q.room = jobs[j].room
    PROVE  TrailInv'
  <1>1. ASSUME NEW c \in made, c.by = j PROVE Trail(c, q)'
    <2>1. Trail(c, jobs[j])
      BY <1>1 DEF TrailInv
    <2>2. Logged(c) => Logged(c)'
      BY DEF Logged
    <2>3. QED
      BY <2>1, <2>2 DEF Trail
  <1>2. QED
    BY <1>1, TrailStep

LEMMA TrailCall ==
    ASSUME TypeInv, TrailInv, NEW j \in Jobs, NEW a, NEW p, Calls(j, a), Become(j, p),
           jobs[j].stage \in {"join", "kick", "power"}, jobs[j].res = "none",
           p.lost = jobs[j].lost, p.kind = jobs[j].kind, UNCHANGED table,
           jobs[j].stage = "power" \/ Called(jobs[j], p, a)
    PROVE  TrailInv'
  <1> DEFINE q == jobs[j]
  <1>0. PICK n : n = ThisCall(j, q)
    OBVIOUS
  <1>1. made' = made \cup {n} /\ audit' = audit
    BY <1>0 DEF Calls, ThisCall
  <1>2. q.kind # "none"
    BY DEF TypeInv, Shape
  <1>3. ASSUME NEW c \in made, c.by = j PROVE Trail(c, p)'
    <2>1. Trail(c, q)
      BY <1>3 DEF TrailInv
    <2>2. Logged(c) => Logged(c)'
      BY <1>1 DEF Logged
    <2>3. QED
      BY <2>1, <2>2 DEF Trail
  <1>4. Trail(n, p)'
    <2>1. /\ n.act = q.stage /\ n.i = q.i /\ n.who = q.who /\ n.room = q.room
      BY <1>0 DEF ThisCall
    <2>2. CASE q.stage = "power"
      BY <2>1, <2>2 DEF Trail
    <2>3. CASE Called(q, p, a)
      <3>1. p.res # "none" /\ p.stage = q.stage /\ p.i = q.i /\ p.who = q.who /\ p.room = q.room
        BY <2>3 DEF Called, Alike, Answer
      <3>2. QED
        BY <2>1, <3>1 DEF Trail
    <2>4. QED
      BY <2>2, <2>3
  <1>5. n.by = j
    BY <1>0 DEF ThisCall
  <1>6. QED
    BY <1>1, <1>2, <1>3, <1>4, <1>5, TrailStep

LEMMA TrailAudit == ASSUME TypeInv, TrailInv, NEW j \in Jobs, Audit(j) PROVE TrailInv'
  <1> DEFINE q == jobs[j]
  <1>1. /\ q.stage \in {"join", "kick"} /\ q.res # "none" /\ q.out = "none" /\ q \in Job
        /\ q.kind # "none" /\ q.who \in People /\ table \in Tables
        /\ UNCHANGED <<table, made>>
    BY AuditIs, PassIs DEF PassStage
  <1>2. PICK d : /\ Entered(q, d) /\ AfterIs(j, q, d)
                 /\ \/ audit' = audit \cup {Entry(j, q)} /\ d.lost = q.lost
                    \/ audit' = audit /\ d.lost
    BY AuditIs
  <1>3. d \in Job /\ d.who \in People /\ d.kind = q.kind
    BY <1>1, <1>2 DEF Entered, Alike
  <1>4. PICK p : Become(j, p) /\ p.lost = d.lost /\ p.kind = q.kind
    <2>1. CASE Become(j, d)
      BY <1>3, <2>1
    <2>2. CASE Become(j, NextRoom(d))
      BY <1>1, <1>3, <2>2, NextRoomIs DEF Carried
    <2>3. QED
      BY <1>2, <2>1, <2>2 DEF AfterIs
  <1>5. ASSUME NEW c \in made, c.by = j PROVE Trail(c, p)'
    <2>1. Trail(c, q)
      BY <1>5 DEF TrailInv
    <2>2. Logged(c) => Logged(c)'
      BY <1>1, <1>2 DEF Logged
    <2>3. CASE q.stage = c.act /\ q.i = c.i /\ q.who = c.who /\ q.room = c.room
      <3>1. CASE d.lost
        BY <1>4, <3>1 DEF Trail
      <3>2. CASE audit' = audit \cup {Entry(j, q)}
        <4> DEFINE e == Entry(j, q)
        <4>1. /\ e.by = c.by /\ e.act = c.act /\ e.who = c.who /\ e.room = c.room
              /\ e.subject = table'[c.i].subject
          BY <1>1, <1>5, <2>3 DEF Entry
        <4>2. e \in audit'
          BY <3>2
        <4> HIDE DEF e
        <4>3. Logged(c)'
          BY <4>1, <4>2 DEF Logged
        <4>4. QED
          BY <4>3 DEF Trail
      <3>3. QED
        BY <1>2, <3>1, <3>2
    <2>4. CASE c.act = "power" \/ Logged(c)
      BY <2>2, <2>4 DEF Trail
    <2>5. CASE q.lost
      BY <1>2, <1>4, <2>5 DEF Trail
    <2>6. QED
      BY <2>1, <2>3, <2>4, <2>5 DEF Trail
  <1>6. audit \subseteq audit'
    BY <1>2
  <1>7. QED
    BY <1>1, <1>4, <1>5, <1>6, TrailStep

LEMMA TrailNext == ASSUME TypeInv, TrailInv, [Next]_vars PROVE TrailInv'
  <1>1. CASE World
    BY <1>1 DEF World, Walk, Regroup, SetStatus, TrailInv, Trail, Logged
  <1>2. ASSUME NEW j \in Jobs, Start(j) PROVE TrailInv'
    <2>1. UNCHANGED <<table, audit, made>> /\ jobs[j].kind = "none"
      BY <1>2 DEF Start, history
    <2>2. PICK q : Become(j, q) /\ q.kind # "none"
      BY <1>2, StartIs
    <2>3. \A c \in made : c.by # j
      BY <2>1 DEF TrailInv
    <2>4. QED
      BY <2>1, <2>2, <2>3, TrailStep
  <1>3. ASSUME NEW j \in Jobs, Cut(j) PROVE TrailInv'
    <2>1. UNCHANGED <<table, audit, made>> /\ jobs[j].kind # "none" /\ jobs[j] \in Job
      BY <1>3 DEF Cut, history, TypeInv
    <2> DEFINE p == [jobs[j] EXCEPT !.out = "cut"]
    <2>2. Rest(jobs[j], p) /\ p.stage = jobs[j].stage
      BY <2>1, AbortIs
    <2>3. Become(j, p)
      BY <1>3 DEF Cut, Abort
    <2> HIDE DEF p
    <2>4. QED
      BY <2>1, <2>2, <2>3, TrailSame DEF Rest
  <1>4. ASSUME NEW j \in Jobs, Read(j) PROVE TrailInv'
    <2>1. Quiet /\ jobs[j].res = "none" /\ jobs[j].kind # "none" /\ Keeps(j, jobs[j])
      BY <1>4, ReadKeeps
    <2>2. PICK p : Become(j, p) /\ p.kind = jobs[j].kind /\ p.lost = jobs[j].lost
      BY <2>1 DEF Keeps
    <2>3. UNCHANGED <<table, audit, made>>
      BY <2>1 DEF Quiet, history
    <2>4. QED
      BY <2>1, <2>2, <2>3, TrailSame
  <1>5. ASSUME NEW j \in Jobs, ForceJoinUser(j) PROVE TrailInv'
    <2>1. PICK a, p : Calls(j, a) /\ Become(j, p) /\ Called(jobs[j], p, a)
      BY <1>5, JoinIs
    <2>2. jobs[j].stage = "join" /\ jobs[j].res = "none"
      BY <1>5, JoinIs
    <2>3. QED
      BY <2>1, <2>2, TrailCall DEF Called, Alike, Calls
  <1>6. ASSUME NEW j \in Jobs, KickUser(j) PROVE TrailInv'
    <2>1. PICK a, p : Calls(j, a) /\ Become(j, p) /\ Called(jobs[j], p, a)
      BY <1>6, KickIs
    <2>2. jobs[j].stage = "kick" /\ jobs[j].res = "none"
      BY <1>6, KickIs
    <2>3. QED
      BY <2>1, <2>2, TrailCall DEF Called, Alike, Calls
  <1>7. ASSUME NEW j \in Jobs, PutPowerLevels(j) PROVE TrailInv'
    <2>1. PICK a, d : Calls(j, a) /\ Entered(jobs[j], d) /\ d.lost = jobs[j].lost /\ Become(j, NextRoom(d))
      BY <1>7, PowerIs
    <2>2. jobs[j].stage = "power" /\ jobs[j].res = "none"
      BY <1>7, PowerIs
    <2>3. d \in Job /\ d.who \in People /\ d.kind = jobs[j].kind /\ table \in Tables
      BY <2>1, <2>2, PassIs DEF Entered, Alike, PassStage
    <2>4. NextRoom(d).kind = jobs[j].kind /\ NextRoom(d).lost = jobs[j].lost
      BY <2>1, <2>3, NextRoomIs DEF Carried
    <2>5. QED
      BY <2>1, <2>2, <2>4, TrailCall DEF Calls
  <1>8. ASSUME NEW j \in Jobs, Audit(j) PROVE TrailInv'
    BY <1>8, TrailAudit
  <1>9. CASE UNCHANGED vars
    BY <1>9 DEF vars, history, TrailInv, Trail, Logged
  <1>10. QED
    BY <1>1, <1>2, <1>3, <1>4, <1>5, <1>6, <1>7, <1>8, <1>9 DEF Next, Program, Step

\* Every join and kick of every job has its audit entry, except the one the job
\* was suspended after, unless the audit store refused an insert (the audit
\* insert that follows force_join_user and kick_user).
THEOREM JoinsAndKicksAreAudited == Spec => []AuditTrail
  <1>1. Init => TypeInv /\ TrailInv
    BY InitType DEF Init, TrailInv
  <1>2. TypeInv /\ TrailInv /\ [Next]_vars => (TypeInv /\ TrailInv)'
    BY TypeStep, TrailNext
  <1>3. TrailInv => AuditTrail
    BY DEF TrailInv, Trail, AuditTrail, Trailed
  <1>4. QED
    BY <1>1, <1>2, <1>3, PTL DEF Spec

-----------------------------------------------------------------------------
(***************************************************************************)
(* Calls are due.  A job is in a room only for a binding that sends it     *)
(* there (Turn), and what it read of the user is what the user holds for   *)
(* as long as nobody changes that (Knows).                                 *)
(***************************************************************************)
Turn(q) ==
    /\ q.near # {} => q.stage \in PassStage /\ Visits(q) /\ q.near \subseteq Targets(table[q.i])
    /\ q.stage \in {"join", "kick", "levels", "power"} => q.room \in Targets(table[q.i]) \ q.near
    /\ q.stage \in {"join", "levels", "power"} => Matches(q) /\ q.kind # "preview"
    /\ q.stage = "kick" => ~Matches(q) /\ table[q.i].remove /\ q.kind # "preview"
    /\ q.stage = "expand" => q.near = {}
    /\ q.stage = "members" => q.near # {}

\* What the record holds of the user is H, unless the user is one of ch or blind.
Sure(q, ch, H) ==
    /\ q.blind \subseteq q.warned
    /\ q.who \notin ch \cup q.blind => q.subj = H[q.who]

Knows(q, ch, H) ==
    /\ q.blind \subseteq q.warned
    /\ q.out = "none" /\ q.stage = "roles" /\ q.who \notin ch => q.subj = H[q.who] \cap Groups
    /\ q.stage \in PassStage \/ (q.stage = "bindings" /\ q.kind # "all") => Sure(q, ch, H)

DueInv == \A j \in Jobs : Turn(jobs[j]) /\ Knows(jobs[j], changed[j], holds)

LEMMA OneDue ==
    ASSUME TypeInv, DueInv, NEW j \in Jobs, NEW p, Become(j, p), UNCHANGED <<table, holds, changed>>,
           Turn(p), Knows(p, changed[j], holds)
    PROVE  DueInv'
  <1>1. jobs'[j] = p /\ \A k \in Jobs \ {j} : jobs'[k] = jobs[k]
    BY DEF TypeInv, Become
  <1>2. Turn(jobs[j])'
    BY <1>1 DEF Turn, Visits, Matches
  <1>3. Knows(jobs[j], changed[j], holds)'
    BY <1>1 DEF Knows, Sure
  <1>4. ASSUME NEW k \in Jobs \ {j} PROVE (Turn(jobs[k]) /\ Knows(jobs[k], changed[k], holds))'
    <2>1. Turn(jobs[k]) /\ Knows(jobs[k], changed[k], holds) /\ jobs'[k] = jobs[k]
      BY <1>1 DEF DueInv
    <2>2. Turn(jobs[k])'
      BY <2>1 DEF Turn, Visits, Matches
    <2>3. Knows(jobs[k], changed[k], holds)'
      BY <2>1 DEF Knows, Sure
    <2>4. QED
      BY <2>2, <2>3
  <1>5. QED
    BY <1>2, <1>3, <1>4 DEF DueInv

LEMMA DueRest ==
    ASSUME NEW q, NEW p, NEW ch, NEW H, Rest(q, p), p.stage = q.stage, p.out # "none",
           Turn(q), Knows(q, ch, H)
    PROVE  Turn(p) /\ Knows(p, ch, H)
  BY DEF Rest, Turn, Knows, Sure, Visits, Matches

\* A job with no rooms at hand and not at work on a binding.
LEMMA DueOutside ==
    ASSUME NEW p, NEW ch, NEW H, p.near = {}, p.blind \subseteq p.warned,
           p.stage \notin PassStage \cup {"roles"}, p.stage = "bindings" => p.kind = "all"
    PROVE  Turn(p) /\ Knows(p, ch, H)
  BY DEF Turn, Knows, PassStage

LEMMA DueOnBinding ==
    ASSUME NEW q \in Job, NEW p, NEW ch, NEW H, Carried(q, p), OnBinding(q, p), q.near = {}, Sure(q, ch, H)
    PROVE  Turn(p) /\ Knows(p, ch, H)
  <1>1. p.near = {} /\ p.blind \subseteq p.warned /\ p.blind = q.blind
    BY DEF Carried, Sure
  <1>2. CASE p.stage = "expand" /\ Same(q, p)
    <2>1. Turn(p)
      BY <1>1, <1>2 DEF Turn
    <2>2. Knows(p, ch, H)
      BY <1>1, <1>2 DEF Knows, Sure, Same
    <2>3. QED
      BY <2>1, <2>2
  <1>3. CASE p.stage \in {"groups", "page", "end"}
    BY <1>1, <1>3, DueOutside DEF PassStage
  <1>4. QED
    BY <1>2, <1>3 DEF OnBinding, Handover

LEMMA DueOnRoom ==
    ASSUME NEW q \in Job, NEW p, NEW ch, NEW H, Carried(q, p), OnRoom(q, p),
           q.near # {} => Visits(q) /\ q.near \subseteq Targets(table[q.i]), Sure(q, ch, H)
    PROVE  Turn(p) /\ Knows(p, ch, H)
  <1>1. CASE q.near # {} /\ p.i = q.i /\ p.stage = "members" /\ Same(q, p)
    <2>1. p.near = q.near /\ p.kind = q.kind /\ p.subj = q.subj /\ p.i = q.i
      BY <1>1 DEF Carried, Same
    <2>2. Visits(p) = Visits(q)
      BY <2>1 DEF Visits, Matches
    <2>3. Turn(p)
      BY <1>1, <2>1, <2>2 DEF Turn, PassStage
    <2>4. Knows(p, ch, H)
      BY <1>1 DEF Knows, Sure, Same, Carried
    <2>5. QED
      BY <2>3, <2>4
  <1>2. CASE q.near = {} /\ OnBinding(q, p)
    BY <1>2, DueOnBinding
  <1>3. QED
    BY <1>1, <1>2 DEF OnRoom

LEMMA DueNextRoom ==
    ASSUME table \in Tables, NEW j, NEW d \in Job, d.who \in People, NEW ch, NEW H,
           d.near # {} => Visits(d) /\ d.near \subseteq Targets(table[d.i]), Sure(d, ch, H),
           Become(j, NextRoom(d))
    PROVE  \E p : Become(j, p) /\ Turn(p) /\ Knows(p, ch, H)
  <1> DEFINE p == NextRoom(d)
  <1>1. Carried(d, p) /\ OnRoom(d, p)
    BY NextRoomIs
  <1>2. Become(j, p)
    OBVIOUS
  <1> HIDE DEF p
  <1>3. QED
    BY <1>1, <1>2, DueOnRoom

LEMMA DueNextBinding ==
    ASSUME table \in Tables, NEW j, NEW d \in Job, d.who \in People, NEW ch, NEW H,
           d.near = {}, Sure(d, ch, H), Become(j, NextBinding(d))
    PROVE  \E p : Become(j, p) /\ Turn(p) /\ Knows(p, ch, H)
  <1> DEFINE p == NextBinding(d)
  <1>1. Carried(d, p) /\ OnBinding(d, p)
    BY NextBindingIs
  <1>2. Become(j, p)
    OBVIOUS
  <1> HIDE DEF p
  <1>3. QED
    BY <1>1, <1>2, DueOnBinding

LEMMA DueNextUser ==
    ASSUME NEW j, NEW d \in Job, d.kind = "all", NEW ch, NEW H,
           d.near = {}, d.blind \subseteq d.warned, Become(j, NextUser(d))
    PROVE  \E p : Become(j, p) /\ Turn(p) /\ Knows(p, ch, H)
  <1> DEFINE p == NextUser(d)
  <1>1. Carried(d, p) /\ Handover(d, p)
    BY NextUserIs
  <1>2. Become(j, p)
    OBVIOUS
  <1> HIDE DEF p
  <1>3. p.near = {} /\ p.blind \subseteq p.warned /\ p.stage \in {"groups", "page", "end"}
    BY <1>1 DEF Carried, Handover
  <1>4. QED
    BY <1>2, <1>3, DueOutside DEF PassStage

Due(j) == \E p : Become(j, p) /\ Turn(p) /\ Knows(p, changed[j], holds)

LEMMA DueAbort == ASSUME TypeInv, DueInv, NEW j \in Jobs, NEW o \in {"err", "cut"}, Abort(j, o) PROVE Due(j)
  <1> DEFINE q == jobs[j]
             p == [q EXCEPT !.out = o]
  <1>1. q \in Job /\ Turn(q) /\ Knows(q, changed[j], holds)
    BY DEF TypeInv, DueInv
  <1>2. Become(j, p)
    BY DEF Abort
  <1>3. Rest(q, p) /\ p.stage = q.stage /\ p.out = o
    BY <1>1, AbortIs
  <1> HIDE DEF p, q
  <1>4. QED
    BY <1>1, <1>2, <1>3, DueRest DEF Due

LEMMA DueOutsideOf ==
    ASSUME TypeInv, DueInv, NEW j \in Jobs, jobs[j].stage \notin PassStage
    PROVE  jobs[j].near = {} /\ jobs[j].blind \subseteq jobs[j].warned
  BY DEF DueInv, Turn, Knows

LEMMA DueFirst ==
    ASSUME TypeInv, DueInv, NEW j \in Jobs, CountUsers(j) \/ GetUser(j)
    PROVE  Due(j)
  <1> DEFINE q == jobs[j]
  <1>1. PICK p : /\ Become(j, p) /\ Rest(q, p)
                 /\ \/ p.stage = q.stage /\ p.out = "err"
                    \/ (p.stage = "bindings" /\ q.kind = "all") \/ p.stage = "groups"
    BY CountIs, GetUserIs
  <1>2. q.stage \in {"count", "get_user"}
    BY CountIs, GetUserIs
  <1>3. q.near = {} /\ q.blind \subseteq q.warned
    BY <1>2, DueOutsideOf DEF PassStage
  <1>4. /\ p.near = {} /\ p.blind \subseteq p.warned /\ p.stage \notin PassStage \cup {"roles"}
        /\ p.stage = "bindings" => p.kind = "all"
    BY <1>1, <1>2, <1>3 DEF Rest, PassStage
  <1>5. QED
    BY <1>1, <1>4, DueOutside DEF Due

LEMMA DueGroups == ASSUME TypeInv, DueInv, NEW j \in Jobs, GetUserGroups(j) PROVE Due(j)
  <1> DEFINE q == jobs[j]
  <1>1. q \in Job /\ q.stage = "groups" /\ q.who \in People
    BY GroupsIs DEF TypeInv
  <1>2. q.near = {} /\ q.blind \subseteq q.warned
    BY <1>1, DueOutsideOf DEF PassStage
  <1>3. CASE q.kind = "all" /\ Become(j, NextUser(Warned(q)))
    <2> DEFINE d == Warned(q)
    <2>1. d \in Job /\ d.kind = "all" /\ d.near = {} /\ d.blind \subseteq d.warned
      BY <1>1, <1>2, <1>3, WarnedIs
    <2>2. Become(j, NextUser(d))
      BY <1>3
    <2> HIDE DEF d
    <2>3. QED
      BY <2>1, <2>2, DueNextUser DEF Due
  <1>4. ASSUME NEW p, Become(j, p), Carried(q, p), p.stage = "roles", p.who = q.who,
               p.subj = holds[q.who] \cap Groups
        PROVE  Due(j)
    <2>1. p.near = {} /\ p.blind \subseteq p.warned
      BY <1>2, <1>4 DEF Carried
    <2>2. Turn(p)
      BY <1>4, <2>1 DEF Turn
    <2>3. Knows(p, changed[j], holds)
      BY <1>4, <2>1 DEF Knows, PassStage
    <2>4. QED
      BY <1>4, <2>2, <2>3 DEF Due
  <1>5. QED
    BY <1>3, <1>4, GroupsIs, DueAbort

LEMMA DueRoles == ASSUME TypeInv, DueInv, NEW j \in Jobs, GetUserRoles(j) PROVE Due(j)
  <1> DEFINE q == jobs[j]
  <1>1. q \in Job /\ q.stage = "roles" /\ q.who \in People /\ q.out = "none" /\ table \in Tables
    BY RolesIs DEF TypeInv
  <1>2. q.near = {} /\ q.blind \subseteq q.warned
    BY <1>1, DueOutsideOf DEF PassStage
  <1>3. q.who \notin changed[j] => q.subj = holds[q.who] \cap Groups
    BY <1>1 DEF DueInv, Knows
  <1>4. ASSUME NEW d, RolesRead(q, d, holds),
               Become(j, IF q.kind = "all" THEN NextBinding(d) ELSE [d EXCEPT !.stage = "bindings"])
        PROVE  Due(j)
    <2>1. /\ d \in Job /\ d.kind = q.kind /\ d.who = q.who /\ d.near = {}
      BY <1>2, <1>4 DEF RolesRead, Alike
    <2>2. Sure(d, changed[j], holds)
      <3>1. d.blind \subseteq d.warned
        BY <1>2, <1>4 DEF RolesRead
      <3>2. CASE d.blind = q.blind \cup {q.who}
        BY <2>1, <3>1, <3>2 DEF Sure
      <3>3. CASE d.subj = q.subj \cup (holds[q.who] \cap Roles) /\ d.blind = q.blind
        <4>1. holds[q.who] \subseteq Groups \cup Roles
          BY <1>1 DEF TypeInv, Subjects
        <4>2. q.who \notin changed[j] => d.subj = holds[q.who]
          BY <1>3, <3>3, <4>1
        <4>3. QED
          BY <2>1, <3>1, <4>2 DEF Sure
      <3>4. QED
        BY <1>4, <3>2, <3>3 DEF RolesRead
    <2>3. CASE q.kind = "all"
      BY <1>1, <1>4, <2>1, <2>2, <2>3, DueNextBinding DEF Due
    <2>4. CASE q.kind # "all"
      <3> DEFINE p == [d EXCEPT !.stage = "bindings"]
      <3>1. Become(j, p)
        BY <1>4, <2>4
      <3>2. Rest(d, p) /\ p.stage = "bindings"
        BY <2>1, GoesOnIs
      <3> HIDE DEF p
      <3>3. Turn(p)
        BY <2>1, <3>2 DEF Turn, Rest
      <3>4. Knows(p, changed[j], holds)
        BY <2>2, <3>2 DEF Knows, Rest, Sure
      <3>5. QED
        BY <3>1, <3>3, <3>4 DEF Due
    <2>5. QED
      BY <2>3, <2>4
  <1>5. QED
    BY <1>4, RolesIs, DueAbort

LEMMA DueBindings == ASSUME TypeInv, DueInv, NEW j \in Jobs, ListBindings(j) PROVE Due(j)
  <1> DEFINE q == jobs[j]
  <1>1. q \in Job /\ q.stage = "bindings" /\ table \in Tables
    BY BindingsIs DEF TypeInv
  <1>2. q.near = {} /\ q.blind \subseteq q.warned /\ Turn(q) /\ Knows(q, changed[j], holds)
    BY <1>1, DueOutsideOf DEF PassStage, DueInv
  <1>3. ASSUME NEW p, Become(j, p), Rest(q, p), p.stage = q.stage, p.out = "err" PROVE Due(j)
    BY <1>2, <1>3, DueRest DEF Due
  <1>4. ASSUME NEW p, Become(j, p), Rest(q, p), p.stage = "page" PROVE Due(j)
    <2>1. p.near = {} /\ p.blind \subseteq p.warned
      BY <1>2, <1>4 DEF Rest
    <2>2. QED
      BY <1>4, <2>1, DueOutside DEF Due, PassStage
  <1>5. CASE q.kind # "all" /\ q.who \in People /\ Become(j, NextBinding(q))
    <2>1. Sure(q, changed[j], holds)
      BY <1>1, <1>2, <1>5 DEF Knows
    <2>2. QED
      BY <1>1, <1>2, <1>5, <2>1, DueNextBinding DEF Due
  <1>6. QED
    BY <1>3, <1>4, <1>5, BindingsIs

LEMMA DueSearch == ASSUME TypeInv, DueInv, NEW j \in Jobs, SearchUsers(j) PROVE Due(j)
  <1> DEFINE q == jobs[j]
  <1>1. q.stage = "page" /\ q.kind = "all"
    BY SearchIs
  <1>2. q.near = {} /\ q.blind \subseteq q.warned
    BY <1>1, DueOutsideOf DEF PassStage
  <1>3. ASSUME NEW d, PageRead(q, d, kc), Become(j, NextUser(d)) PROVE Due(j)
    <2>1. d \in Job /\ d.kind = "all" /\ d.near = {} /\ d.blind \subseteq d.warned
      BY <1>1, <1>2, <1>3 DEF PageRead
    <2>2. QED
      BY <1>3, <2>1, DueNextUser DEF Due
  <1>4. QED
    BY <1>3, SearchIs, DueAbort

LEMMA DueInPass ==
    ASSUME TypeInv, DueInv, NEW j \in Jobs, jobs[j].stage \in PassStage
    PROVE  LET q == jobs[j] IN
           /\ q \in Job /\ q.who \in People /\ table \in Tables
           /\ Turn(q) /\ Sure(q, changed[j], holds)
  <1>1. jobs[j] \in Job /\ jobs[j].who \in People /\ table \in Tables
    BY PassIs
  <1>2. Turn(jobs[j]) /\ Knows(jobs[j], changed[j], holds)
    BY DEF DueInv
  <1>3. QED
    BY <1>1, <1>2 DEF Knows

LEMMA DueChildren == ASSUME TypeInv, DueInv, NEW j \in Jobs, GetSpaceChildren(j) PROVE Due(j)
  <1> DEFINE q == jobs[j]
  <1>1. q.stage = "expand"
    BY ChildrenIs
  <1>2. q.who \in People /\ table \in Tables /\ Sure(q, changed[j], holds)
    BY <1>1, DueInPass DEF PassStage
  <1>3. PICK d : Expanded(q, d) /\ Become(j, NextRoom(d))
    BY ChildrenIs
  <1>4. /\ d \in Job /\ d.who = q.who /\ d.kind = q.kind /\ d.subj = q.subj /\ d.i = q.i
        /\ d.blind = q.blind /\ q.warned \subseteq d.warned
        /\ d.near # {} => Visits(q) /\ d.near \subseteq Targets(table[q.i])
    BY <1>3 DEF Expanded, Alike, Targets
  <1>5. Sure(d, changed[j], holds)
    BY <1>2, <1>4 DEF Sure
  <1>6. Visits(d) = Visits(q)
    BY <1>4 DEF Visits, Matches
  <1>7. QED
    BY <1>2, <1>3, <1>4, <1>5, <1>6, DueNextRoom DEF Due

LEMMA DueMembers == ASSUME TypeInv, DueInv, NEW j \in Jobs, GetJoinedRoomMembers(j) PROVE Due(j)
  <1> DEFINE q == jobs[j]
  <1>1. q.stage = "members" /\ q.out = "none"
    BY MembersIs
  <1>2. q.who \in People /\ table \in Tables /\ Turn(q) /\ Sure(q, changed[j], holds)
    BY <1>1, DueInPass DEF PassStage
  <1>3. PICK t \in q.near : MembersRead(j, q, t, q.who \in member[t])
    BY MembersIs
  <1>4. Visits(q) /\ q.near \subseteq Targets(table[q.i])
    BY <1>2, <1>3 DEF Turn
  <1>5. ASSUME NEW d, Met(q, d, t), q.warned \subseteq d.warned
        PROVE  /\ d \in Job /\ d.who \in People /\ d.kind = q.kind /\ d.room = t /\ d.near = q.near \ {t}
               /\ Sure(d, changed[j], holds) /\ Visits(d) /\ Matches(d) = Matches(q) /\ d.i = q.i
               /\ d.near \subseteq Targets(table[d.i]) /\ t \in Targets(table[d.i]) \ d.near
    <2>1. /\ d \in Job /\ d.who = q.who /\ d.kind = q.kind /\ d.subj = q.subj /\ d.i = q.i
          /\ d.blind = q.blind /\ d.near = q.near \ {t} /\ d.room = t
      BY <1>5 DEF Met, Alike
    <2>2. Sure(d, changed[j], holds)
      BY <1>2, <1>5, <2>1 DEF Sure
    <2>3. Visits(d) = Visits(q) /\ Matches(d) = Matches(q)
      BY <2>1 DEF Visits, Matches
    <2>4. QED
      BY <1>2, <1>4, <2>1, <2>2, <2>3
  <1>6. ASSUME NEW d, Met(q, d, t), q.warned \subseteq d.warned, Become(j, NextRoom(d)) PROVE Due(j)
    BY <1>2, <1>5, <1>6, DueNextRoom DEF Due
  <1>7. ASSUME NEW d, Met(q, d, t), q.warned \subseteq d.warned, q.kind # "preview", Become(j, d),
               d.stage = (IF Matches(q) THEN "join" ELSE "kick")
        PROVE  Due(j)
    <2>1. /\ d.kind = q.kind /\ d.room = t /\ d.near = q.near \ {t}
          /\ Sure(d, changed[j], holds) /\ Visits(d) /\ Matches(d) = Matches(q)
          /\ d.near \subseteq Targets(table[d.i]) /\ t \in Targets(table[d.i]) \ d.near
      BY <1>5, <1>7
    <2>2. Turn(d)
      BY <1>7, <2>1 DEF Turn, PassStage, Visits
    <2>3. Knows(d, changed[j], holds)
      BY <1>7, <2>1 DEF Knows, Sure
    <2>4. QED
      BY <1>7, <2>2, <2>3 DEF Due
  <1>8. QED
    BY <1>3, <1>6, <1>7 DEF MembersRead

LEMMA DueCalled ==
    ASSUME TypeInv, DueInv, NEW j \in Jobs, jobs[j].stage \in {"join", "kick"}, NEW a, NEW p,
           Become(j, p), Called(jobs[j], p, a)
    PROVE  Due(j)
  <1> DEFINE q == jobs[j]
  <1>1. Turn(q) /\ Sure(q, changed[j], holds)
    BY DueInPass DEF PassStage
  <1>2. /\ p.who = q.who /\ p.kind = q.kind /\ p.subj = q.subj /\ p.i = q.i /\ p.blind = q.blind
        /\ p.warned = q.warned /\ p.near = q.near /\ p.room = q.room /\ p.stage = q.stage
    BY DEF Called, Alike
  <1>3. Turn(p)
    BY <1>1, <1>2 DEF Turn, Visits, Matches
  <1>4. Knows(p, changed[j], holds)
    BY <1>1, <1>2 DEF Knows, Sure
  <1>5. QED
    BY <1>3, <1>4 DEF Due

\* After a call: to the next room, or to the user's level in this one.
LEMMA DueEntered ==
    ASSUME TypeInv, DueInv, NEW j \in Jobs, jobs[j].stage \in {"join", "kick", "levels", "power"},
           NEW d, Entered(jobs[j], d),
           \/ Become(j, NextRoom(d))
           \/ jobs[j].stage \in {"join", "levels"} /\ Become(j, d) /\ d.stage \in {"levels", "power"}
    PROVE  Due(j)
  <1> DEFINE q == jobs[j]
  <1>1. q.who \in People /\ table \in Tables /\ Turn(q) /\ Sure(q, changed[j], holds)
    BY DueInPass DEF PassStage
  <1>2. /\ d \in Job /\ d.who = q.who /\ d.kind = q.kind /\ d.subj = q.subj /\ d.i = q.i
        /\ d.blind = q.blind /\ q.warned \subseteq d.warned /\ d.near = q.near /\ d.room = q.room
    BY DEF Entered, Alike
  <1>3. Sure(d, changed[j], holds)
    BY <1>1, <1>2 DEF Sure
  <1>4. d.near # {} => Visits(d) /\ d.near \subseteq Targets(table[d.i])
    BY <1>1, <1>2 DEF Turn, Visits, Matches
  <1>5. CASE Become(j, NextRoom(d))
    BY <1>1, <1>2, <1>3, <1>4, <1>5, DueNextRoom DEF Due
  <1>6. CASE q.stage \in {"join", "levels"} /\ Become(j, d) /\ d.stage \in {"levels", "power"}
    <2>1. d.room \in Targets(table[d.i]) \ d.near /\ Matches(d) /\ d.kind # "preview"
      BY <1>1, <1>2, <1>6 DEF Turn, Matches
    <2>2. Turn(d)
      BY <1>4, <1>6, <2>1 DEF Turn, PassStage
    <2>3. Knows(d, changed[j], holds)
      BY <1>3, <1>6 DEF Knows, Sure
    <2>4. QED
      BY <1>6, <2>2, <2>3 DEF Due
  <1>7. QED
    BY <1>5, <1>6

LEMMA DueAudit == ASSUME TypeInv, DueInv, NEW j \in Jobs, Audit(j) PROVE Due(j)
  <1>1. jobs[j].stage \in {"join", "kick"}
    BY AuditIs
  <1>2. PICK d : Entered(jobs[j], d) /\ AfterIs(j, jobs[j], d)
    BY AuditIs
  <1>3. QED
    BY <1>1, <1>2, DueEntered DEF AfterIs

LEMMA DueWorld == ASSUME TypeInv, DueInv, World PROVE DueInv'
  <1>1. UNCHANGED <<table, jobs>>
    BY DEF World, Walk, Regroup, SetStatus
  <1>2. ASSUME NEW k \in Jobs PROVE Turn(jobs[k])'
    BY <1>1 DEF DueInv, Turn, Visits, Matches
  <1>3. ASSUME NEW k \in Jobs PROVE Knows(jobs[k], changed[k], holds)'
    <2>1. Knows(jobs[k], changed[k], holds) /\ Shape(jobs[k]) /\ jobs'[k] = jobs[k]
      BY <1>1 DEF DueInv, TypeInv
    <2>2. CASE ~Running(k)
      <3>1. jobs[k].stage = "idle"
        BY <2>1, <2>2 DEF Running, Shape
      <3>2. QED
        BY <2>1, <3>1 DEF Knows, PassStage
    <2>3. CASE Running(k)
      <3>1. PICK p \in People : changed'[k] = changed[k] \cup {p} \/ changed'[k] = changed[k]
        BY <2>3 DEF World, Walk, Regroup, SetStatus, Shifts
      <3>2. changed[k] \subseteq changed'[k]
        BY <3>1
      <3>3. ASSUME NEW x \in People, x \notin changed'[k] PROVE holds'[x] = holds[x]
        <4>1. ASSUME NEW y \in People, NEW s \in Subjects, Regroup(y, s) PROVE holds'[x] = holds[x]
          <5>1. y \in changed'[k]
            BY <2>3, <4>1 DEF Regroup, Shifts
          <5>2. QED
            BY <3>3, <4>1, <5>1 DEF Regroup, TypeInv
        <4>2. QED
          BY <4>1 DEF World, Walk, SetStatus
      <3>4. jobs[k].stage \in PassStage \cup {"roles"} => jobs[k].who \in People
        BY <2>1 DEF Shape, UserStage
      <3>5. jobs[k].stage = "bindings" /\ jobs[k].kind # "all" => jobs[k].who \in People
        BY <2>1 DEF Shape
      <3>6. QED
        BY <2>1, <3>2, <3>3, <3>4, <3>5 DEF Knows, Sure
    <2>4. QED
      BY <2>2, <2>3
  <1>4. QED
    BY <1>2, <1>3 DEF DueInv

LEMMA DueNext == ASSUME TypeInv, DueInv, [Next]_vars PROVE DueInv'
  <1>1. ASSUME NEW j \in Jobs, Start(j) PROVE DueInv'
    <2>1. UNCHANGED <<table, holds>> /\ changed' = changed
      BY <1>1 DEF Start, upstream, history
    <2>2. PICK q : /\ Become(j, q) /\ q.near = {} /\ q.blind = {} /\ q.stage \in {"get_user", "count"}
      BY <1>1, StartIs
    <2>3. Turn(q) /\ Knows(q, changed[j], holds)
      BY <2>2, DueOutside DEF PassStage
    <2>4. QED
      BY <2>1, <2>2, <2>3, OneDue
  <1>2. ASSUME NEW j \in Jobs, Due(j), UNCHANGED <<table, holds, changed>> PROVE DueInv'
    BY <1>2, OneDue DEF Due
  <1>3. ASSUME NEW j \in Jobs, Cut(j) PROVE DueInv'
    BY <1>2, <1>3, DueAbort DEF Cut, upstream, history
  <1>4. ASSUME NEW j \in Jobs, Read(j) PROVE DueInv'
    <2>1. UNCHANGED <<table, holds, changed>>
      BY <1>4, ReadKeeps DEF Quiet, upstream, history
    <2>2. CASE GetPowerLevels(j)
      <3>1. jobs[j].stage = "levels"
        BY <2>2, LevelsIs
      <3>2. PICK d : Entered(jobs[j], d) /\ ((Become(j, d) /\ d.stage = "power") \/ Become(j, NextRoom(d)))
        BY <2>2, LevelsIs
      <3>3. QED
        BY <1>2, <2>1, <3>1, <3>2, DueEntered
    <2>3. QED
      BY <1>2, <1>4, <2>1, <2>2, DueFirst, DueGroups, DueRoles, DueBindings, DueSearch, DueChildren,
         DueMembers DEF Read
  <1>5. ASSUME NEW j \in Jobs, ForceJoinUser(j) \/ KickUser(j) PROVE DueInv'
    <2>1. PICK a, p : Calls(j, a) /\ Become(j, p) /\ Called(jobs[j], p, a)
      BY <1>5, JoinIs, KickIs
    <2>2. jobs[j].stage \in {"join", "kick"}
      BY <1>5, JoinIs, KickIs
    <2>3. UNCHANGED <<table, holds, changed>>
      BY <2>1 DEF Calls
    <2>4. QED
      BY <1>2, <2>1, <2>2, <2>3, DueCalled
  <1>6. ASSUME NEW j \in Jobs, Audit(j) PROVE DueInv'
    <2>1. UNCHANGED <<table, holds, changed>>
      BY <1>6, AuditIs
    <2>2. QED
      BY <1>2, <1>6, <2>1, DueAudit
  <1>7. ASSUME NEW j \in Jobs, PutPowerLevels(j) PROVE DueInv'
    <2>1. PICK a, d : Calls(j, a) /\ Entered(jobs[j], d) /\ Become(j, NextRoom(d))
      BY <1>7, PowerIs
    <2>2. jobs[j].stage = "power"
      BY <1>7, PowerIs
    <2>3. UNCHANGED <<table, holds, changed>>
      BY <2>1 DEF Calls
    <2>4. QED
      BY <1>2, <2>1, <2>2, <2>3, DueEntered
  <1>8. CASE UNCHANGED vars
    BY <1>8 DEF vars, upstream, history, DueInv, Turn, Knows, Sure, Visits, Matches
  <1>9. QED
    BY <1>1, <1>3, <1>4, <1>5, <1>6, <1>7, <1>8, DueWorld DEF Next, Program, Step

LEMMA DueInit == Init => DueInv
  <1> SUFFICES ASSUME Init, NEW j \in Jobs PROVE Turn(jobs[j]) /\ Knows(jobs[j], changed[j], holds)
    BY DEF DueInv
  <1>1. jobs[j] = Idle
    BY DEF Init
  <1>2. Idle.near = {} /\ Idle.blind = {} /\ Idle.warned = {} /\ Idle.stage = "idle"
    BY DEF Idle
  <1>3. QED
    BY <1>1, <1>2, DueOutside DEF PassStage

\* Nobody whose groups and roles stood still is kicked but under a binding that
\* allows it and whose subject they lack, nor joined but under one whose subject
\* they have; a bulk run that could not read the roles has a warning about them.
THEOREM JoinsAndKicksAreDue == Spec => CallsAreDue
  <1>1. ASSUME TypeInv, DueInv, NEW j \in Jobs, KickUser(j) \/ ForceJoinUser(j),
               jobs[j].who \notin changed[j] \cup jobs[j].blind
        PROVE  /\ KickUser(j) => table[jobs[j].i].remove /\ ~Says(jobs[j].who, jobs[j].i)
               /\ ForceJoinUser(j) => Says(jobs[j].who, jobs[j].i)
    <2>1. jobs[j].stage \in PassStage
      BY <1>1 DEF KickUser, ForceJoinUser, At, PassStage
    <2>2. Turn(jobs[j]) /\ jobs[j].subj = holds[jobs[j].who]
      BY <1>1, <2>1, DueInPass DEF Sure
    <2>3. QED
      BY <2>2 DEF KickUser, ForceJoinUser, At, Turn, Matches, Says
  <1> DEFINE A == \A j \in Jobs :
         LET q == jobs[j] IN
         q.who \notin changed[j] \cup q.blind =>
            /\ KickUser(j) => table[q.i].remove /\ ~Says(q.who, q.i)
            /\ ForceJoinUser(j) => Says(q.who, q.i)
  <1>2. TypeInv /\ DueInv => A
    BY <1>1
  <1>3. Init => TypeInv /\ DueInv
    BY InitType, DueInit
  <1>4. TypeInv /\ DueInv /\ [Next]_vars => (TypeInv /\ DueInv)'
    BY TypeStep, DueNext
  <1>5. QED
    BY <1>2, <1>3, <1>4, PTL DEF Spec, CallsAreDue

-----------------------------------------------------------------------------
(***************************************************************************)
(* Nobody is worked on twice.  Of the users still in the listing, those    *)
(* processed, at work or still in the queue are among its first q.first,   *)
(* and the next page begins behind them.  Users deleted meanwhile only     *)
(* move the others forward.                                                *)
(***************************************************************************)
Fresh(D, Q) == \A m \in DOMAIN Q : Q[m] \notin D /\ \A n \in DOMAIN Q : Q[m] = Q[n] => m = n

Ranked(D, Q, f, K) ==
    \A n \in DOMAIN Order :
        /\ Order[n] \in D \/ \E m \in DOMAIN Q : Q[m] = Order[n]
        /\ Order[n] \in PresentIn(K)
        => Rank(K, n) <= f

Mine(q) == IF q.stage \in UserStage THEN q.done \cup {q.who} ELSE q.done

Once(q, K) ==
    /\ q.kind # "all" => q.queue = <<>>
    /\ q.out = "none" =>
         /\ q.stage \in UserStage => q.who \notin q.done
         /\ q.kind # "all" => q.done = {}
         /\ q.stage \in {"count", "bindings", "page"} => q.queue = <<>>
         /\ Fresh(Mine(q), q.queue)
         /\ q.kind = "all" => Ranked(Mine(q), q.queue, q.first, K)

OnceInv == \A j \in Jobs : Once(jobs[j], kc)

LEMMA OneOnce ==
    ASSUME TypeInv, OnceInv, NEW j \in Jobs, NEW p, Become(j, p), UNCHANGED kc, Once(p, kc)
    PROVE  OnceInv'
  <1>1. jobs'[j] = p /\ \A k \in Jobs \ {j} : jobs'[k] = jobs[k]
    BY DEF TypeInv, Become
  <1>2. ASSUME NEW k \in Jobs PROVE Once(jobs'[k], kc)
    BY <1>1 DEF OnceInv
  <1>3. QED
    BY <1>2 DEF OnceInv

\* The next user is the head of the queue.
LEMMA FreshHead ==
    ASSUME NEW D, NEW Q \in Seq(People), Q # <<>>, Fresh(D, Q)
    PROVE  /\ Head(Q) \notin D /\ Fresh(D \cup {Head(Q)}, Tail(Q))
           /\ \A m \in DOMAIN Tail(Q) : \E n \in DOMAIN Q : Tail(Q)[m] = Q[n]
           /\ 1 \in DOMAIN Q /\ Head(Q) = Q[1]
  <1>1. /\ Tail(Q) \in Seq(People) /\ Len(Tail(Q)) = Len(Q) - 1 /\ Len(Q) \in Nat /\ Len(Q) # 0
        /\ \A i \in 1..Len(Tail(Q)) : Tail(Q)[i] = Q[i + 1]
        /\ DOMAIN Q = 1..Len(Q) /\ DOMAIN Tail(Q) = 1..Len(Tail(Q)) /\ Head(Q) = Q[1]
    BY HeadTailProperties, EmptySeq
  <1>2. \A i \in DOMAIN Tail(Q) : i \in Nat /\ i + 1 \in DOMAIN Q /\ Tail(Q)[i] = Q[i + 1] /\ i + 1 # 1
    BY <1>1
  <1>3. 1 \in DOMAIN Q
    BY <1>1
  <1>4. Head(Q) \notin D
    BY <1>1, <1>3 DEF Fresh
  <1>5. ASSUME NEW m \in DOMAIN Tail(Q)
        PROVE  /\ Tail(Q)[m] \notin D \cup {Head(Q)}
               /\ \A n \in DOMAIN Tail(Q) : Tail(Q)[m] = Tail(Q)[n] => m = n
    <2>1. Q[m + 1] \notin D /\ \A n \in DOMAIN Q : Q[m + 1] = Q[n] => m + 1 = n
      BY <1>2 DEF Fresh
    <2>2. Q[m + 1] # Q[1]
      BY <1>2, <1>3, <2>1
    <2>3. ASSUME NEW n \in DOMAIN Tail(Q), Tail(Q)[m] = Tail(Q)[n] PROVE m = n
      <3>1. Q[m + 1] = Q[n + 1] /\ n + 1 \in DOMAIN Q /\ m \in Nat /\ n \in Nat
        BY <1>2, <2>3
      <3>2. m + 1 = n + 1
        BY <2>1, <3>1
      <3>3. QED
        BY <3>1, <3>2
    <2>4. QED
      BY <1>1, <1>2, <2>1, <2>2, <2>3
  <1>6. Fresh(D \cup {Head(Q)}, Tail(Q))
    BY <1>5 DEF Fresh
  <1>7. QED
    BY <1>1, <1>2, <1>3, <1>4, <1>6

\* On to the next user, the next page or the end.
LEMMA OnceHandover ==
    ASSUME NEW K, NEW q \in Job, NEW p \in Job, p.kind = q.kind, p.first = q.first, Handover(q, p),
           q.kind # "all" => q.queue = <<>>,
           Fresh(p.done, q.queue), q.kind = "all" => Ranked(p.done, q.queue, q.first, K)
    PROVE  Once(p, K)
  <1>1. q.queue \in Seq(People)
    BY DEF Job
  <1>2. CASE q.kind = "all" /\ q.queue # <<>> /\ p.stage = "groups" /\ p.who = Head(q.queue) /\ p.queue = Tail(q.queue)
    <2>1. Mine(p) = p.done \cup {p.who} /\ p.kind = "all" /\ p.stage \in UserStage
      BY <1>2 DEF Mine, UserStage
    <2>2. /\ p.who \notin p.done /\ Fresh(Mine(p), p.queue)
          /\ \A m \in DOMAIN p.queue : \E n \in DOMAIN q.queue : p.queue[m] = q.queue[n]
          /\ 1 \in DOMAIN q.queue /\ p.who = q.queue[1]
      BY <1>1, <1>2, <2>1, FreshHead
    <2>3. Ranked(Mine(p), p.queue, p.first, K)
      BY <1>2, <2>1, <2>2 DEF Ranked
    <2>4. QED
      BY <1>2, <2>1, <2>2, <2>3 DEF Once
  <1>3. CASE q.kind = "all" /\ q.queue = <<>> /\ p.stage = "page" /\ p.queue = <<>>
    <2>1. Mine(p) = p.done
      BY <1>3 DEF Mine, UserStage, PassStage
    <2>2. Fresh(Mine(p), p.queue) /\ Ranked(Mine(p), p.queue, p.first, K)
      BY <1>3, <2>1 
    <2>3. QED
      BY <1>3, <2>2 DEF Once, UserStage, PassStage
  <1>4. CASE p.out # "none" /\ p.queue = q.queue
    BY <1>4 DEF Once
  <1>5. QED
    BY <1>2, <1>3, <1>4 DEF Handover

\* A user is at work.
Working(q, K) ==
    /\ q.kind # "all" => q.queue = <<>> /\ q.done = {}
    /\ q.who \notin q.done
    /\ Fresh(q.done \cup {q.who}, q.queue)
    /\ q.kind = "all" => Ranked(q.done \cup {q.who}, q.queue, q.first, K)

LEMMA OnceWorking ==
    ASSUME NEW q, NEW K, Once(q, K), q.out = "none", q.stage \in UserStage
    PROVE  Working(q, K)
  BY DEF Once, Working, Mine

LEMMA WorkingOnce ==
    ASSUME NEW q, NEW K, Working(q, K), q.stage \in UserStage PROVE Once(q, K)
  BY DEF Once, Working, Mine, UserStage, PassStage

LEMMA WorkingAlike ==
    ASSUME NEW q, NEW d, NEW K, Working(q, K), d.kind = q.kind, d.who = q.who, d.done = q.done,
           d.queue = q.queue, d.first = q.first
    PROVE  Working(d, K)
  BY DEF Working

LEMMA OnceOnBinding ==
    ASSUME NEW q \in Job, NEW p, NEW K, Working(q, K), Carried(q, p), OnBinding(q, p)
    PROVE  Once(p, K)
  <1>1. p \in Job /\ p.kind = q.kind /\ p.first = q.first
    BY DEF Carried
  <1>2. CASE p.stage = "expand" /\ Same(q, p)
    <2>1. Working(p, K) /\ p.stage \in UserStage
      BY <1>1, <1>2, WorkingAlike DEF Same, UserStage, PassStage
    <2>2. QED
      BY <2>1, WorkingOnce
  <1>3. CASE p.done = q.done \cup {q.who} /\ Handover(q, p)
    BY <1>1, <1>3, OnceHandover DEF Working
  <1>4. QED
    BY <1>2, <1>3 DEF OnBinding

LEMMA OnceOnRoom ==
    ASSUME NEW q \in Job, NEW p, NEW K, Working(q, K), Carried(q, p), OnRoom(q, p)
    PROVE  Once(p, K)
  <1>1. CASE p.stage = "members" /\ Same(q, p)
    <2>1. Working(p, K) /\ p.stage \in UserStage
      BY <1>1, WorkingAlike DEF Carried, Same, UserStage, PassStage
    <2>2. QED
      BY <2>1, WorkingOnce
  <1>2. QED
    BY <1>1, OnceOnBinding DEF OnRoom

LEMMA OnceNextRoom ==
    ASSUME table \in Tables, NEW q \in Job, q.who \in People, NEW K, Working(q, K)
    PROVE  Once(NextRoom(q), K)
  <1> DEFINE p == NextRoom(q)
  <1>1. Carried(q, p) /\ OnRoom(q, p)
    BY NextRoomIs
  <1> HIDE DEF p
  <1>2. Once(p, K)
    BY <1>1, OnceOnRoom
  <1>3. QED
    BY <1>2 DEF p

LEMMA OnceNextBinding ==
    ASSUME table \in Tables, NEW q \in Job, q.who \in People, NEW K, Working(q, K)
    PROVE  Once(NextBinding(q), K)
  <1> DEFINE p == NextBinding(q)
  <1>1. Carried(q, p) /\ OnBinding(q, p)
    BY NextBindingIs
  <1> HIDE DEF p
  <1>2. Once(p, K)
    BY <1>1, OnceOnBinding
  <1>3. QED
    BY <1>2 DEF p

LEMMA OnceNextUser ==
    ASSUME NEW q \in Job, q.kind = "all", NEW K, Fresh(q.done, q.queue), Ranked(q.done, q.queue, q.first, K)
    PROVE  Once(NextUser(q), K)
  <1> DEFINE p == NextUser(q)
  <1>1. Carried(q, p) /\ p.done = q.done /\ Handover(q, p)
    BY NextUserIs
  <1> HIDE DEF p
  <1>2. Once(p, K)
    BY <1>1, OnceHandover DEF Carried
  <1>3. QED
    BY <1>2 DEF p

\* A job that stops where it stands, or goes on with the same users in hand.
LEMMA OnceRest ==
    ASSUME NEW q, NEW p, NEW K, Once(q, K), q.out = "none", Rest(q, p),
           \/ p.out # "none"
           \/ /\ p.stage \in UserStage <=> q.stage \in UserStage
              /\ p.stage \in {"count", "bindings", "page"} => q.stage \in {"count", "bindings", "page"}
    PROVE  Once(p, K)
  <1>1. CASE p.out # "none"
    BY <1>1 DEF Once, Rest
  <1>2. CASE /\ p.stage \in UserStage <=> q.stage \in UserStage
             /\ p.stage \in {"count", "bindings", "page"} => q.stage \in {"count", "bindings", "page"}
    <2>1. Mine(p) = Mine(q)
      BY <1>2 DEF Mine, Rest
    <2>2. QED
      BY <1>2, <2>1 DEF Once, Rest
  <1>3. QED
    BY <1>1, <1>2

Fit(j) == \E p : Become(j, p) /\ Once(p, kc)

LEMMA FitAbort ==
    ASSUME TypeInv, OnceInv, NEW j \in Jobs, NEW o \in {"err", "cut"}, jobs[j].out = "none", Abort(j, o)
    PROVE  Fit(j)
  <1> DEFINE q == jobs[j]
             p == [q EXCEPT !.out = o]
  <1>1. q \in Job /\ Once(q, kc) /\ q.out = "none"
    BY DEF TypeInv, OnceInv
  <1>2. Become(j, p)
    BY DEF Abort
  <1>3. Rest(q, p) /\ p.out # "none"
    BY <1>1, AbortIs
  <1> HIDE DEF p, q
  <1>4. QED
    BY <1>1, <1>2, <1>3, OnceRest DEF Fit

\* On from the bindings to the user a single reconciliation is for.
LEMMA BindingsWorking ==
    ASSUME NEW q, NEW K, Once(q, K), q.out = "none", q.kind # "all"
    PROVE  Working(q, K)
  BY DEF Once, Working, Fresh

LEMMA FitFirst ==
    ASSUME TypeInv, OnceInv, NEW j \in Jobs, CountUsers(j) \/ GetUser(j) \/ ListBindings(j)
    PROVE  Fit(j)
  <1> DEFINE q == jobs[j]
  <1>1. q \in Job /\ Once(q, kc) /\ q.out = "none" /\ table \in Tables
    BY CountIs, GetUserIs, BindingsIs DEF TypeInv, OnceInv
  <1>2. ASSUME NEW p, Become(j, p), Rest(q, p),
               \/ p.out # "none"
               \/ q.stage = "count" /\ p.stage = "bindings"
               \/ q.stage = "get_user" /\ p.stage = "groups"
               \/ q.stage = "bindings" /\ p.stage = "page"
        PROVE  Fit(j)
    <2>1. Once(p, kc)
      BY <1>1, <1>2, OnceRest DEF UserStage, PassStage
    <2>2. QED
      BY <1>2, <2>1 DEF Fit
  <1>3. CASE q.kind # "all" /\ q.who \in People /\ Become(j, NextBinding(q))
    <2>1. Once(NextBinding(q), kc)
      BY <1>1, <1>3, BindingsWorking, OnceNextBinding
    <2>2. QED
      BY <1>3, <2>1 DEF Fit
  <1>4. CASE CountUsers(j)
    BY <1>2, <1>4, CountIs
  <1>5. CASE GetUser(j)
    BY <1>2, <1>5, GetUserIs
  <1>6. CASE ListBindings(j)
    BY <1>2, <1>3, <1>6, BindingsIs
  <1>7. QED
    BY <1>4, <1>5, <1>6

LEMMA UserWorking ==
    ASSUME TypeInv, OnceInv, NEW j \in Jobs, jobs[j].stage \in UserStage, jobs[j].out = "none"
    PROVE  Working(jobs[j], kc) /\ jobs[j] \in Job /\ jobs[j].who \in People /\ table \in Tables
  <1>1. Shape(jobs[j]) /\ Once(jobs[j], kc)
    BY DEF TypeInv, OnceInv
  <1>2. QED
    BY <1>1, OnceWorking DEF Shape, TypeInv

LEMMA FitGroups == ASSUME TypeInv, OnceInv, NEW j \in Jobs, GetUserGroups(j) PROVE Fit(j)
  <1> DEFINE q == jobs[j]
  <1>1. q.stage \in UserStage /\ q.out = "none"
    BY GroupsIs DEF UserStage
  <1>2. Working(q, kc) /\ q \in Job /\ q.who \in People
    BY <1>1, UserWorking
  <1>3. CASE q.kind = "all" /\ Become(j, NextUser(Warned(q)))
    <2> DEFINE d == Warned(q)
    <2>1. d \in Job /\ d.kind = "all" /\ d.queue = q.queue /\ d.done = q.done /\ d.first = q.first
      BY <1>2, <1>3, WarnedIs
    <2> HIDE DEF d
    <2>2. Fresh(d.done, d.queue) /\ Ranked(d.done, d.queue, d.first, kc)
      BY <1>2, <1>3, <2>1 DEF Working, Fresh, Ranked
    <2>3. Once(NextUser(d), kc)
      BY <2>1, <2>2, OnceNextUser
    <2>4. QED
      BY <1>3, <2>3 DEF Fit, d
  <1>4. ASSUME NEW p, Become(j, p), Carried(q, p), p.stage = "roles", p.who = q.who,
               p.queue = q.queue, p.done = q.done
        PROVE  Fit(j)
    <2>1. Working(p, kc) /\ p.stage \in UserStage
      BY <1>2, <1>4, WorkingAlike DEF Carried, UserStage
    <2>2. QED
      BY <1>4, <2>1, WorkingOnce DEF Fit
  <1>5. QED
    BY <1>1, <1>3, <1>4, GroupsIs, FitAbort

LEMMA FitRoles == ASSUME TypeInv, OnceInv, NEW j \in Jobs, GetUserRoles(j) PROVE Fit(j)
  <1> DEFINE q == jobs[j]
  <1>1. q.stage \in UserStage /\ q.out = "none"
    BY RolesIs DEF UserStage
  <1>2. Working(q, kc) /\ q \in Job /\ q.who \in People /\ table \in Tables
    BY <1>1, UserWorking
  <1>3. ASSUME NEW d, RolesRead(q, d, holds),
               Become(j, IF q.kind = "all" THEN NextBinding(d) ELSE [d EXCEPT !.stage = "bindings"])
        PROVE  Fit(j)
    <2>1. d \in Job /\ d.who = q.who /\ d.kind = q.kind /\ Working(d, kc)
      BY <1>2, <1>3, WorkingAlike DEF RolesRead, Alike
    <2>2. CASE q.kind = "all"
      <3>1. Once(NextBinding(d), kc)
        BY <1>2, <2>1, OnceNextBinding
      <3>2. QED
        BY <1>3, <2>2, <3>1 DEF Fit
    <2>3. CASE q.kind # "all"
      <3> DEFINE p == [d EXCEPT !.stage = "bindings"]
      <3>1. Become(j, p)
        BY <1>3, <2>3
      <3>2. Rest(d, p) /\ p.stage = "bindings"
        BY <2>1, GoesOnIs
      <3> HIDE DEF p
      <3>3. p.done = {} /\ p.queue = <<>> /\ p.kind # "all" /\ p.stage \notin UserStage
        BY <2>1, <2>3, <3>2 DEF Working, Rest, UserStage, PassStage
      <3>4. Once(p, kc)
        BY <3>3 DEF Once, Mine, Fresh
      <3>5. QED
        BY <3>1, <3>4 DEF Fit
    <2>4. QED
      BY <2>2, <2>3
  <1>4. QED
    BY <1>1, <1>3, RolesIs, FitAbort

\* The users of the next page stand behind everybody seen so far.
LEMMA PageFresh ==
    ASSUME NEW K, NEW D \in SUBSET People, NEW f \in Nat, Ranked(D, <<>>, f, K)
    PROVE  /\ Fresh(D, Batch(K, f))
           /\ Ranked(D, Batch(K, f), f + Len(PageAt(K, f)), K)
  <1> DEFINE B == Batch(K, f)
             l == Len(PageAt(K, f))
  <1>1. l \in Nat
    BY PageAtIs, NumbersAssumption
  <1>2. \A m \in DOMAIN B : \E n \in DOMAIN Order :
           B[m] = Order[n] /\ Order[n] \in PresentIn(K) /\ Rank(K, n) \in (f + 1)..(f + l)
    BY BatchIs
  <1>3. \A m, n \in DOMAIN B : B[m] = B[n] => m = n
    BY BatchIs
  <1> HIDE DEF B, l
  <1>4. ASSUME NEW n \in DOMAIN Order, Order[n] \in D, Order[n] \in PresentIn(K)
        PROVE  Rank(K, n) <= f /\ Rank(K, n) \in Int
    <2>1. Rank(K, n) <= f
      BY <1>4 DEF Ranked
    <2>2. Rank(K, n) \in 1..Len(Listing(K)) /\ Len(Listing(K)) \in Nat
      BY <1>4, ListingIs
    <2>3. QED
      BY <2>1, <2>2
  <1>5. ASSUME NEW m \in DOMAIN B PROVE B[m] \notin D
    <2>1. PICK n \in DOMAIN Order :
             B[m] = Order[n] /\ Order[n] \in PresentIn(K) /\ Rank(K, n) \in (f + 1)..(f + l)
      BY <1>2
    <2>2. QED
      BY <1>1, <1>4, <2>1
  <1>6. ASSUME NEW n \in DOMAIN Order, Order[n] \in PresentIn(K),
               Order[n] \in D \/ \E m \in DOMAIN B : B[m] = Order[n]
        PROVE  Rank(K, n) <= f + l
    <2>1. CASE Order[n] \in D
      BY <1>1, <1>4, <1>6, <2>1
    <2>2. CASE \E m \in DOMAIN B : B[m] = Order[n]
      <3>1. PICK k \in DOMAIN Order : Order[n] = Order[k] /\ Rank(K, k) \in (f + 1)..(f + l)
        BY <1>2, <2>2
      <3>2. n = k
        BY <3>1, OrderAssumption
      <3>3. QED
        BY <1>1, <3>1, <3>2
    <2>3. QED
      BY <1>6, <2>1, <2>2
  <1>7. Fresh(D, B)
    BY <1>3, <1>5 DEF Fresh
  <1>8. Ranked(D, B, f + l, K)
    BY <1>6 DEF Ranked
  <1>9. QED
    BY <1>7, <1>8 DEF B, l

LEMMA FitSearch == ASSUME TypeInv, OnceInv, NEW j \in Jobs, SearchUsers(j) PROVE Fit(j)
  <1> DEFINE q == jobs[j]
  <1>1. q.stage = "page" /\ q.out = "none" /\ q.kind = "all" /\ q \in Job /\ Once(q, kc)
    BY SearchIs DEF TypeInv, OnceInv
  <1>2. q.queue = <<>> /\ Ranked(q.done, <<>>, q.first, kc) /\ q.done \in SUBSET People /\ q.first \in Nat
    BY <1>1 DEF Once, Mine, UserStage, PassStage, Job
  <1>3. ASSUME NEW d, PageRead(q, d, kc), Become(j, NextUser(d)) PROVE Fit(j)
    <2>1. /\ d \in Job /\ d.kind = "all" /\ d.done = q.done /\ d.queue = Batch(kc, q.first)
          /\ d.first = q.first + Len(PageAt(kc, q.first))
      BY <1>1, <1>3 DEF PageRead
    <2>2. Fresh(d.done, d.queue) /\ Ranked(d.done, d.queue, d.first, kc)
      BY <1>2, <2>1, PageFresh
    <2>3. Once(NextUser(d), kc)
      BY <2>1, <2>2, OnceNextUser
    <2>4. QED
      BY <1>3, <2>3 DEF Fit
  <1>4. QED
    BY <1>1, <1>3, SearchIs, FitAbort

\* The calls for one user leave the users in hand as they are.
LEMMA FitPass ==
    ASSUME TypeInv, OnceInv, NEW j \in Jobs, jobs[j].stage \in PassStage, jobs[j].out = "none",
           NEW d, Alike(jobs[j], d),
           Become(j, NextRoom(d)) \/ (d.stage \in PassStage /\ Become(j, d))
    PROVE  Fit(j)
  <1> DEFINE q == jobs[j]
  <1>1. Working(q, kc) /\ q \in Job /\ q.who \in People /\ table \in Tables
    BY UserWorking DEF UserStage
  <1>2. d \in Job /\ d.who = q.who /\ Working(d, kc)
    BY <1>1, WorkingAlike DEF Alike
  <1>3. CASE Become(j, NextRoom(d))
    BY <1>1, <1>2, <1>3, OnceNextRoom DEF Fit
  <1>4. CASE d.stage \in PassStage /\ Become(j, d)
    BY <1>2, <1>4, WorkingOnce DEF Fit, UserStage
  <1>5. QED
    BY <1>3, <1>4

\* A step of the pass: d is the record that the call leaves.
Passed(j) ==
    /\ jobs[j].stage \in PassStage /\ jobs[j].out = "none"
    /\ \E d : /\ Alike(jobs[j], d) /\ jobs[j].warned \subseteq d.warned
              /\ Become(j, NextRoom(d)) \/ (d.stage \in PassStage /\ Become(j, d))

LEMMA PassedIs ==
    ASSUME TypeInv, NEW j \in Jobs,
           \/ GetSpaceChildren(j) \/ GetJoinedRoomMembers(j) \/ GetPowerLevels(j)
           \/ ForceJoinUser(j) \/ KickUser(j) \/ Audit(j) \/ PutPowerLevels(j)
    PROVE  Passed(j)
  <1> DEFINE q == jobs[j]
  <1>1. CASE GetSpaceChildren(j)
    BY <1>1, ChildrenIs DEF Passed, Expanded, PassStage
  <1>2. CASE GetJoinedRoomMembers(j)
    <2>1. q.stage = "members" /\ q.out = "none"
      BY <1>2, MembersIs
    <2>2. PICK t \in q.near : MembersRead(j, q, t, q.who \in member[t])
      BY <1>2, MembersIs
    <2>3. ASSUME NEW d, Met(q, d, t), q.warned \subseteq d.warned,
                 Become(j, NextRoom(d)) \/ (d.stage \in PassStage /\ Become(j, d))
          PROVE  Passed(j)
      BY <2>1, <2>3 DEF Passed, Met, PassStage
    <2>4. QED
      BY <2>2, <2>3 DEF MembersRead, PassStage
  <1>3. CASE GetPowerLevels(j)
    BY <1>3, LevelsIs DEF Passed, Entered, PassStage
  <1>4. CASE ForceJoinUser(j)
    <2>1. q.stage = "join" /\ q.out = "none"
      BY <1>4, JoinIs
    <2>2. PICK a, p : Become(j, p) /\ Called(q, p, a)
      BY <1>4, JoinIs
    <2>3. QED
      BY <2>1, <2>2 DEF Passed, Called, PassStage
  <1>5. CASE KickUser(j)
    <2>1. q.stage = "kick" /\ q.out = "none"
      BY <1>5, KickIs
    <2>2. PICK a, p : Become(j, p) /\ Called(q, p, a)
      BY <1>5, KickIs
    <2>3. QED
      BY <2>1, <2>2 DEF Passed, Called, PassStage
  <1>6. CASE Audit(j)
    <2>1. q.stage \in {"join", "kick"} /\ q.out = "none"
      BY <1>6, AuditIs
    <2>2. PICK d : Entered(q, d) /\ AfterIs(j, q, d)
      BY <1>6, AuditIs
    <2>3. QED
      BY <2>1, <2>2 DEF Passed, Entered, AfterIs, PassStage
  <1>7. CASE PutPowerLevels(j)
    <2>1. q.stage = "power" /\ q.out = "none"
      BY <1>7, PowerIs
    <2>2. PICK d : Entered(q, d) /\ Become(j, NextRoom(d))
      BY <1>7, PowerIs
    <2>3. QED
      BY <2>1, <2>2 DEF Passed, Entered, PassStage
  <1>8. QED
    BY <1>1, <1>2, <1>3, <1>4, <1>5, <1>6, <1>7

\* Nobody deleted comes back, so places in the listing only move forward.
LEMMA RankedFewer ==
    ASSUME NEW D, NEW Q, NEW f \in Nat, NEW K, NEW L, PresentIn(L) \subseteq PresentIn(K), Ranked(D, Q, f, K)
    PROVE  Ranked(D, Q, f, L)
  <1> SUFFICES ASSUME NEW n \in DOMAIN Order, Order[n] \in PresentIn(L),
                      Order[n] \in D \/ \E m \in DOMAIN Q : Q[m] = Order[n]
               PROVE  Rank(L, n) <= f
    BY DEF Ranked
  <1>1. Order[n] \in PresentIn(K)
    OBVIOUS
  <1>2. Rank(K, n) <= f
    BY <1>1 DEF Ranked
  <1>3. Rank(L, n) <= Rank(K, n)
    <2>1. n \in 0..Len(Order)
      BY OrderType
    <2>2. QED
      BY <2>1, OrderType, PlaceMonotonic DEF Rank
  <1>4. Rank(K, n) \in Int /\ Rank(L, n) \in Int
    BY <1>1, ListingIs
  <1>5. QED
    BY <1>2, <1>3, <1>4

LEMMA OnceWorld == ASSUME TypeInv, OnceInv, World PROVE OnceInv'
  <1>1. UNCHANGED jobs
    BY DEF World, Walk, Regroup, SetStatus
  <1>2. PresentIn(kc') \subseteq PresentIn(kc)
    <2>1. CASE UNCHANGED kc
      BY <2>1
    <2>2. ASSUME NEW p \in People, NEW k \in {"enabled", "disabled", "gone"}, SetStatus(p, k)
          PROVE  PresentIn(kc') \subseteq PresentIn(kc)
      BY <2>2 DEF SetStatus, PresentIn, TypeInv
    <2>3. QED
      BY <2>1, <2>2 DEF World, Walk, Regroup
  <1>3. ASSUME NEW j \in Jobs PROVE Once(jobs[j], kc')
    <2>1. Once(jobs[j], kc) /\ jobs[j].first \in Nat
      BY DEF OnceInv, TypeInv, Job
    <2>2. jobs[j].out = "none" /\ jobs[j].kind = "all"
          => Ranked(Mine(jobs[j]), jobs[j].queue, jobs[j].first, kc')
      BY <1>2, <2>1, RankedFewer DEF Once
    <2>3. QED
      BY <2>1, <2>2 DEF Once
  <1>4. QED
    BY <1>1, <1>3 DEF OnceInv

LEMMA OnceNext == ASSUME TypeInv, OnceInv, [Next]_vars PROVE OnceInv'
  <1>1. ASSUME NEW j \in Jobs, Fit(j), UNCHANGED kc PROVE OnceInv'
    BY <1>1, OneOnce DEF Fit
  <1>2. ASSUME NEW j \in Jobs, Start(j) PROVE OnceInv'
    <2>1. PICK q : /\ Become(j, q) /\ q.out = "none" /\ q.done = {} /\ q.queue = <<>>
                   /\ q.stage \in {"get_user", "count"} /\ (q.stage = "get_user" <=> q.kind # "all")
      BY <1>2, StartIs
    <2>2. Once(q, kc)
      <3>1. Fresh(Mine(q), q.queue)
        BY <2>1 DEF Fresh
      <3>2. q.kind = "all" => Mine(q) = {}
        BY <2>1 DEF Mine, UserStage, PassStage
      <3>3. q.kind = "all" => Ranked(Mine(q), q.queue, q.first, kc)
        BY <2>1, <3>2 DEF Ranked
      <3>4. QED
        BY <2>1, <3>1, <3>3 DEF Once
    <2>3. UNCHANGED kc
      BY <1>2 DEF Start, upstream
    <2>4. QED
      BY <2>1, <2>2, <2>3, OneOnce
  <1>3. ASSUME NEW j \in Jobs, Cut(j) PROVE OnceInv'
    BY <1>1, <1>3, FitAbort DEF Cut, upstream
  <1>4. ASSUME NEW j \in Jobs, Passed(j), UNCHANGED kc PROVE OnceInv'
    BY <1>1, <1>4, FitPass DEF Passed
  <1>5. ASSUME NEW j \in Jobs, Read(j) PROVE OnceInv'
    <2>1. UNCHANGED kc
      BY <1>5, ReadKeeps DEF Quiet, upstream
    <2>2. QED
      BY <1>1, <1>4, <1>5, <2>1, FitFirst, FitGroups, FitRoles, FitSearch, PassedIs DEF Read
  <1>6. ASSUME NEW j \in Jobs, ForceJoinUser(j) \/ KickUser(j) \/ Audit(j) \/ PutPowerLevels(j)
        PROVE OnceInv'
    <2>1. UNCHANGED kc
      BY <1>6 DEF ForceJoinUser, KickUser, Audit, PutPowerLevels, Calls, upstream
    <2>2. QED
      BY <1>4, <1>6, <2>1, PassedIs
  <1>7. CASE UNCHANGED vars
    BY <1>7 DEF vars, upstream, OnceInv
  <1>8. QED
    BY <1>2, <1>3, <1>5, <1>6, <1>7, OnceWorld DEF Next, Program, Step

LEMMA OnceInit == Init => OnceInv
  <1> SUFFICES ASSUME Init, NEW j \in Jobs PROVE Once(jobs[j], kc)
    BY DEF OnceInv
  <1>1. jobs[j] = Idle
    BY DEF Init
  <1>2. Idle.kind = "none" /\ Idle.queue = <<>> /\ Idle.done = {} /\ Idle.stage = "idle"
    BY DEF Idle
  <1>3. QED
    BY <1>1, <1>2 DEF Once, UserStage, PassStage, Mine, Fresh

-----------------------------------------------------------------------------
(***************************************************************************)
(* The last claim wins.  As long as nothing went wrong for the user at     *)
(* work, every room is as the last claim says among the bindings that the  *)
(* pass has dealt with: up to the one before it for the rooms still open,  *)
(* and up to the binding at work for the others.  H is what everybody      *)
(* holds, M who is where, mv and ch who moved and changed since the start. *)
(***************************************************************************)
ClaimsOf(p, r, H) ==
    {n \in DOMAIN table :
        /\ r = table[n].root \/ r \in Children[table[n].root]
        /\ table[n].subject \in H[p] \/ table[n].remove}

Settled(p, r, n, H, M) ==
    \A m \in ClaimsOf(p, r, H) :
        m <= n /\ (\A k \in ClaimsOf(p, r, H) : k <= n => k <= m)
        => (p \in M[r] <=> table[m].subject \in H[p])

\* Rooms not yet dealt with under the binding at work.
Open(q) ==
    IF q.stage = "expand" THEN Rooms
    ELSE IF q.stage \in {"join", "kick"} /\ q.res = "none" THEN q.near \cup {q.room}
    ELSE q.near

\* The rooms of the user at work, those of O being open.
Between(q, O, mv, ch, H, M) ==
    q.kind # "preview" /\ q.who \notin q.warned \cup ch =>
        \A r \in Rooms : <<q.who, r>> \notin mv =>
            Settled(q.who, r, IF r \in O THEN q.i - 1 ELSE q.i, H, M)

\* The rooms of the users processed earlier.
Done(q, mv, ch, H, M) ==
    q.kind # "preview" =>
          \A p \in q.done \ (q.warned \cup ch) : \A r \in Rooms :
              <<p, r>> \notin mv => Settled(p, r, Len(table), H, M)

Good(q, mv, ch, H, M) ==
    /\ q.out = "none" /\ q.stage \in PassStage /\ q.res # "err" => Between(q, Open(q), mv, ch, H, M)
    /\ Done(q, mv, ch, H, M)

SettleInv == \A j \in Jobs : Good(jobs[j], moved[j], changed[j], holds, member)

-----------------------------------------------------------------------------
LEMMA SettledNone ==
    ASSUME table \in Tables, NEW p, NEW r, NEW H, NEW M PROVE Settled(p, r, 0, H, M)
  <1>1. DOMAIN table = 1..Len(table) /\ Len(table) \in Nat
    BY TableType
  <1>2. QED
    BY <1>1 DEF Settled, ClaimsOf

\* A binding that claims nothing settles nothing.
LEMMA SettledSkip ==
    ASSUME table \in Tables, NEW p, NEW r, NEW H, NEW M, NEW i \in DOMAIN table,
           i \notin ClaimsOf(p, r, H), Settled(p, r, i - 1, H, M)
    PROVE  Settled(p, r, i, H, M)
  <1>1. DOMAIN table = 1..Len(table) /\ Len(table) \in Nat
    BY TableType
  <1>2. \A m \in ClaimsOf(p, r, H) : m \in Nat /\ (m <= i <=> m <= i - 1)
    BY <1>1 DEF ClaimsOf
  <1>3. QED
    BY <1>2 DEF Settled

\* A binding that does claim the room settles it.
LEMMA SettledAt ==
    ASSUME table \in Tables, NEW p, NEW r, NEW H, NEW M, NEW i \in DOMAIN table,
           i \in ClaimsOf(p, r, H), p \in M[r] <=> table[i].subject \in H[p]
    PROVE  Settled(p, r, i, H, M)
  <1>1. DOMAIN table = 1..Len(table) /\ Len(table) \in Nat
    BY TableType
  <1>2. \A m \in ClaimsOf(p, r, H) : m \in Nat
    BY <1>1 DEF ClaimsOf
  <1>3. ASSUME NEW m \in ClaimsOf(p, r, H), m <= i, \A k \in ClaimsOf(p, r, H) : k <= i => k <= m
        PROVE  m = i
    BY <1>1, <1>2, <1>3
  <1>4. QED
    BY <1>3 DEF Settled

LEMMA SettledSame ==
    ASSUME NEW p, NEW r, NEW n, NEW H, NEW M, NEW I, NEW N, Settled(p, r, n, H, M),
           I[p] = H[p], p \in N[r] <=> p \in M[r]
    PROVE  Settled(p, r, n, I, N)
  <1>1. ClaimsOf(p, r, I) = ClaimsOf(p, r, H)
    BY DEF ClaimsOf
  <1>2. QED
    BY <1>1 DEF Settled

LEMMA SettleOnBinding ==
    ASSUME table \in Tables, NEW q \in Job, NEW p, NEW mv, NEW ch, NEW H, NEW M,
           Carried(q, p), OnBinding(q, p), q.i = 0 \/ q.i \in DOMAIN table,
           Between(q, {}, mv, ch, H, M), Done(q, mv, ch, H, M)
    PROVE  Good(p, mv, ch, H, M)
  <1>1. DOMAIN table = 1..Len(table) /\ Len(table) \in Nat /\ q.i \in Nat
    BY TableType DEF Job
  <1>2. CASE p.stage = "expand" /\ p.i = q.i + 1 /\ Same(q, p)
    <2>1. Open(p) = Rooms
      BY <1>2 DEF Open
    <2>2. p.i - 1 = q.i
      BY <1>1, <1>2
    <2>3. Between(p, Rooms, mv, ch, H, M)
      BY <1>2, <2>2 DEF Between, Carried, Same
    <2>4. QED
      BY <1>2, <2>1, <2>3 DEF Good, Done, Carried, Same
  <1>3. CASE q.i >= Len(table) /\ p.done = q.done \cup {q.who} /\ Handover(q, p)
    <2>1. q.i = Len(table)
      BY <1>1, <1>3
    <2>2. p.stage \notin PassStage /\ p.kind = q.kind /\ p.warned = q.warned
      BY <1>3 DEF Handover, PassStage, Carried
    <2>3. ASSUME q.kind # "preview", NEW x \in p.done \ (p.warned \cup ch), NEW r \in Rooms, <<x, r>> \notin mv
          PROVE  Settled(x, r, Len(table), H, M)
      <3>1. CASE x = q.who
        BY <2>1, <2>2, <2>3, <3>1 DEF Between
      <3>2. CASE x # q.who
        BY <1>3, <2>2, <2>3, <3>2 DEF Done
      <3>3. QED
        BY <3>1, <3>2
    <2>4. QED
      BY <2>2, <2>3 DEF Good, Done
  <1>4. QED
    BY <1>2, <1>3 DEF OnBinding

LEMMA SettleOnRoom ==
    ASSUME table \in Tables, NEW q \in Job, NEW p, NEW mv, NEW ch, NEW H, NEW M,
           Carried(q, p), p.res = "none", OnRoom(q, p), q.i = 0 \/ q.i \in DOMAIN table,
           Between(q, q.near, mv, ch, H, M), Done(q, mv, ch, H, M)
    PROVE  Good(p, mv, ch, H, M)
  <1>1. CASE q.near # {} /\ p.i = q.i /\ p.stage = "members" /\ Same(q, p)
    <2>1. Open(p) = q.near
      BY <1>1 DEF Open, Carried
    <2>2. Between(p, q.near, mv, ch, H, M)
      BY <1>1 DEF Between, Carried, Same
    <2>3. QED
      BY <1>1, <2>1, <2>2 DEF Good, Done, Carried, Same
  <1>2. CASE q.near = {} /\ OnBinding(q, p)
    BY <1>2, SettleOnBinding
  <1>3. QED
    BY <1>1, <1>2 DEF OnRoom

LEMMA DoneAlike ==
    ASSUME NEW q, NEW d, NEW mv, NEW ch, NEW H, NEW M, Done(q, mv, ch, H, M),
           d.kind = q.kind, d.done = q.done, q.warned \subseteq d.warned
    PROVE  Done(d, mv, ch, H, M)
  BY DEF Done

LEMMA GoodNextRoom ==
    ASSUME table \in Tables, NEW q \in Job, q.who \in People, NEW mv, NEW ch, NEW H, NEW M,
           q.i = 0 \/ q.i \in DOMAIN table, Between(q, q.near, mv, ch, H, M), Done(q, mv, ch, H, M)
    PROVE  Good(NextRoom(q), mv, ch, H, M)
  <1> DEFINE p == NextRoom(q)
  <1>1. Carried(q, p) /\ p.res = "none" /\ OnRoom(q, p)
    BY NextRoomIs
  <1> HIDE DEF p
  <1>2. Good(p, mv, ch, H, M)
    BY <1>1, SettleOnRoom
  <1>3. QED
    BY <1>2 DEF p

\* The first binding: no claim has been looked at.
LEMMA GoodNextBinding ==
    ASSUME table \in Tables, NEW q \in Job, q.who \in People, NEW mv, NEW ch, NEW H, NEW M,
           q.i = 0, Done(q, mv, ch, H, M)
    PROVE  Good(NextBinding(q), mv, ch, H, M)
  <1> DEFINE p == NextBinding(q)
  <1>1. Carried(q, p) /\ OnBinding(q, p)
    BY NextBindingIs
  <1>2. Between(q, {}, mv, ch, H, M)
    BY SettledNone DEF Between
  <1> HIDE DEF p
  <1>3. Good(p, mv, ch, H, M)
    BY <1>1, <1>2, SettleOnBinding
  <1>4. QED
    BY <1>3 DEF p

LEMMA GoodOutside ==
    ASSUME NEW q, NEW p, NEW mv, NEW ch, NEW H, NEW M, Done(q, mv, ch, H, M),
           p.kind = q.kind, p.done = q.done, q.warned \subseteq p.warned,
           p.stage \notin PassStage \/ p.out # "none"
    PROVE  Good(p, mv, ch, H, M)
  BY DoneAlike DEF Good

LEMMA GoodNextUser ==
    ASSUME NEW q \in Job, q.kind = "all", NEW mv, NEW ch, NEW H, NEW M, Done(q, mv, ch, H, M)
    PROVE  Good(NextUser(q), mv, ch, H, M)
  <1> DEFINE p == NextUser(q)
  <1>1. Carried(q, p) /\ p.done = q.done /\ Handover(q, p)
    BY NextUserIs
  <1> HIDE DEF p
  <1>2. p.stage \notin PassStage /\ p.kind = q.kind /\ p.warned = q.warned
    BY <1>1 DEF Carried, Handover, PassStage
  <1>3. Good(p, mv, ch, H, M)
    BY <1>1, <1>2, GoodOutside
  <1>4. QED
    BY <1>3 DEF p

-----------------------------------------------------------------------------
LEMMA OneSettle ==
    ASSUME TypeInv, NEW j \in Jobs, NEW p, Become(j, p), UNCHANGED table,
           Good(p, moved'[j], changed'[j], holds', member'),
           \A k \in Jobs \ {j} : Good(jobs[k], moved'[k], changed'[k], holds', member')
    PROVE  SettleInv'
  <1>1. jobs'[j] = p /\ \A k \in Jobs \ {j} : jobs'[k] = jobs[k]
    BY DEF TypeInv, Become
  <1>2. ASSUME NEW k \in Jobs PROVE Good(jobs'[k], moved'[k], changed'[k], holds', member')
    BY <1>1
  <1>3. ASSUME NEW k \in Jobs PROVE Good(jobs[k], moved[k], changed[k], holds, member)'
    BY <1>2 DEF Good, Done, Between, Settled, ClaimsOf, Open
  <1>4. QED
    BY <1>3 DEF SettleInv

Sound(j) == \E p : Become(j, p) /\ Good(p, moved[j], changed[j], holds, member)

LEMMA QuietSettle ==
    ASSUME TypeInv, SettleInv, NEW j \in Jobs, Sound(j), UNCHANGED <<table, moved, changed, holds, member>>
    PROVE  SettleInv'
  <1>1. PICK p : Become(j, p) /\ Good(p, moved[j], changed[j], holds, member)
    BY DEF Sound
  <1>2. \A k \in Jobs \ {j} : Good(jobs[k], moved[k], changed[k], holds, member)
    BY DEF SettleInv
  <1>3. QED
    BY <1>1, <1>2, OneSettle

LEMMA SoundAbort ==
    ASSUME TypeInv, SettleInv, NEW j \in Jobs, NEW o \in {"err", "cut"}, Abort(j, o)
    PROVE  Sound(j)
  <1> DEFINE q == jobs[j]
             p == [q EXCEPT !.out = o]
  <1>1. q \in Job /\ Done(q, moved[j], changed[j], holds, member)
    BY DEF TypeInv, SettleInv, Good
  <1>2. Become(j, p)
    BY DEF Abort
  <1>3. Rest(q, p) /\ p.out # "none"
    BY <1>1, AbortIs
  <1> HIDE DEF p, q
  <1>4. QED
    BY <1>1, <1>2, <1>3, GoodOutside DEF Sound, Rest

LEMMA SoundFirst ==
    ASSUME TypeInv, SettleInv, NEW j \in Jobs, CountUsers(j) \/ GetUser(j) \/ ListBindings(j)
    PROVE  Sound(j)
  <1> DEFINE q == jobs[j]
  <1>1. q \in Job /\ Done(q, moved[j], changed[j], holds, member) /\ table \in Tables
    BY DEF TypeInv, SettleInv, Good
  <1>2. ASSUME NEW p, Become(j, p), Rest(q, p), p.out # "none" \/ p.stage \notin PassStage
        PROVE  Sound(j)
    BY <1>1, <1>2, GoodOutside DEF Sound, Rest
  <1>3. CASE q.i = 0 /\ q.who \in People /\ Become(j, NextBinding(q))
    BY <1>1, <1>3, GoodNextBinding DEF Sound
  <1>4. CASE CountUsers(j)
    BY <1>2, <1>4, CountIs DEF PassStage
  <1>5. CASE GetUser(j)
    BY <1>2, <1>5, GetUserIs DEF PassStage
  <1>6. CASE ListBindings(j)
    BY <1>2, <1>3, <1>6, BindingsIs DEF PassStage
  <1>7. QED
    BY <1>4, <1>5, <1>6

LEMMA SoundGroups == ASSUME TypeInv, SettleInv, NEW j \in Jobs, GetUserGroups(j) PROVE Sound(j)
  <1> DEFINE q == jobs[j]
  <1>1. q \in Job /\ q.who \in People /\ Done(q, moved[j], changed[j], holds, member)
    BY GroupsIs DEF TypeInv, SettleInv, Good
  <1>2. CASE q.kind = "all" /\ Become(j, NextUser(Warned(q)))
    <2> DEFINE d == Warned(q)
    <2>1. d \in Job /\ d.kind = "all" /\ d.done = q.done /\ q.warned \subseteq d.warned
      BY <1>1, <1>2, WarnedIs
    <2> HIDE DEF d
    <2>2. Done(d, moved[j], changed[j], holds, member)
      BY <1>1, <1>2, <2>1, DoneAlike
    <2>3. Good(NextUser(d), moved[j], changed[j], holds, member)
      BY <2>1, <2>2, GoodNextUser
    <2>4. QED
      BY <1>2, <2>3 DEF Sound, d
  <1>3. ASSUME NEW p, Become(j, p), Carried(q, p), p.stage = "roles", p.done = q.done PROVE Sound(j)
    BY <1>1, <1>3, GoodOutside DEF Sound, Carried, PassStage
  <1>4. QED
    BY <1>2, <1>3, GroupsIs, SoundAbort

LEMMA SoundRoles == ASSUME TypeInv, SettleInv, NEW j \in Jobs, GetUserRoles(j) PROVE Sound(j)
  <1> DEFINE q == jobs[j]
  <1>1. /\ q \in Job /\ q.who \in People /\ q.i = 0 /\ Done(q, moved[j], changed[j], holds, member)
        /\ table \in Tables
    BY RolesIs DEF TypeInv, SettleInv, Good
  <1>2. ASSUME NEW d, RolesRead(q, d, holds),
               Become(j, IF q.kind = "all" THEN NextBinding(d) ELSE [d EXCEPT !.stage = "bindings"])
        PROVE  Sound(j)
    <2>1. /\ d \in Job /\ d.who = q.who /\ d.kind = q.kind /\ d.i = 0 /\ d.done = q.done
          /\ q.warned \subseteq d.warned
      BY <1>1, <1>2 DEF RolesRead, Alike
    <2>2. Done(d, moved[j], changed[j], holds, member)
      BY <1>1, <2>1, DoneAlike
    <2>3. Good(NextBinding(d), moved[j], changed[j], holds, member)
      BY <1>1, <2>1, <2>2, GoodNextBinding
    <2> DEFINE p == [d EXCEPT !.stage = "bindings"]
    <2>4. Rest(d, p) /\ p.stage = "bindings"
      BY <2>1, GoesOnIs
    <2>5. Become(j, p) \/ Become(j, NextBinding(d))
      BY <1>2
    <2> HIDE DEF p
    <2>6. Good(p, moved[j], changed[j], holds, member)
      BY <2>2, <2>4, GoodOutside DEF Rest, PassStage
    <2>7. QED
      BY <2>3, <2>5, <2>6 DEF Sound
  <1>3. QED
    BY <1>2, RolesIs, SoundAbort

LEMMA SoundSearch == ASSUME TypeInv, SettleInv, NEW j \in Jobs, SearchUsers(j) PROVE Sound(j)
  <1> DEFINE q == jobs[j]
  <1>1. q.kind = "all" /\ Done(q, moved[j], changed[j], holds, member)
    BY SearchIs DEF SettleInv, Good
  <1>2. ASSUME NEW d, PageRead(q, d, kc), Become(j, NextUser(d)) PROVE Sound(j)
    <2>1. d \in Job /\ d.kind = "all" /\ Done(d, moved[j], changed[j], holds, member)
      BY <1>1, <1>2, DoneAlike DEF PageRead
    <2>2. QED
      BY <1>2, <2>1, GoodNextUser DEF Sound
  <1>3. QED
    BY <1>2, SearchIs, SoundAbort

\* What the binding at work says of a room, as the job sees it.
LEMMA ThisClaim ==
    ASSUME TypeInv, DueInv, NEW j \in Jobs, jobs[j].stage \in PassStage,
           jobs[j].who \notin jobs[j].warned \cup changed[j]
    PROVE  LET q == jobs[j] IN
           /\ Matches(q) <=> table[q.i].subject \in holds[q.who]
           /\ q.kind # "preview" => \A r : q.i \in ClaimsOf(q.who, r, holds) <=> r \in Targets(table[q.i]) /\ Visits(q)
  <1> DEFINE q == jobs[j]
  <1>1. q.subj = holds[q.who] /\ q.i \in DOMAIN table
    BY DueInPass, PassIs DEF Sure
  <1>2. Matches(q) <=> table[q.i].subject \in holds[q.who]
    BY <1>1 DEF Matches
  <1> HIDE DEF q
  <1>3. q.kind # "preview" => \A r : q.i \in ClaimsOf(q.who, r, holds) <=> r \in Targets(table[q.i]) /\ Visits(q)
    BY <1>1, <1>2 DEF Visits, ClaimsOf, Targets
  <1>4. QED
    BY <1>2, <1>3 DEF q

LEMMA InPass ==
    ASSUME TypeInv, SettleInv, NEW j \in Jobs, jobs[j].stage \in PassStage, jobs[j].out = "none"
    PROVE  LET q == jobs[j] IN
           /\ q \in Job /\ q.who \in People /\ q.i \in DOMAIN table /\ table \in Tables
           /\ q.res # "err" => Between(q, Open(q), moved[j], changed[j], holds, member)
           /\ Done(q, moved[j], changed[j], holds, member)
  <1>1. Good(jobs[j], moved[j], changed[j], holds, member)
    BY DEF SettleInv
  <1>2. QED
    BY <1>1, PassIs DEF Good

LEMMA SoundChildren == ASSUME TypeInv, DueInv, SettleInv, NEW j \in Jobs, GetSpaceChildren(j) PROVE Sound(j)
  <1> DEFINE q == jobs[j]
             mv == moved[j]
             ch == changed[j]
  <1>1. q.stage = "expand" /\ q.res = "none" /\ q.out = "none" /\ q.stage \in PassStage
    BY ChildrenIs DEF PassStage
  <1>2. /\ q \in Job /\ q.who \in People /\ q.i \in DOMAIN table /\ table \in Tables
        /\ Between(q, Rooms, mv, ch, holds, member) /\ Done(q, mv, ch, holds, member)
    BY <1>1, InPass DEF Open
  <1>3. PICK d : Expanded(q, d) /\ Become(j, NextRoom(d))
    BY ChildrenIs
  <1>4. /\ d \in Job /\ d.who = q.who /\ d.kind = q.kind /\ d.i = q.i /\ d.done = q.done
        /\ q.warned \subseteq d.warned
        /\ q.who \in d.warned \/ d.near = IF Visits(q) THEN Targets(table[q.i]) ELSE {}
    BY <1>3 DEF Expanded, Alike
  <1>5. Between(d, d.near, mv, ch, holds, member)
    <2> SUFFICES ASSUME q.kind # "preview", q.who \notin d.warned \cup ch,
                        NEW r \in Rooms, <<q.who, r>> \notin mv
                 PROVE  Settled(q.who, r, IF r \in d.near THEN q.i - 1 ELSE q.i, holds, member)
      BY <1>4 DEF Between
    <2>1. Settled(q.who, r, q.i - 1, holds, member) /\ q.who \notin q.warned \cup ch
      BY <1>2, <1>4 DEF Between
    <2>2. CASE r \notin d.near
      <3>1. q.i \notin ClaimsOf(q.who, r, holds)
        BY <1>1, <1>4, <2>1, <2>2, ThisClaim
      <3>2. QED
        BY <1>2, <2>1, <2>2, <3>1, SettledSkip
    <2>3. QED
      BY <2>1, <2>2
  <1>6. Done(d, mv, ch, holds, member)
    BY <1>2, <1>4, DoneAlike
  <1>7. Good(NextRoom(d), mv, ch, holds, member)
    BY <1>2, <1>4, <1>5, <1>6, GoodNextRoom
  <1>8. QED
    BY <1>3, <1>7 DEF Sound

LEMMA SoundMembers == ASSUME TypeInv, DueInv, SettleInv, NEW j \in Jobs, GetJoinedRoomMembers(j) PROVE Sound(j)
  <1> DEFINE q == jobs[j]
             mv == moved[j]
             ch == changed[j]
  <1>1. q.stage = "members" /\ q.res = "none" /\ q.out = "none" /\ q.stage \in PassStage
    BY MembersIs DEF PassStage
  <1>2. /\ q \in Job /\ q.who \in People /\ q.i \in DOMAIN table /\ table \in Tables
        /\ Between(q, q.near, mv, ch, holds, member) /\ Done(q, mv, ch, holds, member)
    BY <1>1, InPass DEF Open
  <1>3. PICK t \in q.near : t \in Rooms /\ MembersRead(j, q, t, q.who \in member[t])
    BY MembersIs
  <1>4. Visits(q) /\ t \in Targets(table[q.i])
    BY <1>1, <1>3, DueInPass DEF Turn
  <1>5. ASSUME NEW d, Met(q, d, t), q.warned \subseteq d.warned
        PROVE  /\ d \in Job /\ d.who = q.who /\ d.kind = q.kind /\ d.i = q.i /\ d.near = q.near \ {t}
               /\ d.room = t /\ d.res = "none" /\ Done(d, mv, ch, holds, member)
    BY <1>2, <1>5, DoneAlike DEF Met, Alike
  <1>6. ASSUME NEW d, Met(q, d, t), q.warned \subseteq d.warned, Become(j, NextRoom(d)),
               \/ q.kind = "preview" \/ q.who \in d.warned
               \/ (q.who \in member[t]) = Matches(q)
        PROVE  Sound(j)
    <2>1. Between(d, d.near, mv, ch, holds, member)
      <3> SUFFICES ASSUME q.kind # "preview", q.who \notin d.warned \cup ch,
                          NEW r \in Rooms, <<q.who, r>> \notin mv
                   PROVE  Settled(q.who, r, IF r \in d.near THEN q.i - 1 ELSE q.i, holds, member)
        BY <1>5, <1>6 DEF Between
      <3>1. /\ Settled(q.who, r, IF r \in q.near THEN q.i - 1 ELSE q.i, holds, member)
            /\ q.who \notin q.warned \cup ch
        BY <1>2, <1>6 DEF Between
      <3>2. CASE r # t
        BY <1>5, <1>6, <3>1, <3>2
      <3>3. CASE r = t
        <4>1. q.i \in ClaimsOf(q.who, t, holds) /\ (Matches(q) <=> table[q.i].subject \in holds[q.who])
          BY <1>1, <1>4, <3>1, ThisClaim
        <4>2. q.who \in member[t] <=> table[q.i].subject \in holds[q.who]
          BY <1>6, <4>1
        <4>3. Settled(q.who, t, q.i, holds, member)
          BY <1>2, <4>1, <4>2, SettledAt
        <4>4. QED
          BY <1>5, <1>6, <3>3, <4>3
      <3>4. QED
        BY <3>2, <3>3
    <2>2. Good(NextRoom(d), mv, ch, holds, member)
      BY <1>2, <1>5, <1>6, <2>1, GoodNextRoom
    <2>3. QED
      BY <1>6, <2>2 DEF Sound
  <1>7. ASSUME NEW d, Met(q, d, t), d.warned = q.warned, Become(j, d), d.stage \in {"join", "kick"}
        PROVE  Sound(j)
    <2>1. Open(d) = q.near
      BY <1>3, <1>5, <1>7 DEF Open
    <2>2. Between(d, q.near, mv, ch, holds, member)
      BY <1>2, <1>5, <1>7 DEF Between
    <2>3. QED
      BY <1>5, <1>7, <2>1, <2>2 DEF Sound, Good
  <1>8. QED
    BY <1>3, <1>6, <1>7 DEF MembersRead

\* After a call, to the next room or to the user's level.
LEMMA SoundEntered ==
    ASSUME TypeInv, SettleInv, NEW j \in Jobs, jobs[j].out = "none",
           jobs[j].stage \in {"levels", "power"} \/ (jobs[j].stage \in {"join", "kick"} /\ jobs[j].res # "none"),
           NEW d, Entered(jobs[j], d), jobs[j].res = "err" => jobs[j].who \in d.warned,
           Become(j, NextRoom(d)) \/ (Become(j, d) /\ d.stage \in {"levels", "power"})
    PROVE  Sound(j)
  <1> DEFINE q == jobs[j]
             mv == moved[j]
             ch == changed[j]
  <1>0. q.stage \in PassStage
    BY DEF PassStage
  <1>1. /\ q \in Job /\ q.who \in People /\ q.i \in DOMAIN table /\ table \in Tables
        /\ q.res # "err" => Between(q, q.near, mv, ch, holds, member)
        /\ Done(q, mv, ch, holds, member)
    BY <1>0, InPass DEF Open
  <1>2. /\ d \in Job /\ d.who = q.who /\ d.kind = q.kind /\ d.i = q.i /\ d.done = q.done
        /\ d.near = q.near /\ q.warned \subseteq d.warned
    BY DEF Entered, Alike
  <1>3. Between(d, d.near, mv, ch, holds, member)
    BY <1>1, <1>2 DEF Between
  <1>4. Done(d, mv, ch, holds, member)
    BY <1>1, <1>2, DoneAlike
  <1>5. CASE Become(j, NextRoom(d))
    <2>1. Good(NextRoom(d), mv, ch, holds, member)
      BY <1>1, <1>2, <1>3, <1>4, GoodNextRoom
    <2>2. QED
      BY <1>5, <2>1 DEF Sound
  <1>6. CASE Become(j, d) /\ d.stage \in {"levels", "power"}
    <2>1. Open(d) = d.near
      BY <1>6 DEF Open
    <2>2. QED
      BY <1>3, <1>4, <1>6, <2>1 DEF Sound, Good
  <1>7. QED
    BY <1>5, <1>6

\* Person x came to or left room t by the hands of job j, or of nobody's.
OnlyThere(x, t, M, N) ==
    \A y \in People : \A r \in Rooms : <<y, r>> # <<x, t>> => (y \in N[r] <=> y \in M[r])

\* The other jobs have that on record, so it settles nothing for them.
LEMMA Elsewhere ==
    ASSUME TypeInv, SettleInv, NEW x \in People, NEW t \in Rooms, NEW j, NEW k \in Jobs, k # j,
           OnlyThere(x, t, member, member'), Moves(j, x, t) \/ UNCHANGED <<member, moved>>
    PROVE  Good(jobs[k], moved'[k], changed[k], holds, member')
  <1> DEFINE q == jobs[k]
  <1>1. Good(q, moved[k], changed[k], holds, member) /\ Shape(q) /\ q \in Job
    BY DEF SettleInv, TypeInv
  <1>2. CASE UNCHANGED <<member, moved>>
    BY <1>1, <1>2
  <1>3. CASE ~Running(k)
    <2>1. q.stage \notin PassStage /\ q.done = {}
      BY <1>1, <1>3 DEF Running, Shape, PassStage
    <2>2. QED
      BY <2>1 DEF Good, Done
  <1>4. CASE Running(k) /\ Moves(j, x, t)
    <2>1. moved'[k] = moved[k] \cup {<<x, t>>}
      BY <1>4 DEF Moves
    <2>2. ASSUME NEW y \in People, NEW r \in Rooms, <<y, r>> \notin moved'[k], NEW n,
                 Settled(y, r, n, holds, member)
          PROVE  Settled(y, r, n, holds, member')
      <3>1. y \in member'[r] <=> y \in member[r]
        BY <2>1, <2>2 DEF OnlyThere
      <3>2. QED
        BY <2>2, <3>1, SettledSame
    <2>3. q.stage \in PassStage => q.who \in People
      BY <1>1 DEF Shape, UserStage
    <2>4. q.done \subseteq People
      BY <1>1 DEF Job
    <2> HIDE DEF q
    <2>5. ASSUME q.out = "none", q.stage \in PassStage, q.res # "err"
          PROVE  Between(q, Open(q), moved'[k], changed[k], holds, member')
      <3>1. Between(q, Open(q), moved[k], changed[k], holds, member)
        BY <1>1, <2>5 DEF Good
      <3>2. QED
        BY <2>1, <2>2, <2>3, <2>5, <3>1 DEF Between
    <2>6. Done(q, moved[k], changed[k], holds, member)
      BY <1>1 DEF Good
    <2>7. Done(q, moved'[k], changed[k], holds, member')
      BY <2>1, <2>2, <2>4, <2>6 DEF Done
    <2>8. Good(q, moved'[k], changed[k], holds, member')
      BY <2>5, <2>7 DEF Good
    <2>9. QED
      BY <2>8 DEF q
  <1>5. QED
    BY <1>2, <1>3, <1>4

LEMMA SettleCalled ==
    ASSUME TypeInv, DueInv, OnceInv, SettleInv, NEW j \in Jobs, NEW a, NEW p,
           jobs[j].stage \in {"join", "kick"}, jobs[j].res = "none", jobs[j].out = "none",
           Become(j, p), Called(jobs[j], p, a), UNCHANGED <<table, holds, changed>>,
           OnlyThere(jobs[j].who, jobs[j].room, member, member'),
           a = "ok" => (jobs[j].who \in member'[jobs[j].room] <=> jobs[j].stage = "join"),
           Moves(j, jobs[j].who, jobs[j].room) \/ UNCHANGED <<member, moved>>
    PROVE  SettleInv'
  <1> DEFINE q == jobs[j]
             mv == moved[j]
             ch == changed[j]
  <1>0. q.stage \in PassStage
    BY DEF PassStage
  <1>1. /\ q \in Job /\ q.who \in People /\ q.i \in DOMAIN table /\ table \in Tables
        /\ Between(q, q.near \cup {q.room}, mv, ch, holds, member)
        /\ Done(q, mv, ch, holds, member)
    BY <1>0, InPass DEF Open
  <1>2. q.room \in Rooms /\ q.done \subseteq People
    BY <1>1 DEF TypeInv, Shape, Job
  <1>3. \A k \in Jobs \ {j} : Good(jobs[k], moved'[k], changed[k], holds, member')
    BY <1>1, <1>2, Elsewhere
  <1>4. moved'[j] = mv
    BY DEF Moves
  <1>5. q.who \notin q.done
    BY <1>0, UserWorking DEF UserStage, Working
  <1>6. q.room \in Targets(table[q.i]) \ q.near /\ Visits(q) /\ (Matches(q) <=> q.stage = "join")
    BY <1>0, DueInPass DEF Turn, Visits
  <1>7. ASSUME NEW y \in People, NEW r \in Rooms, <<y, r>> # <<q.who, q.room>>, NEW n,
               Settled(y, r, n, holds, member)
        PROVE  Settled(y, r, n, holds, member')
    <2>1. y \in member'[r] <=> y \in member[r]
      BY <1>7 DEF OnlyThere
    <2>2. QED
      BY <1>7, <2>1, SettledSame
  <1>8. /\ p.who = q.who /\ p.kind = q.kind /\ p.i = q.i /\ p.done = q.done /\ p.out = q.out
        /\ p.warned = q.warned /\ p.near = q.near /\ p.room = q.room /\ p.stage = q.stage
        /\ p.res = Answer(a)
    BY DEF Called, Alike
  <1>9. Done(p, mv, ch, holds, member')
    BY <1>1, <1>2, <1>5, <1>7, <1>8 DEF Done
  <1>10. ASSUME p.res # "err" PROVE Between(p, Open(p), mv, ch, holds, member')
    <2>1. Open(p) = q.near /\ a = "ok"
      BY <1>8, <1>10 DEF Open, Answer
    <2>2. SUFFICES ASSUME q.kind # "preview", q.who \notin q.warned \cup ch,
                        NEW r \in Rooms, <<q.who, r>> \notin mv
                 PROVE  Settled(q.who, r, IF r \in q.near THEN q.i - 1 ELSE q.i, holds, member')
      BY <1>8, <2>1 DEF Between
    <2>3. Settled(q.who, r, IF r \in q.near \cup {q.room} THEN q.i - 1 ELSE q.i, holds, member)
      BY <1>1, <2>2 DEF Between
    <2>4. CASE r # q.room
      BY <1>1, <1>7, <2>3, <2>4
    <2>5. CASE r = q.room
      <3>1. q.i \in ClaimsOf(q.who, r, holds) /\ (Matches(q) <=> table[q.i].subject \in holds[q.who])
        BY <1>0, <1>6, <2>2, <2>5, ThisClaim
      <3>2. q.who \in member'[r] <=> table[q.i].subject \in holds[q.who]
        BY <1>6, <2>1, <2>5, <3>1
      <3>3. Settled(q.who, r, q.i, holds, member')
        BY <1>1, <3>1, <3>2, SettledAt
      <3>4. QED
        BY <1>6, <2>5, <3>3
    <2>6. QED
      BY <2>4, <2>5
  <1>11. Good(p, mv, ch, holds, member')
    BY <1>9, <1>10 DEF Good
  <1>12. QED
    BY <1>3, <1>4, <1>11, OneSettle

LEMMA SettleJoin ==
    ASSUME TypeInv, DueInv, OnceInv, SettleInv, NEW j \in Jobs, ForceJoinUser(j) PROVE SettleInv'
  <1> DEFINE q == jobs[j]
  <1>1. q.stage = "join" /\ q.res = "none" /\ q.out = "none" /\ q.stage \in PassStage
    BY JoinIs DEF PassStage
  <1>2. PICK a, p : /\ Calls(j, a) /\ Become(j, p) /\ Called(q, p, a)
                    /\ IF Applied(a) /\ q.who \notin member[q.room]
                         THEN member' = [member EXCEPT ![q.room] = @ \cup {q.who}] /\ Moves(j, q.who, q.room)
                         ELSE UNCHANGED <<member, moved>>
    BY JoinIs
  <1>3. UNCHANGED <<table, holds, changed>>
    BY <1>2 DEF Calls
  <1>4. q.who \in People /\ q.room \in Rooms /\ member \in [Rooms -> SUBSET People]
    BY <1>1, PassIs DEF TypeInv, Shape
  <1> HIDE DEF q
  <1>5. OnlyThere(q.who, q.room, member, member')
    BY <1>2, <1>4 DEF OnlyThere
  <1>6. a = "ok" => q.who \in member'[q.room]
    BY <1>2, <1>4 DEF Applied
  <1>7. Moves(j, q.who, q.room) \/ UNCHANGED <<member, moved>>
    BY <1>2
  <1>8. QED
    BY <1>1, <1>2, <1>3, <1>5, <1>6, <1>7, SettleCalled DEF q

LEMMA SettleKick ==
    ASSUME TypeInv, DueInv, OnceInv, SettleInv, NEW j \in Jobs, KickUser(j) PROVE SettleInv'
  <1> DEFINE q == jobs[j]
  <1>1. q.stage = "kick" /\ q.res = "none" /\ q.out = "none" /\ q.stage \in PassStage
    BY KickIs DEF PassStage
  <1>2. PICK a, p : /\ Calls(j, a) /\ Become(j, p) /\ Called(q, p, a)
                    /\ IF Applied(a)
                         THEN member' = [member EXCEPT ![q.room] = @ \ {q.who}] /\ Moves(j, q.who, q.room)
                         ELSE UNCHANGED <<member, moved>>
    BY KickIs
  <1>3. UNCHANGED <<table, holds, changed>>
    BY <1>2 DEF Calls
  <1>4. q.who \in People /\ q.room \in Rooms /\ member \in [Rooms -> SUBSET People]
    BY <1>1, PassIs DEF TypeInv, Shape
  <1> HIDE DEF q
  <1>5. OnlyThere(q.who, q.room, member, member')
    BY <1>2, <1>4 DEF OnlyThere
  <1>6. a = "ok" => q.who \notin member'[q.room]
    BY <1>2, <1>4 DEF Applied
  <1>7. Moves(j, q.who, q.room) \/ UNCHANGED <<member, moved>>
    BY <1>2
  <1>8. QED
    BY <1>1, <1>2, <1>3, <1>5, <1>6, <1>7, SettleCalled DEF q

LEMMA SettleWorld == ASSUME TypeInv, SettleInv, World PROVE SettleInv'
  <1>1. UNCHANGED <<table, jobs>>
    BY DEF World, Walk, Regroup, SetStatus
  <1>2. SUFFICES ASSUME NEW k \in Jobs PROVE Good(jobs[k], moved'[k], changed'[k], holds', member')
    <2>1. \A k \in Jobs : Good(jobs[k], moved[k], changed[k], holds, member)'
      BY <1>1, <1>2 DEF Good, Done, Between, Settled, ClaimsOf, Open
    <2>2. QED
      BY <2>1 DEF SettleInv
  <1>3. ASSUME NEW p \in People, NEW r \in Rooms, Walk(p, r)
        PROVE  Good(jobs[k], moved'[k], changed'[k], holds', member')
    <2>1. UNCHANGED <<holds, changed>> /\ Moves(None, p, r) /\ k # None
      BY <1>3, NoneAssumption DEF Walk
    <2>2. OnlyThere(p, r, member, member')
      BY <1>3 DEF Walk, OnlyThere, TypeInv
    <2>3. Good(jobs[k], moved'[k], changed[k], holds, member')
      BY <2>1, <2>2, Elsewhere
    <2>4. QED
      BY <2>1, <2>3
  <1>4. ASSUME NEW p \in People, UNCHANGED <<member, moved>>, Shifts(p),
               \A y \in People \ {p} : holds'[y] = holds[y]
        PROVE  Good(jobs[k], moved'[k], changed'[k], holds', member')
    <2> DEFINE q == jobs[k]
    <2>1. Good(q, moved[k], changed[k], holds, member) /\ Shape(q) /\ q \in Job
      BY DEF SettleInv, TypeInv
    <2>2. CASE ~Running(k)
      <3>1. q.stage \notin PassStage /\ q.done = {}
        BY <2>1, <2>2 DEF Running, Shape, PassStage
      <3>2. QED
        BY <3>1 DEF Good, Done
    <2>3. CASE Running(k)
      <3>1. changed'[k] = changed[k] \cup {p}
        BY <1>4, <2>3 DEF Shifts
      <3>2. ASSUME NEW y \in People, y # p, NEW r, NEW n, Settled(y, r, n, holds, member)
            PROVE  Settled(y, r, n, holds', member)
        BY <1>4, <3>2, SettledSame
      <3>3. (q.stage \in PassStage => q.who \in People) /\ q.done \subseteq People
        BY <2>1 DEF Shape, UserStage, Job
      <3> HIDE DEF q
      <3>4. ASSUME q.out = "none", q.stage \in PassStage, q.res # "err"
            PROVE  Between(q, Open(q), moved[k], changed'[k], holds', member)
        <4>1. Between(q, Open(q), moved[k], changed[k], holds, member)
          BY <2>1, <3>4 DEF Good
        <4>2. QED
          BY <3>1, <3>2, <3>3, <3>4, <4>1 DEF Between
      <3>5. Done(q, moved[k], changed[k], holds, member)
        BY <2>1 DEF Good
      <3>6. Done(q, moved[k], changed'[k], holds', member)
        BY <3>1, <3>2, <3>3, <3>5 DEF Done
      <3>7. Good(q, moved[k], changed'[k], holds', member)
        BY <3>4, <3>6 DEF Good
      <3>8. QED
        BY <1>4, <3>7 DEF q
    <2>4. QED
      BY <2>2, <2>3
  <1>5. ASSUME NEW p \in People, NEW s \in Subjects, Regroup(p, s)
        PROVE  Good(jobs[k], moved'[k], changed'[k], holds', member')
    BY <1>4, <1>5 DEF Regroup, TypeInv
  <1>6. ASSUME NEW p \in People, NEW s \in {"enabled", "disabled", "gone"}, SetStatus(p, s)
        PROVE  Good(jobs[k], moved'[k], changed'[k], holds', member')
    BY <1>4, <1>6 DEF SetStatus
  <1>7. QED
    BY <1>3, <1>5, <1>6 DEF World

LEMMA SettleNext == ASSUME TypeInv, DueInv, OnceInv, SettleInv, [Next]_vars PROVE SettleInv'
  <1>1. ASSUME NEW j \in Jobs, Start(j) PROVE SettleInv'
    <2>1. UNCHANGED <<table, holds, member, moved, changed>>
      BY <1>1 DEF Start, upstream, history
    <2>2. PICK q : Become(j, q) /\ q.done = {} /\ q.stage \in {"get_user", "count"}
      BY <1>1, StartIs
    <2>3. Good(q, moved[j], changed[j], holds, member)
      BY <2>2 DEF Good, Done, PassStage
    <2>4. QED
      BY <2>1, <2>2, <2>3, QuietSettle DEF Sound
  <1>2. ASSUME NEW j \in Jobs, Cut(j) PROVE SettleInv'
    BY <1>2, SoundAbort, QuietSettle DEF Cut, upstream, history
  <1>3. ASSUME NEW j \in Jobs, Read(j) PROVE SettleInv'
    <2>1. UNCHANGED <<table, holds, member, moved, changed>>
      BY <1>3, ReadKeeps DEF Quiet, upstream, history
    <2>2. CASE GetPowerLevels(j)
      <3>1. jobs[j].stage = "levels" /\ jobs[j].out = "none" /\ jobs[j].res = "none"
        BY <2>2, LevelsIs
      <3>2. PICK d : Entered(jobs[j], d) /\ ((Become(j, d) /\ d.stage = "power") \/ Become(j, NextRoom(d)))
        BY <2>2, LevelsIs
      <3>3. Sound(j)
        BY <3>1, <3>2, SoundEntered
      <3>4. QED
        BY <2>1, <3>3, QuietSettle
    <2>3. QED
      BY <1>3, <2>1, <2>2, SoundFirst, SoundGroups, SoundRoles, SoundSearch, SoundChildren,
         SoundMembers, QuietSettle DEF Read
  <1>4. ASSUME NEW j \in Jobs, Audit(j) PROVE SettleInv'
    <2>1. /\ jobs[j].stage \in {"join", "kick"} /\ jobs[j].res # "none" /\ jobs[j].out = "none"
          /\ UNCHANGED <<table, holds, member, moved, changed>>
      BY <1>4, AuditIs
    <2>2. PICK d : /\ Entered(jobs[j], d) /\ AfterIs(j, jobs[j], d)
                   /\ jobs[j].res = "err" => jobs[j].who \in d.warned
      BY <1>4, AuditIs
    <2>3. Become(j, NextRoom(d)) \/ (Become(j, d) /\ d.stage \in {"levels", "power"})
      BY <2>2 DEF AfterIs
    <2>4. Sound(j)
      BY <2>1, <2>2, <2>3, SoundEntered
    <2>5. QED
      BY <2>1, <2>4, QuietSettle
  <1>5. ASSUME NEW j \in Jobs, PutPowerLevels(j) PROVE SettleInv'
    <2>1. PICK a, d : Calls(j, a) /\ Entered(jobs[j], d) /\ Become(j, NextRoom(d))
      BY <1>5, PowerIs
    <2>2. /\ jobs[j].stage = "power" /\ jobs[j].res = "none" /\ jobs[j].out = "none"
          /\ UNCHANGED <<member, moved>>
      BY <1>5, PowerIs
    <2>3. UNCHANGED <<table, holds, changed>>
      BY <2>1 DEF Calls
    <2>4. Sound(j)
      BY <2>1, <2>2, SoundEntered
    <2>5. QED
      BY <2>2, <2>3, <2>4, QuietSettle
  <1>6. CASE UNCHANGED vars
    <2>1. UNCHANGED <<table, jobs, holds, member, moved, changed>>
      BY <1>6 DEF vars, upstream, history
    <2>2. \A k \in Jobs : Good(jobs[k], moved[k], changed[k], holds, member)'
      BY <2>1 DEF SettleInv, Good, Done, Between, Settled, ClaimsOf, Open
    <2>3. QED
      BY <2>2 DEF SettleInv
  <1>7. QED
    BY <1>1, <1>2, <1>3, <1>4, <1>5, <1>6, SettleJoin, SettleKick, SettleWorld DEF Next, Program, Step

LEMMA SettleInit == Init => SettleInv
  <1> SUFFICES ASSUME Init, NEW j \in Jobs PROVE Good(jobs[j], moved[j], changed[j], holds, member)
    BY DEF SettleInv
  <1>1. jobs[j] = Idle
    BY DEF Init
  <1>2. Idle.stage = "idle" /\ Idle.done = {}
    BY DEF Idle
  <1>3. QED
    BY <1>1, <1>2 DEF Good, Done, PassStage

-----------------------------------------------------------------------------
LEMMA LastOne ==
    ASSUME NEW n \in Nat, NEW T \in SUBSET (1..n), T # {} PROVE \E x \in T : \A y \in T : y <= x
  <1> DEFINE S == {z \in 0..n : n - z \in T}
  <1>1. S \in SUBSET Nat
    OBVIOUS
  <1>2. \A x \in T : n - x \in S
    <2> SUFFICES ASSUME NEW x \in T PROVE n - x \in S
      OBVIOUS
    <2>1. n - x \in 0..n /\ n - (n - x) = x
      OBVIOUS
    <2>2. QED
      BY <2>1
  <1>3. S # {}
    BY <1>2
  <1>4. PICK z \in S : \A y \in S : z <= y
    BY <1>1, <1>3, LeastNatural
  <1>5. n - z \in T /\ z \in 0..n
    BY <1>4
  <1>6. ASSUME NEW y \in T PROVE y <= n - z
    <2>1. z <= n - y /\ y \in 1..n
      BY <1>2, <1>4
    <2>2. QED
      BY <1>5, <2>1
  <1>7. QED
    BY <1>5, <1>6

\* There is a last claim, if there is one at all, and the verdict is what it says.
LEMMA VerdictIs ==
    ASSUME table \in Tables, NEW p, NEW r, Claims(p, r) # {}
    PROVE  \E m \in ClaimsOf(p, r, holds) :
              /\ \A k \in ClaimsOf(p, r, holds) : k <= m
              /\ Verdict(p, r) <=> table[m].subject \in holds[p]
              /\ m <= Len(table)
  <1>1. DOMAIN table = 1..Len(table) /\ Len(table) \in Nat
    BY TableType
  <1>2. Claims(p, r) = ClaimsOf(p, r, holds) /\ Claims(p, r) \in SUBSET (1..Len(table))
    BY <1>1 DEF Claims, ClaimsOf
  <1>3. PICK m \in Claims(p, r) : \A k \in Claims(p, r) : k <= m
    BY <1>1, <1>2, LastOne
  <1>4. \A n \in Claims(p, r) : (\A k \in Claims(p, r) : k <= n) => n = m
    BY <1>1, <1>2, <1>3
  <1>5. Verdict(p, r) <=> table[m].subject \in holds[p]
    BY <1>3, <1>4 DEF Verdict, Says
  <1>6. QED
    BY <1>1, <1>2, <1>3, <1>5

\* A user processed without a warning, whose record stood still, is in exactly
\* those of the claimed rooms that the last claim puts them in, unless they came
\* or left by other hands (reconcile_membership goes through the bindings in order).
THEOREM ClaimsAreSettled == Spec => []LastClaimWins
  <1>1. TypeInv /\ SettleInv => LastClaimWins
    <2> SUFFICES ASSUME TypeInv, SettleInv, NEW j \in Jobs, NEW p \in People, NEW r \in Rooms,
                        jobs[j].kind # "preview", Cleanly(j, p), <<p, r>> \notin moved[j], Claims(p, r) # {}
                 PROVE  p \in member[r] <=> Verdict(p, r)
      BY DEF LastClaimWins
    <2>1. Settled(p, r, Len(table), holds, member)
      BY DEF SettleInv, Good, Done, Cleanly
    <2>2. PICK m \in ClaimsOf(p, r, holds) :
              /\ \A k \in ClaimsOf(p, r, holds) : k <= m
              /\ Verdict(p, r) <=> table[m].subject \in holds[p]
              /\ m <= Len(table)
      BY VerdictIs DEF TypeInv
    <2>3. QED
      BY <2>1, <2>2 DEF Settled
  <1>2. Init => TypeInv /\ DueInv /\ OnceInv /\ SettleInv
    BY InitType, DueInit, OnceInit, SettleInit
  <1>3. TypeInv /\ DueInv /\ OnceInv /\ SettleInv /\ [Next]_vars => (TypeInv /\ DueInv /\ OnceInv /\ SettleInv)'
    BY TypeStep, DueNext, OnceNext, SettleNext
  <1>4. QED
    BY <1>1, <1>2, <1>3, PTL DEF Spec

-----------------------------------------------------------------------------
(***************************************************************************)
(* The preview.  As long as nothing went wrong for its user, whose record  *)
(* stood still, what it shows of a room the user did not enter or leave is *)
(* true (Truthful), and it shows everything that the bindings looked at so *)
(* far ask for (Looked): up to the one before the binding at work for the  *)
(* rooms of O, and up to the binding at work for the others.               *)
(***************************************************************************)
Tells(q, a, r) == \E x \in q.plan : x.act = a /\ x.room = r

Truthful(q, mv, H, M) ==
    \A x \in q.plan :
        /\ x.i \in DOMAIN table /\ x.room \in Targets(table[x.i])
        /\ <<q.who, x.room>> \notin mv =>
              /\ x.act = "join" => table[x.i].subject \in H[q.who] /\ q.who \notin M[x.room]
              /\ x.act = "kick" => /\ table[x.i].subject \notin H[q.who] /\ table[x.i].remove
                                   /\ q.who \in M[x.room]

Told(q, m, r, H, M) ==
    /\ table[m].subject \in H[q.who] /\ q.who \notin M[r] => Tells(q, "join", r)
    /\ table[m].subject \notin H[q.who] /\ table[m].remove /\ q.who \in M[r] => Tells(q, "kick", r)

ToldUpto(q, n, r, H, M) ==
    \A m \in DOMAIN table : m <= n /\ r \in Targets(table[m]) => Told(q, m, r, H, M)

Looked(q, O, mv, H, M) ==
    \A r \in Rooms : <<q.who, r>> \notin mv => ToldUpto(q, IF r \in O THEN q.i - 1 ELSE q.i, r, H, M)

\* A preview that has dealt with all rooms but those of O.
Ready(q, O, mv, ch, H, M) ==
    q.who \notin q.warned \cup ch => Truthful(q, mv, H, M) /\ Looked(q, O, mv, H, M)

Foresees(q, mv, ch, H, M) ==
    q.kind = "preview" =>
        /\ q.who \in People /\ q.done \subseteq {q.who} /\ (q.done # {} => q.stage = "end")
        /\ q.stage \in PassStage => q.stage \in {"expand", "members"}
        /\ q.who \notin q.warned \cup ch =>
              /\ Truthful(q, mv, H, M)
              /\ q.done # {} => \A r \in Rooms : <<q.who, r>> \notin mv => ToldUpto(q, Len(table), r, H, M)
              /\ q.out = "none" /\ q.stage \in PassStage => Looked(q, Open(q), mv, H, M)

ForeseeInv == \A j \in Jobs : Foresees(jobs[j], moved[j], changed[j], holds, member)

-----------------------------------------------------------------------------
\* All of it is about the user, the plan and the binding at work.
LEMMA ReadyAlike ==
    ASSUME NEW q, NEW d, NEW O, NEW mv, NEW ch, NEW H, NEW M, Ready(q, O, mv, ch, H, M),
           d.who = q.who, d.plan = q.plan, d.i = q.i, q.warned \subseteq d.warned
    PROVE  Ready(d, O, mv, ch, H, M)
  BY DEF Ready, Truthful, Looked, ToldUpto, Told, Tells

LEMMA ForeseeOnBinding ==
    ASSUME table \in Tables, NEW q \in Job, NEW p, NEW mv, NEW ch, NEW H, NEW M,
           Carried(q, p), OnBinding(q, p), q.i = 0 \/ q.i \in DOMAIN table,
           q.kind = "preview", q.who \in People, q.done = {}, Ready(q, {}, mv, ch, H, M)
    PROVE  Foresees(p, mv, ch, H, M)
  <1>1. DOMAIN table = 1..Len(table) /\ Len(table) \in Nat /\ q.i \in Nat
    BY TableType DEF Job
  <1>2. CASE p.stage = "expand" /\ p.i = q.i + 1 /\ Same(q, p)
    <2>1. Open(p) = Rooms /\ p.i - 1 = q.i
      BY <1>1, <1>2 DEF Open
    <2>2. p.who = q.who /\ p.plan = q.plan /\ p.warned = q.warned /\ p.done = {}
      BY <1>2 DEF Carried, Same
    <2>3. ASSUME p.who \notin p.warned \cup ch
          PROVE  Truthful(p, mv, H, M) /\ Looked(p, Rooms, mv, H, M)
      <3>1. Truthful(q, mv, H, M) /\ Looked(q, {}, mv, H, M)
        BY <2>2, <2>3 DEF Ready
      <3>2. Truthful(p, mv, H, M)
        BY <2>2, <3>1 DEF Truthful
      <3>3. Looked(p, Rooms, mv, H, M)
        BY <2>1, <2>2, <3>1 DEF Looked, ToldUpto, Told, Tells
      <3>4. QED
        BY <3>2, <3>3
    <2>4. QED
      BY <1>2, <2>1, <2>2, <2>3 DEF Foresees
  <1>3. CASE q.i >= Len(table) /\ p.done = q.done \cup {q.who} /\ Handover(q, p)
    <2>1. q.i = Len(table)
      BY <1>1, <1>3
    <2>2. p.stage = "end" /\ p.who = q.who /\ p.plan = q.plan /\ p.warned = q.warned /\ p.done = {p.who}
      BY <1>3 DEF Handover, Carried
    <2>3. ASSUME p.who \notin p.warned \cup ch
          PROVE  /\ Truthful(p, mv, H, M)
                 /\ \A r \in Rooms : <<p.who, r>> \notin mv => ToldUpto(p, Len(table), r, H, M)
      <3>1. Truthful(q, mv, H, M) /\ Looked(q, {}, mv, H, M)
        BY <2>2, <2>3 DEF Ready
      <3>2. Truthful(p, mv, H, M)
        BY <2>2, <3>1 DEF Truthful
      <3>3. ASSUME NEW r \in Rooms, <<p.who, r>> \notin mv PROVE ToldUpto(p, Len(table), r, H, M)
        BY <2>1, <2>2, <3>1, <3>3 DEF Looked, ToldUpto, Told, Tells
      <3>4. QED
        BY <3>2, <3>3
    <2>4. QED
      BY <2>2, <2>3 DEF Foresees, PassStage
  <1>4. QED
    BY <1>2, <1>3 DEF OnBinding

LEMMA ForeseeNextRoom ==
    ASSUME table \in Tables, NEW q \in Job, q.who \in People, NEW mv, NEW ch, NEW H, NEW M,
           q.i = 0 \/ q.i \in DOMAIN table, q.kind = "preview", q.done = {},
           Ready(q, q.near, mv, ch, H, M)
    PROVE  Foresees(NextRoom(q), mv, ch, H, M)
  <1> DEFINE p == NextRoom(q)
  <1>1. Carried(q, p) /\ p.res = "none" /\ OnRoom(q, p)
    BY NextRoomIs
  <1> SUFFICES Foresees(p, mv, ch, H, M)
    OBVIOUS
  <1> HIDE DEF p
  <1>2. CASE q.near # {} /\ p.i = q.i /\ p.stage = "members" /\ Same(q, p)
    <2>1. Open(p) = q.near
      BY <1>1, <1>2 DEF Open, Carried
    <2>2. p.who = q.who /\ p.plan = q.plan /\ p.warned = q.warned /\ p.done = {} /\ p.i = q.i
      BY <1>1, <1>2 DEF Carried, Same
    <2>3. Ready(p, q.near, mv, ch, H, M)
      BY <2>2, ReadyAlike
    <2>4. QED
      BY <1>2, <2>1, <2>2, <2>3 DEF Foresees, Ready
  <1>3. CASE q.near = {} /\ OnBinding(q, p)
    BY <1>1, <1>3, ForeseeOnBinding
  <1>4. QED
    BY <1>1, <1>2, <1>3 DEF OnRoom

LEMMA ForeseeNextBinding ==
    ASSUME table \in Tables, NEW q \in Job, q.who \in People, NEW mv, NEW ch, NEW H, NEW M,
           q.i = 0, q.kind = "preview", q.done = {},
           q.who \notin q.warned \cup ch => Truthful(q, mv, H, M)
    PROVE  Foresees(NextBinding(q), mv, ch, H, M)
  <1> DEFINE p == NextBinding(q)
  <1>1. Carried(q, p) /\ OnBinding(q, p)
    BY NextBindingIs
  <1>2. \A m \in DOMAIN table : ~(m <= 0)
    BY TableType
  <1>3. Ready(q, {}, mv, ch, H, M)
    BY <1>2 DEF Ready, Looked, ToldUpto
  <1> HIDE DEF p
  <1>4. Foresees(p, mv, ch, H, M)
    BY <1>1, <1>3, ForeseeOnBinding
  <1>5. QED
    BY <1>4 DEF p

\* A read before the pass, or an end of it.
LEMMA ForeseeRest ==
    ASSUME NEW q, NEW p, NEW mv, NEW ch, NEW H, NEW M, Foresees(q, mv, ch, H, M),
           p.kind = q.kind, p.who = q.who, p.plan = q.plan, p.done = q.done, p.warned = q.warned,
           \/ p.stage = q.stage /\ p.out # "none"
           \/ p.stage \notin PassStage /\ q.stage # "end"
    PROVE  Foresees(p, mv, ch, H, M)
  <1> SUFFICES ASSUME p.kind = "preview" PROVE Foresees(p, mv, ch, H, M)
    BY DEF Foresees
  <1>1. /\ p.who \in People /\ p.done \subseteq {p.who} /\ (p.done # {} => p.stage = "end")
        /\ p.stage \in PassStage => p.stage \in {"expand", "members"}
    BY DEF Foresees
  <1>2. ASSUME p.who \notin p.warned \cup ch
        PROVE  /\ Truthful(p, mv, H, M)
               /\ p.done # {} => \A r \in Rooms : <<p.who, r>> \notin mv => ToldUpto(p, Len(table), r, H, M)
    <2>1. /\ Truthful(q, mv, H, M)
          /\ q.done # {} => \A r \in Rooms : <<q.who, r>> \notin mv => ToldUpto(q, Len(table), r, H, M)
      BY <1>2 DEF Foresees
    <2>2. Truthful(p, mv, H, M)
      BY <2>1 DEF Truthful
    <2>3. ASSUME NEW r, ToldUpto(q, Len(table), r, H, M) PROVE ToldUpto(p, Len(table), r, H, M)
      BY <2>3 DEF ToldUpto, Told, Tells
    <2>4. QED
      BY <2>1, <2>2, <2>3
  <1>3. ~(p.out = "none" /\ p.stage \in PassStage)
    OBVIOUS
  <1>4. QED
    BY <1>1, <1>2, <1>3 DEF Foresees

-----------------------------------------------------------------------------
LEMMA OneForesees ==
    ASSUME TypeInv, NEW j \in Jobs, NEW p, Become(j, p), UNCHANGED table,
           Foresees(p, moved'[j], changed'[j], holds', member'),
           \A k \in Jobs \ {j} : Foresees(jobs[k], moved'[k], changed'[k], holds', member')
    PROVE  ForeseeInv'
  <1>1. jobs'[j] = p /\ \A k \in Jobs \ {j} : jobs'[k] = jobs[k]
    BY DEF TypeInv, Become
  <1>2. ASSUME NEW k \in Jobs PROVE Foresees(jobs'[k], moved'[k], changed'[k], holds', member')
    BY <1>1
  <1>3. ASSUME NEW k \in Jobs PROVE Foresees(jobs[k], moved[k], changed[k], holds, member)'
    BY <1>2 DEF Foresees, Truthful, Looked, ToldUpto, Told, Tells, Targets, Open
  <1>4. QED
    BY <1>3 DEF ForeseeInv

Foreseen(j) == \E p : Become(j, p) /\ Foresees(p, moved[j], changed[j], holds, member)

LEMMA QuietForesees ==
    ASSUME TypeInv, ForeseeInv, NEW j \in Jobs, Foreseen(j),
           UNCHANGED <<table, moved, changed, holds, member>>
    PROVE  ForeseeInv'
  <1>1. PICK p : Become(j, p) /\ Foresees(p, moved[j], changed[j], holds, member)
    BY DEF Foreseen
  <1>2. \A k \in Jobs \ {j} : Foresees(jobs[k], moved[k], changed[k], holds, member)
    BY DEF ForeseeInv
  <1>3. QED
    BY <1>1, <1>2, OneForesees

\* A job that is no preview stays none.
LEMMA ForeseenOther ==
    ASSUME NEW j \in Jobs, jobs[j].kind # "preview", NEW p, Become(j, p), p.kind = jobs[j].kind
    PROVE  Foreseen(j)
  BY DEF Foreseen, Foresees

LEMMA ForeseenAbort ==
    ASSUME TypeInv, ForeseeInv, NEW j \in Jobs, NEW o \in {"err", "cut"}, Abort(j, o)
    PROVE  Foreseen(j)
  <1> DEFINE q == jobs[j]
             p == [q EXCEPT !.out = o]
  <1>1. q \in Job /\ Foresees(q, moved[j], changed[j], holds, member)
    BY DEF TypeInv, ForeseeInv
  <1>2. Become(j, p)
    BY DEF Abort
  <1>3. Rest(q, p) /\ p.out # "none" /\ p.stage = q.stage
    BY <1>1, AbortIs
  <1> HIDE DEF p, q
  <1>4. QED
    BY <1>1, <1>2, <1>3, ForeseeRest DEF Foreseen, Rest

LEMMA ForeseenUser ==
    ASSUME TypeInv, ForeseeInv, NEW j \in Jobs, jobs[j].kind = "preview",
           GetUser(j) \/ GetUserGroups(j)
    PROVE  Foreseen(j)
  <1> DEFINE q == jobs[j]
  <1>1. q \in Job /\ Foresees(q, moved[j], changed[j], holds, member)
    BY DEF TypeInv, ForeseeInv
  <1>2. CASE GetUser(j)
    <2>1. PICK p : /\ Become(j, p) /\ Rest(q, p)
                   /\ \/ p.stage = q.stage /\ p.out = "err"
                      \/ p.stage = "groups" /\ p.out = "none"
      BY <1>2, GetUserIs
    <2>2. q.stage = "get_user"
      BY <1>2, GetUserIs
    <2>3. QED
      BY <1>1, <2>1, <2>2, ForeseeRest DEF Foreseen, Rest, PassStage
  <1>3. CASE GetUserGroups(j)
    <2>1. q.stage = "groups"
      BY <1>3, GroupsIs
    <2>2. ASSUME NEW p, Become(j, p), Carried(q, p), p.stage = "roles", p.who = q.who, p.done = q.done
          PROVE  Foreseen(j)
      BY <1>1, <2>1, <2>2, ForeseeRest DEF Foreseen, Carried, PassStage
    <2>3. QED
      BY <1>3, <2>2, GroupsIs, ForeseenAbort
  <1>4. QED
    BY <1>2, <1>3

LEMMA ForeseenRoles ==
    ASSUME TypeInv, ForeseeInv, NEW j \in Jobs, jobs[j].kind = "preview", GetUserRoles(j)
    PROVE  Foreseen(j)
  <1> DEFINE q == jobs[j]
  <1>1. q \in Job /\ q.stage = "roles" /\ Foresees(q, moved[j], changed[j], holds, member)
    BY RolesIs DEF TypeInv, ForeseeInv
  <1>2. ASSUME NEW d, RolesRead(q, d, holds), Become(j, [d EXCEPT !.stage = "bindings"])
        PROVE  Foreseen(j)
    <2>1. /\ d \in Job /\ d.who = q.who /\ d.kind = q.kind /\ d.done = q.done
          /\ d.plan = q.plan /\ d.warned = q.warned
      BY <1>2 DEF RolesRead, Alike
    <2> DEFINE p == [d EXCEPT !.stage = "bindings"]
    <2>2. Rest(d, p) /\ p.stage = "bindings"
      BY <2>1, GoesOnIs
    <2>3. Become(j, p)
      BY <1>2
    <2> HIDE DEF p
    <2>4. QED
      BY <1>1, <2>1, <2>2, <2>3, ForeseeRest DEF Foreseen, Rest, PassStage
  <1>3. QED
    BY <1>2, RolesIs, ForeseenAbort

LEMMA ForeseenBindings ==
    ASSUME TypeInv, ForeseeInv, NEW j \in Jobs, jobs[j].kind = "preview", ListBindings(j)
    PROVE  Foreseen(j)
  <1> DEFINE q == jobs[j]
  <1>1. /\ q \in Job /\ q.stage = "bindings" /\ q.i = 0 /\ table \in Tables
        /\ Foresees(q, moved[j], changed[j], holds, member)
    BY BindingsIs DEF TypeInv, ForeseeInv
  <1>2. CASE q.who \in People /\ Become(j, NextBinding(q))
    <2>1. /\ q.done = {}
          /\ q.who \notin q.warned \cup changed[j] => Truthful(q, moved[j], holds, member)
      BY <1>1 DEF Foresees
    <2>2. Foresees(NextBinding(q), moved[j], changed[j], holds, member)
      BY <1>1, <1>2, <2>1, ForeseeNextBinding
    <2>3. QED
      BY <1>2, <2>2 DEF Foreseen
  <1>3. ASSUME NEW p, Become(j, p), Rest(q, p), p.stage = q.stage, p.out = "err" PROVE Foreseen(j)
    BY <1>1, <1>3, ForeseeRest DEF Foreseen, Rest
  <1>4. QED
    BY <1>2, <1>3, BindingsIs

\* In the pass.
LEMMA PreviewAt ==
    ASSUME TypeInv, ForeseeInv, NEW j \in Jobs, jobs[j].kind = "preview",
           jobs[j].stage \in PassStage, jobs[j].out = "none"
    PROVE  LET q == jobs[j] IN
           /\ q \in Job /\ q.who \in People /\ q.i \in DOMAIN table /\ table \in Tables /\ q.done = {}
           /\ Ready(q, Open(q), moved[j], changed[j], holds, member)
  <1>1. Foresees(jobs[j], moved[j], changed[j], holds, member)
    BY DEF ForeseeInv
  <1>2. QED
    BY <1>1, PassIs DEF Foresees, Ready, PassStage

LEMMA ForeseenChildren ==
    ASSUME TypeInv, ForeseeInv, NEW j \in Jobs, jobs[j].kind = "preview", GetSpaceChildren(j)
    PROVE  Foreseen(j)
  <1> DEFINE q == jobs[j]
             mv == moved[j]
             ch == changed[j]
  <1>1. q.stage = "expand" /\ q.out = "none" /\ q.stage \in PassStage
    BY ChildrenIs DEF PassStage
  <1>2. /\ q \in Job /\ q.who \in People /\ q.i \in DOMAIN table /\ table \in Tables /\ q.done = {}
        /\ Ready(q, Rooms, mv, ch, holds, member)
    BY <1>1, PreviewAt DEF Open
  <1>3. PICK d : Expanded(q, d) /\ Become(j, NextRoom(d))
    BY ChildrenIs
  <1>4. /\ d \in Job /\ d.who = q.who /\ d.kind = q.kind /\ d.i = q.i /\ d.done = q.done
        /\ d.plan = q.plan /\ q.warned \subseteq d.warned
        /\ q.who \in d.warned \/ d.near = Targets(table[q.i])
    BY <1>3 DEF Expanded, Alike, Visits
  <1>5. Ready(d, d.near, mv, ch, holds, member)
    <2> SUFFICES ASSUME d.who \notin d.warned \cup ch
                 PROVE  Truthful(d, mv, holds, member) /\ Looked(d, d.near, mv, holds, member)
      BY DEF Ready
    <2>1. Ready(d, Rooms, mv, ch, holds, member)
      BY <1>2, <1>4, ReadyAlike
    <2>2. Truthful(d, mv, holds, member) /\ Looked(d, Rooms, mv, holds, member)
      BY <2>1 DEF Ready
    <2>3. ASSUME NEW r \in Rooms, r \notin d.near, ToldUpto(d, d.i - 1, r, holds, member)
          PROVE  ToldUpto(d, d.i, r, holds, member)
      <3>1. r \notin Targets(table[d.i])
        BY <1>4, <2>3
      <3>2. \A m \in DOMAIN table : m <= d.i /\ m # d.i => m <= d.i - 1
        BY <1>2, <1>4, TableType
      <3>3. QED
        BY <2>3, <3>1, <3>2 DEF ToldUpto
    <2>4. QED
      BY <2>2, <2>3 DEF Looked
  <1>6. Foresees(NextRoom(d), mv, ch, holds, member)
    BY <1>2, <1>4, <1>5, ForeseeNextRoom
  <1>7. QED
    BY <1>3, <1>6 DEF Foreseen

\* What a room adds to the plan, and that it leaves nothing of the binding out.
LEMMA ShownIs ==
    ASSUME NEW q, NEW t, NEW in
    PROVE  LET x == Shown(q, t, in) IN
           /\ x.room = t /\ x.i = q.i
           /\ x.act = "join" <=> Matches(q) /\ ~in
           /\ x.act = "kick" <=> ~Matches(q) /\ in /\ table[q.i].remove
  <1> DEFINE a == CASE Matches(q) /\ ~in -> "join"
                    [] ~Matches(q) /\ in /\ table[q.i].remove -> "kick"
                    [] Matches(q) /\ in -> "keep"
                    [] OTHER -> "none"
  <1>1. Shown(q, t, in) = [act |-> a, room |-> t, i |-> q.i]
    BY DEF Shown
  <1>2. /\ a = "join" <=> Matches(q) /\ ~in
        /\ a = "kick" <=> ~Matches(q) /\ in /\ table[q.i].remove
    <2>1. CASE Matches(q)
      BY <2>1
    <2>2. CASE ~Matches(q)
      BY <2>2
    <2>3. QED
      BY <2>1, <2>2
  <1> HIDE DEF a
  <1>3. QED
    BY <1>1, <1>2

LEMMA ForeseenMembers ==
    ASSUME TypeInv, DueInv, ForeseeInv, NEW j \in Jobs, jobs[j].kind = "preview", GetJoinedRoomMembers(j)
    PROVE  Foreseen(j)
  <1> DEFINE q == jobs[j]
             mv == moved[j]
             ch == changed[j]
  <1>1. q.stage = "members" /\ q.res = "none" /\ q.out = "none" /\ q.stage \in PassStage
    BY MembersIs DEF PassStage
  <1>2. /\ q \in Job /\ q.who \in People /\ q.i \in DOMAIN table /\ table \in Tables /\ q.done = {}
        /\ Ready(q, q.near, mv, ch, holds, member)
    BY <1>1, PreviewAt DEF Open
  <1>3. PICK t \in q.near : t \in Rooms /\ MembersRead(j, q, t, q.who \in member[t])
    BY MembersIs
  <1>4. t \in Targets(table[q.i])
    BY <1>1, <1>3, DueInPass DEF Turn
  <1>5. ASSUME NEW d, Met(q, d, t), q.warned \subseteq d.warned, Become(j, NextRoom(d)),
               Ready(d, d.near, mv, ch, holds, member)
        PROVE  Foreseen(j)
    <2>1. d \in Job /\ d.who = q.who /\ d.kind = q.kind /\ d.i = q.i /\ d.done = q.done
      BY <1>5 DEF Met, Alike
    <2>2. Foresees(NextRoom(d), mv, ch, holds, member)
      BY <1>2, <1>5, <2>1, ForeseeNextRoom
    <2>3. QED
      BY <1>5, <2>2 DEF Foreseen
  <1>6. ASSUME NEW d, Met(q, d, t), d.warned = q.warned \cup {q.who}, Become(j, NextRoom(d))
        PROVE  Foreseen(j)
    <2>1. Ready(d, d.near, mv, ch, holds, member)
      BY <1>6 DEF Met, Alike, Ready
    <2>2. QED
      BY <1>5, <1>6, <2>1
  <1>7. ASSUME NEW d, Met(q, d, t), d.warned = q.warned, Become(j, NextRoom(d)),
               d.plan = LET x == Shown(q, t, q.who \in member[t])
                        IN  IF x.act = "none" THEN q.plan ELSE q.plan \cup {x}
        PROVE  Foreseen(j)
    <2> DEFINE x == Shown(q, t, q.who \in member[t])
    <2>1. d.who = q.who /\ d.i = q.i /\ d.near = q.near \ {t}
      BY <1>7 DEF Met, Alike
    <2>2. SUFFICES ASSUME q.who \notin q.warned \cup ch
                   PROVE  Truthful(d, mv, holds, member) /\ Looked(d, d.near, mv, holds, member)
      BY <1>5, <1>7, <2>1 DEF Ready
    <2>3. Truthful(q, mv, holds, member) /\ Looked(q, q.near, mv, holds, member)
      BY <1>2, <2>2 DEF Ready
    <2>4. Matches(q) <=> table[q.i].subject \in holds[q.who]
      BY <1>1, <2>2, ThisClaim
    <2>5. /\ x.room = t /\ x.i = q.i
          /\ x.act = "join" <=> table[q.i].subject \in holds[q.who] /\ q.who \notin member[t]
          /\ x.act = "kick" <=> /\ table[q.i].subject \notin holds[q.who] /\ q.who \in member[t]
                                /\ table[q.i].remove
      <3> DEFINE in == q.who \in member[t]
      <3>1. /\ x.room = t /\ x.i = q.i
            /\ x.act = "join" <=> Matches(q) /\ ~in
            /\ x.act = "kick" <=> ~Matches(q) /\ in /\ table[q.i].remove
        BY ShownIs
      <3> HIDE DEF x
      <3>2. QED
        BY <2>4, <3>1
    <2>6. d.plan = IF x.act = "none" THEN q.plan ELSE q.plan \cup {x}
      BY <1>7
    <2> HIDE DEF x, q
    <2>7. Truthful(d, mv, holds, member)
      <3> SUFFICES ASSUME NEW y \in d.plan
                   PROVE  /\ y.i \in DOMAIN table /\ y.room \in Targets(table[y.i])
                          /\ <<q.who, y.room>> \notin mv =>
                                /\ y.act = "join" => /\ table[y.i].subject \in holds[q.who]
                                                     /\ q.who \notin member[y.room]
                                /\ y.act = "kick" => /\ table[y.i].subject \notin holds[q.who]
                                                     /\ table[y.i].remove /\ q.who \in member[y.room]
        BY <2>1 DEF Truthful
      <3>1. CASE y \in q.plan
        BY <2>3, <3>1 DEF Truthful
      <3>2. CASE y = x
        BY <1>2, <1>4, <2>5, <3>2 DEF q
      <3>3. QED
        BY <2>6, <3>1, <3>2
    <2>8. ASSUME NEW r, NEW m, Told(q, m, r, holds, member) PROVE Told(d, m, r, holds, member)
      BY <2>1, <2>6, <2>8 DEF Told, Tells
    <2>9. Told(d, q.i, t, holds, member)
      <3>1. /\ table[q.i].subject \in holds[q.who] /\ q.who \notin member[t] => x.act = "join" /\ x \in d.plan
            /\ table[q.i].subject \notin holds[q.who] /\ table[q.i].remove /\ q.who \in member[t]
                  => x.act = "kick" /\ x \in d.plan
        BY <2>5, <2>6
      <3>2. QED
        BY <2>1, <2>5, <3>1 DEF Told, Tells
    <2>10. Looked(d, d.near, mv, holds, member)
      <3> SUFFICES ASSUME NEW r \in Rooms, <<q.who, r>> \notin mv,
                          NEW m \in DOMAIN table, m <= IF r \in d.near THEN q.i - 1 ELSE q.i,
                          r \in Targets(table[m])
                   PROVE  Told(d, m, r, holds, member)
        BY <2>1 DEF Looked, ToldUpto
      <3>1. ToldUpto(q, IF r \in q.near THEN q.i - 1 ELSE q.i, r, holds, member)
        BY <2>3 DEF Looked
      <3>2. CASE r # t
        BY <2>1, <2>8, <3>1, <3>2 DEF ToldUpto
      <3>3. CASE r = t /\ m = q.i
        BY <2>9, <3>3
      <3>4. CASE r = t /\ m # q.i
        <4>1. m <= q.i - 1
          BY <1>2, <2>1, <3>4, TableType DEF q
        <4>2. QED
          BY <1>3, <2>8, <3>1, <3>4, <4>1 DEF ToldUpto, q
      <3>5. QED
        BY <3>2, <3>3, <3>4
    <2>11. QED
      BY <2>7, <2>10
  <1>8. QED
    BY <1>3, <1>6, <1>7 DEF MembersRead

-----------------------------------------------------------------------------
\* What others do goes on record, so the preview promises nothing about it.
LEMMA ForeseeElsewhere ==
    ASSUME TypeInv, ForeseeInv, NEW x \in People, NEW t \in Rooms, NEW j, NEW k \in Jobs, k # j,
           OnlyThere(x, t, member, member'), Moves(j, x, t) \/ UNCHANGED <<member, moved>>
    PROVE  Foresees(jobs[k], moved'[k], changed[k], holds, member')
  <1> DEFINE q == jobs[k]
  <1>1. Foresees(q, moved[k], changed[k], holds, member) /\ Shape(q) /\ q \in Job
    BY DEF ForeseeInv, TypeInv
  <1>2. CASE UNCHANGED <<member, moved>>
    BY <1>1, <1>2
  <1>3. CASE q.kind # "preview"
    BY <1>3 DEF Foresees
  <1>4. CASE q.kind = "preview" /\ Moves(j, x, t)
    <2>1. moved'[k] = moved[k] \cup {<<x, t>>}
      BY <1>4 DEF Moves, Running
    <2>2. q.who \in People /\ q.plan \subseteq Action
      BY <1>1, <1>4 DEF Foresees, Job
    <2> HIDE DEF q
    <2>3. \A r \in Rooms : <<q.who, r>> \notin moved'[k] =>
             <<q.who, r>> \notin moved[k] /\ (q.who \in member'[r] <=> q.who \in member[r])
      BY <2>1, <2>2 DEF OnlyThere
    <2>4. \A y \in q.plan : y.room \in Rooms
      BY <2>2 DEF Action
    <2>5. Truthful(q, moved[k], holds, member) => Truthful(q, moved'[k], holds, member')
      BY <2>3, <2>4 DEF Truthful
    <2>6. ASSUME NEW r \in Rooms, NEW n, <<q.who, r>> \notin moved'[k], ToldUpto(q, n, r, holds, member)
          PROVE  ToldUpto(q, n, r, holds, member')
      BY <2>3, <2>6 DEF ToldUpto, Told
    <2>7. Looked(q, Open(q), moved[k], holds, member) => Looked(q, Open(q), moved'[k], holds, member')
      BY <2>3, <2>6 DEF Looked
    <2>8. Foresees(q, moved[k], changed[k], holds, member)
      BY <1>1 DEF q
    <2>9. Foresees(q, moved'[k], changed[k], holds, member')
      BY <2>3, <2>5, <2>6, <2>7, <2>8 DEF Foresees
    <2>10. QED
      BY <2>9 DEF q
  <1>5. QED
    BY <1>2, <1>3, <1>4

LEMMA ForeseeCalled ==
    ASSUME TypeInv, ForeseeInv, NEW j \in Jobs, NEW a, NEW p,
           jobs[j].stage \in {"join", "kick"},
           Become(j, p), Called(jobs[j], p, a), UNCHANGED <<table, holds, changed>>,
           OnlyThere(jobs[j].who, jobs[j].room, member, member'),
           Moves(j, jobs[j].who, jobs[j].room) \/ UNCHANGED <<member, moved>>
    PROVE  ForeseeInv'
  <1>1. jobs[j].kind # "preview"
    BY DEF ForeseeInv, Foresees, PassStage
  <1>2. p.kind # "preview"
    BY <1>1 DEF Called, Alike
  <1>3. jobs[j].who \in People /\ jobs[j].room \in Rooms
    BY PassIs DEF TypeInv, Shape, PassStage
  <1>4. \A k \in Jobs \ {j} : Foresees(jobs[k], moved'[k], changed'[k], holds', member')
    BY <1>3, ForeseeElsewhere
  <1>5. Foresees(p, moved'[j], changed'[j], holds', member')
    BY <1>2 DEF Foresees
  <1>6. QED
    BY <1>4, <1>5, OneForesees

LEMMA ForeseeWorld == ASSUME TypeInv, ForeseeInv, World PROVE ForeseeInv'
  <1>1. UNCHANGED <<table, jobs>>
    BY DEF World, Walk, Regroup, SetStatus
  <1>2. SUFFICES ASSUME NEW k \in Jobs PROVE Foresees(jobs[k], moved'[k], changed'[k], holds', member')
    <2>1. \A k \in Jobs : Foresees(jobs[k], moved[k], changed[k], holds, member)'
      BY <1>1, <1>2 DEF Foresees, Truthful, Looked, ToldUpto, Told, Tells, Targets, Open
    <2>2. QED
      BY <2>1 DEF ForeseeInv
  <1>3. ASSUME NEW p \in People, NEW r \in Rooms, Walk(p, r)
        PROVE  Foresees(jobs[k], moved'[k], changed'[k], holds', member')
    <2>1. UNCHANGED <<holds, changed>> /\ Moves(None, p, r) /\ k # None
      BY <1>3, NoneAssumption DEF Walk
    <2>2. OnlyThere(p, r, member, member')
      BY <1>3 DEF Walk, OnlyThere, TypeInv
    <2>3. Foresees(jobs[k], moved'[k], changed[k], holds, member')
      BY <2>1, <2>2, ForeseeElsewhere
    <2>4. QED
      BY <2>1, <2>3
  <1>4. ASSUME NEW p \in People, UNCHANGED <<member, moved>>, Shifts(p),
               \A y \in People \ {p} : holds'[y] = holds[y]
        PROVE  Foresees(jobs[k], moved'[k], changed'[k], holds', member')
    <2> DEFINE q == jobs[k]
    <2>1. Foresees(q, moved[k], changed[k], holds, member) /\ Shape(q) /\ q \in Job
      BY DEF ForeseeInv, TypeInv
    <2>2. CASE q.kind # "preview"
      BY <2>2 DEF Foresees
    <2>3. CASE q.kind = "preview"
      <3>1. changed'[k] = changed[k] \cup {p} /\ q.who \in People
        BY <1>4, <2>1, <2>3 DEF Shifts, Running, Foresees
      <3>2. CASE q.who = p
        BY <2>1, <3>1, <3>2 DEF Foresees
      <3>3. CASE q.who # p
        <4>1. holds'[q.who] = holds[q.who]
          BY <1>4, <3>1, <3>3
        <4> HIDE DEF q
        <4>2. Foresees(q, moved[k], changed'[k], holds', member)
          BY <2>1, <3>1, <4>1 DEF Foresees, Truthful, Looked, ToldUpto, Told
        <4>3. QED
          BY <1>4, <4>2 DEF q
      <3>4. QED
        BY <3>2, <3>3
    <2>4. QED
      BY <2>2, <2>3
  <1>5. ASSUME NEW p \in People, NEW s \in Subjects, Regroup(p, s)
        PROVE  Foresees(jobs[k], moved'[k], changed'[k], holds', member')
    BY <1>4, <1>5 DEF Regroup, TypeInv
  <1>6. ASSUME NEW p \in People, NEW s \in {"enabled", "disabled", "gone"}, SetStatus(p, s)
        PROVE  Foresees(jobs[k], moved'[k], changed'[k], holds', member')
    BY <1>4, <1>6 DEF SetStatus
  <1>7. QED
    BY <1>3, <1>5, <1>6 DEF World

LEMMA ForeseeMoves ==
    ASSUME TypeInv, ForeseeInv, NEW j \in Jobs, ForceJoinUser(j) \/ KickUser(j) PROVE ForeseeInv'
  <1> DEFINE q == jobs[j]
  <1>1. /\ q.stage \in {"join", "kick"} /\ q.stage \in PassStage
        /\ \E a, p : /\ Calls(j, a) /\ Become(j, p) /\ Called(q, p, a)
                     /\ \/ member' = [member EXCEPT ![q.room] = @ \cup {q.who}] /\ Moves(j, q.who, q.room)
                        \/ member' = [member EXCEPT ![q.room] = @ \ {q.who}] /\ Moves(j, q.who, q.room)
                        \/ UNCHANGED <<member, moved>>
    BY JoinIs, KickIs DEF PassStage
  <1>2. PICK a, p : /\ Calls(j, a) /\ Become(j, p) /\ Called(q, p, a)
                    /\ \/ member' = [member EXCEPT ![q.room] = @ \cup {q.who}] /\ Moves(j, q.who, q.room)
                       \/ member' = [member EXCEPT ![q.room] = @ \ {q.who}] /\ Moves(j, q.who, q.room)
                       \/ UNCHANGED <<member, moved>>
    BY <1>1
  <1>3. UNCHANGED <<table, holds, changed>>
    BY <1>2 DEF Calls
  <1>4. q.who \in People /\ q.room \in Rooms /\ member \in [Rooms -> SUBSET People]
    BY <1>1, PassIs DEF TypeInv, Shape
  <1> HIDE DEF q
  <1>5. OnlyThere(q.who, q.room, member, member')
    BY <1>2, <1>4 DEF OnlyThere
  <1>6. QED
    BY <1>1, <1>2, <1>3, <1>5, ForeseeCalled DEF q

\* Only reads befall a preview, and only some of them.
LEMMA ForeseenRead ==
    ASSUME TypeInv, DueInv, ForeseeInv, NEW j \in Jobs, Read(j) PROVE Foreseen(j)
  <1>1. CASE jobs[j].kind # "preview"
    <2>1. PICK p : Become(j, p) /\ p.kind = jobs[j].kind
      BY ReadKeeps DEF Keeps
    <2>2. QED
      BY <1>1, <2>1, ForeseenOther
  <1>2. CASE jobs[j].kind = "preview"
    <2>1. ~CountUsers(j) /\ ~SearchUsers(j)
      BY <1>2, CountIs, SearchIs
    <2>2. ~GetPowerLevels(j)
      <3> SUFFICES ASSUME GetPowerLevels(j) PROVE FALSE
        OBVIOUS
      <3>1. jobs[j].stage = "levels"
        BY LevelsIs
      <3>2. Foresees(jobs[j], moved[j], changed[j], holds, member)
        BY DEF ForeseeInv
      <3>3. QED
        BY <1>2, <3>1, <3>2 DEF Foresees, PassStage
    <2>3. QED
      BY <1>2, <2>1, <2>2, ForeseenUser, ForeseenRoles, ForeseenBindings, ForeseenChildren,
         ForeseenMembers DEF Read
  <1>3. QED
    BY <1>1, <1>2

LEMMA ForeseenEntered ==
    ASSUME TypeInv, ForeseeInv, NEW j \in Jobs, jobs[j].stage \in {"join", "kick", "power"},
           NEW d, Entered(jobs[j], d), Become(j, d) \/ Become(j, NextRoom(d))
    PROVE  Foreseen(j)
  <1>1. jobs[j].kind # "preview"
    BY DEF ForeseeInv, Foresees, PassStage
  <1>2. d \in Job /\ d.who \in People /\ d.kind = jobs[j].kind /\ table \in Tables
    BY PassIs DEF Entered, Alike, PassStage, TypeInv, Shape, UserStage
  <1>3. NextRoom(d).kind = jobs[j].kind
    BY <1>2, NextRoomIs DEF Carried
  <1>4. QED
    BY <1>1, <1>2, <1>3, ForeseenOther

LEMMA ForeseeNext == ASSUME TypeInv, DueInv, ForeseeInv, [Next]_vars PROVE ForeseeInv'
  <1>1. ASSUME NEW j \in Jobs, Start(j) PROVE ForeseeInv'
    <2>1. UNCHANGED <<table, holds, member, moved, changed>>
      BY <1>1 DEF Start, upstream, history
    <2>2. PICK q : /\ Become(j, q) /\ q.done = {} /\ q.plan = {} /\ q.stage \in {"get_user", "count"}
                   /\ q.kind # "all" => q.who \in People
      BY <1>1, StartIs
    <2>3. Foresees(q, moved[j], changed[j], holds, member)
      BY <2>2 DEF Foresees, Truthful, PassStage
    <2>4. QED
      BY <2>1, <2>2, <2>3, QuietForesees DEF Foreseen
  <1>2. ASSUME NEW j \in Jobs, Cut(j) PROVE ForeseeInv'
    BY <1>2, ForeseenAbort, QuietForesees DEF Cut, upstream, history
  <1>3. ASSUME NEW j \in Jobs, Read(j) PROVE ForeseeInv'
    <2>1. UNCHANGED <<table, holds, member, moved, changed>>
      BY <1>3, ReadKeeps DEF Quiet, upstream, history
    <2>2. QED
      BY <1>3, <2>1, ForeseenRead, QuietForesees
  <1>4. ASSUME NEW j \in Jobs, Audit(j) PROVE ForeseeInv'
    <2>1. jobs[j].stage \in {"join", "kick"} /\ UNCHANGED <<table, holds, member, moved, changed>>
      BY <1>4, AuditIs
    <2>2. PICK d : Entered(jobs[j], d) /\ AfterIs(j, jobs[j], d)
      BY <1>4, AuditIs
    <2>3. QED
      BY <2>1, <2>2, ForeseenEntered, QuietForesees DEF AfterIs
  <1>5. ASSUME NEW j \in Jobs, PutPowerLevels(j) PROVE ForeseeInv'
    <2>1. PICK a, d : Calls(j, a) /\ Entered(jobs[j], d) /\ Become(j, NextRoom(d))
      BY <1>5, PowerIs
    <2>2. jobs[j].stage = "power" /\ UNCHANGED <<member, moved>>
      BY <1>5, PowerIs
    <2>3. UNCHANGED <<table, holds, changed>>
      BY <2>1 DEF Calls
    <2>4. QED
      BY <2>1, <2>2, <2>3, ForeseenEntered, QuietForesees
  <1>6. CASE UNCHANGED vars
    <2>1. UNCHANGED <<table, jobs, holds, member, moved, changed>>
      BY <1>6 DEF vars, upstream, history
    <2>2. \A k \in Jobs : Foresees(jobs[k], moved[k], changed[k], holds, member)'
      BY <2>1 DEF ForeseeInv, Foresees, Truthful, Looked, ToldUpto, Told, Tells, Targets, Open
    <2>3. QED
      BY <2>2 DEF ForeseeInv
  <1>7. QED
    BY <1>1, <1>2, <1>3, <1>4, <1>5, <1>6, ForeseeMoves, ForeseeWorld DEF Next, Program, Step

LEMMA ForeseeInit == Init => ForeseeInv
  <1> SUFFICES ASSUME Init, NEW j \in Jobs
               PROVE  Foresees(jobs[j], moved[j], changed[j], holds, member)
    BY DEF ForeseeInv
  <1>1. jobs[j] = Idle
    BY DEF Init
  <1>2. QED
    BY <1>1 DEF Foresees, Idle

\* What the plan of a finished preview says of a room, and why it is the truth.
LEMMA PlanIs ==
    ASSUME TypeInv, ForeseeInv, NEW j \in Jobs, NEW p \in People, NEW r \in Rooms,
           jobs[j].kind = "preview", Cleanly(j, p), <<p, r>> \notin moved[j]
    PROVE  LET C == ClaimsOf(p, r, holds)
               says(m) == table[m].subject \in holds[p]
           IN  /\ Shows(j, "join", r) => p \notin member[r] /\ \E m \in C : says(m)
               /\ Shows(j, "kick", r) => p \in member[r] /\ \E m \in C : ~says(m)
               /\ \A m \in C : /\ says(m) /\ p \notin member[r] => Shows(j, "join", r)
                               /\ ~says(m) /\ p \in member[r] => Shows(j, "kick", r)
  <1> DEFINE q == jobs[j]
  <1>1. /\ p = q.who /\ q.done # {} /\ p \notin q.warned \cup changed[j]
        /\ Foresees(q, moved[j], changed[j], holds, member)
    BY DEF ForeseeInv, Foresees, Cleanly
  <1>2. Truthful(q, moved[j], holds, member) /\ ToldUpto(q, Len(table), r, holds, member)
    BY <1>1 DEF Foresees
  <1>3. \A m \in DOMAIN table : m <= Len(table)
    BY TableType DEF TypeInv
  <1>4. \A m \in DOMAIN table :
           m \in ClaimsOf(p, r, holds) <=>
              r \in Targets(table[m]) /\ (table[m].subject \in holds[p] \/ table[m].remove)
    BY DEF ClaimsOf, Targets
  <1>5. \A m \in ClaimsOf(p, r, holds) : m \in DOMAIN table
    BY DEF ClaimsOf
  <1>6. Shows(j, "join", r) => p \notin member[r] /\ \E m \in ClaimsOf(p, r, holds) : table[m].subject \in holds[p]
    BY <1>1, <1>2, <1>4 DEF Shows, Truthful
  <1>7. Shows(j, "kick", r) => p \in member[r] /\ \E m \in ClaimsOf(p, r, holds) : table[m].subject \notin holds[p]
    BY <1>1, <1>2, <1>4 DEF Shows, Truthful
  <1>8. ASSUME NEW m \in ClaimsOf(p, r, holds)
        PROVE  /\ table[m].subject \in holds[p] /\ p \notin member[r] => Shows(j, "join", r)
               /\ table[m].subject \notin holds[p] /\ p \in member[r] => Shows(j, "kick", r)
    <2>1. Told(q, m, r, holds, member)
      BY <1>2, <1>3, <1>4, <1>5 DEF ToldUpto
    <2>2. QED
      BY <1>1, <1>4, <1>5, <2>1 DEF Told, Tells, Shows
  <1>9. QED
    BY <1>6, <1>7, <1>8

\* A preview that met no error foretells what a run would make of every room:
\* where no two claims contradict each other it shows the join or the kick the
\* last claim asks for and no other (preview_membership looks at every target of
\* every binding with the groups and roles reconcile_membership would use).
THEOREM PreviewsAgree == Spec => []PreviewAgrees
  <1>1. TypeInv /\ ForeseeInv => PreviewAgrees
    <2> SUFFICES ASSUME TypeInv, ForeseeInv, NEW j \in Jobs, NEW p \in People, NEW r \in Rooms,
                        jobs[j].kind = "preview", Cleanly(j, p), <<p, r>> \notin moved[j],
                        ~Contested(p, r)
                 PROVE  Foretold(j, p, r) <=> IF Claims(p, r) = {} THEN p \in member[r] ELSE Verdict(p, r)
      BY DEF PreviewAgrees
    <2> DEFINE C == ClaimsOf(p, r, holds)
               says(m) == table[m].subject \in holds[p]
    <2>1. /\ Shows(j, "join", r) => p \notin member[r] /\ \E m \in C : says(m)
          /\ Shows(j, "kick", r) => p \in member[r] /\ \E m \in C : ~says(m)
          /\ \A m \in C : /\ says(m) /\ p \notin member[r] => Shows(j, "join", r)
                          /\ ~says(m) /\ p \in member[r] => Shows(j, "kick", r)
      BY PlanIs
    <2>2. C = Claims(p, r)
      BY DEF ClaimsOf, Claims
    <2>3. \A m, n \in C : says(m) <=> says(n)
      BY <2>2 DEF Contested, Says
    <2>4. Claims(p, r) # {} => \E m \in C : Verdict(p, r) <=> says(m)
      BY VerdictIs DEF TypeInv
    <2> HIDE DEF C, says
    <2>5. CASE Claims(p, r) = {}
      BY <2>1, <2>2, <2>5 DEF Foretold
    <2>6. CASE Claims(p, r) # {}
      <3>1. PICK m \in C : Verdict(p, r) <=> says(m)
        BY <2>4, <2>6
      <3>2. \A n \in C : says(n) <=> Verdict(p, r)
        BY <2>3, <3>1
      <3>3. QED
        BY <2>1, <2>6, <3>1, <3>2 DEF Foretold
    <2>7. QED
      BY <2>5, <2>6
  <1>2. Init => TypeInv /\ DueInv /\ ForeseeInv
    BY InitType, DueInit, ForeseeInit
  <1>3. TypeInv /\ DueInv /\ ForeseeInv /\ [Next]_vars => (TypeInv /\ DueInv /\ ForeseeInv)'
    BY TypeStep, DueNext, ForeseeNext
  <1>4. QED
    BY <1>1, <1>2, <1>3, PTL DEF Spec

-----------------------------------------------------------------------------
(***************************************************************************)
(* A bulk run reaches everybody.  Every user enabled all along has been    *)
(* processed or warned about, waits in the queue, or, as long as there is  *)
(* a page to come, stands behind the first q.first of the listing.  The    *)
(* listing keeps its places, for no user is deleted here.                  *)
(***************************************************************************)
Left(q, D, more, ch, K) ==
    \A n \in DOMAIN Order :
        Order[n] \notin ch /\ K[Order[n]] = "enabled" =>
            \/ Order[n] \in D \cup q.warned
            \/ \E m \in DOMAIN q.queue : q.queue[m] = Order[n]
            \/ more /\ Rank(K, n) > q.first

Covers(q, ch, K) ==
    q.kind = "all" =>
        /\ q.out = "none" /\ q.stage \in {"count", "bindings"} => q.first = 0
        /\ q.out = "none" /\ q.stage = "page" => q.queue = <<>> /\ Left(q, q.done, TRUE, ch, K)
        /\ q.out = "none" /\ q.stage \in UserStage => Left(q, q.done \cup {q.who}, q.full, ch, K)
        /\ q.out \in {"ok", "warned"} => q.queue = <<>> /\ Left(q, q.done, FALSE, ch, K)

CoverInv == \A j \in Jobs : Covers(jobs[j], changed[j], kc)

LEMMA LeftAlike ==
    ASSUME NEW q, NEW d, NEW D, NEW more, NEW ch, NEW K, Left(q, D, more, ch, K),
           d.queue = q.queue, d.first = q.first, q.warned \subseteq d.warned
    PROVE  Left(d, D, more, ch, K)
  BY DEF Left

\* On to the next user, the next page or the end.
LEMMA CoverHandover ==
    ASSUME NEW q \in Job, NEW p \in Job, NEW ch, NEW K, q.kind = "all", p.kind = q.kind, q.out = "none",
           p.first = q.first, p.full = q.full, p.warned = q.warned, Handover(q, p),
           Left(q, p.done, q.full, ch, K)
    PROVE  Covers(p, ch, K)
  <1>1. CASE /\ q.queue # <<>> /\ p.stage = "groups" /\ p.out = "none"
             /\ p.who = Head(q.queue) /\ p.queue = Tail(q.queue)
    <2>1. /\ \A i \in DOMAIN q.queue : i = 1 \/ (i - 1 \in DOMAIN Tail(q.queue) /\ Tail(q.queue)[i - 1] = q.queue[i])
          /\ Head(q.queue) = q.queue[1]
      <3>1. q.queue \in Seq(People)
        BY DEF Job
      <3>2. /\ Len(Tail(q.queue)) = Len(q.queue) - 1 /\ Len(q.queue) \in Nat
            /\ \A i \in 1..Len(Tail(q.queue)) : Tail(q.queue)[i] = q.queue[i + 1]
            /\ DOMAIN q.queue = 1..Len(q.queue) /\ DOMAIN Tail(q.queue) = 1..Len(Tail(q.queue))
            /\ Head(q.queue) = q.queue[1]
        BY <1>1, <3>1, HeadTailProperties
      <3>3. ASSUME NEW i \in DOMAIN q.queue, i # 1
            PROVE  i - 1 \in DOMAIN Tail(q.queue) /\ Tail(q.queue)[i - 1] = q.queue[i]
        <4>1. i - 1 \in 1..Len(Tail(q.queue)) /\ (i - 1) + 1 = i
          BY <3>2, <3>3
        <4>2. QED
          BY <3>2, <4>1
      <3>4. QED
        BY <3>2, <3>3
    <2>2. ASSUME NEW n \in DOMAIN Order, Order[n] \notin ch, K[Order[n]] = "enabled"
          PROVE  \/ Order[n] \in p.done \cup {p.who} \cup p.warned
                 \/ \E m \in DOMAIN p.queue : p.queue[m] = Order[n]
                 \/ p.full /\ Rank(K, n) > p.first
      <3>1. CASE \E m \in DOMAIN q.queue : q.queue[m] = Order[n]
        BY <1>1, <2>1, <3>1
      <3>2. CASE Order[n] \in p.done \cup q.warned \/ (q.full /\ Rank(K, n) > q.first)
        BY <3>2
      <3>3. QED
        BY <2>2, <3>1, <3>2 DEF Left
    <2>3. Left(p, p.done \cup {p.who}, p.full, ch, K)
      BY <2>2 DEF Left
    <2>4. QED
      BY <1>1, <2>3 DEF Covers
  <1>2. CASE q.queue = <<>> /\ q.full /\ p.stage = "page" /\ p.out = "none" /\ p.queue = <<>>
    <2>1. Left(p, p.done, TRUE, ch, K)
      BY <1>2, LeftAlike
    <2>2. QED
      BY <1>2, <2>1 DEF Covers, UserStage, PassStage
  <1>3. CASE q.queue = <<>> /\ ~q.full /\ p.out \in {"ok", "warned"} /\ p.queue = <<>>
    <2>1. Left(q, p.done, FALSE, ch, K)
      BY <1>3 DEF Left
    <2>2. Left(p, p.done, FALSE, ch, K)
      BY <1>3, <2>1, LeftAlike
    <2>3. QED
      BY <1>3, <2>2 DEF Covers
  <1>4. QED
    BY <1>1, <1>2, <1>3 DEF Handover

LEMMA CoverOnBinding ==
    ASSUME NEW q \in Job, NEW p, NEW ch, NEW K, q.kind = "all", q.out = "none",
           Left(q, q.done \cup {q.who}, q.full, ch, K), Carried(q, p), OnBinding(q, p)
    PROVE  Covers(p, ch, K)
  <1>1. p \in Job /\ p.kind = q.kind /\ p.first = q.first /\ p.full = q.full /\ p.warned = q.warned
    BY DEF Carried
  <1>2. CASE p.stage = "expand" /\ Same(q, p)
    <2>1. Left(p, p.done \cup {p.who}, p.full, ch, K) /\ p.out = "none"
      BY <1>1, <1>2, LeftAlike DEF Same
    <2>2. QED
      BY <1>2, <2>1 DEF Covers
  <1>3. CASE p.done = q.done \cup {q.who} /\ Handover(q, p)
    BY <1>1, <1>3, CoverHandover
  <1>4. QED
    BY <1>2, <1>3 DEF OnBinding

LEMMA CoverNextBinding ==
    ASSUME table \in Tables, NEW q \in Job, q.who \in People, NEW ch, NEW K, q.kind = "all",
           q.out = "none", Left(q, q.done \cup {q.who}, q.full, ch, K)
    PROVE  Covers(NextBinding(q), ch, K)
  <1> DEFINE p == NextBinding(q)
  <1>1. Carried(q, p) /\ OnBinding(q, p)
    BY NextBindingIs
  <1> HIDE DEF p
  <1>2. Covers(p, ch, K)
    BY <1>1, CoverOnBinding
  <1>3. QED
    BY <1>2 DEF p

LEMMA CoverNextRoom ==
    ASSUME table \in Tables, NEW q \in Job, q.who \in People, NEW ch, NEW K, q.kind = "all",
           q.out = "none", Left(q, q.done \cup {q.who}, q.full, ch, K)
    PROVE  Covers(NextRoom(q), ch, K)
  <1> DEFINE p == NextRoom(q)
  <1>1. Carried(q, p) /\ OnRoom(q, p)
    BY NextRoomIs
  <1> SUFFICES Covers(p, ch, K)
    OBVIOUS
  <1> HIDE DEF p
  <1>2. CASE p.stage = "members" /\ Same(q, p)
    <2>1. Left(p, p.done \cup {p.who}, p.full, ch, K) /\ p.out = "none"
      BY <1>1, <1>2, LeftAlike DEF Same, Carried
    <2>2. QED
      BY <1>2, <2>1 DEF Covers
  <1>3. QED
    BY <1>1, <1>2, CoverOnBinding DEF OnRoom

LEMMA CoverNextUser ==
    ASSUME NEW q \in Job, NEW ch, NEW K, q.kind = "all", q.out = "none", Left(q, q.done, q.full, ch, K)
    PROVE  Covers(NextUser(q), ch, K)
  <1> DEFINE p == NextUser(q)
  <1>1. Carried(q, p) /\ p.done = q.done /\ Handover(q, p)
    BY NextUserIs
  <1> HIDE DEF p
  <1>2. Covers(p, ch, K)
    BY <1>1, CoverHandover DEF Carried
  <1>3. QED
    BY <1>2 DEF p

-----------------------------------------------------------------------------
LEMMA OneCover ==
    ASSUME TypeInv, CoverInv, NEW j \in Jobs, NEW p, Become(j, p), UNCHANGED <<kc, changed>>,
           Covers(p, changed[j], kc)
    PROVE  CoverInv'
  <1>1. jobs'[j] = p /\ \A k \in Jobs \ {j} : jobs'[k] = jobs[k]
    BY DEF TypeInv, Become
  <1>2. ASSUME NEW k \in Jobs PROVE Covers(jobs'[k], changed[k], kc)
    BY <1>1 DEF CoverInv
  <1>3. QED
    BY <1>2 DEF CoverInv

Covered(j) == \E p : Become(j, p) /\ Covers(p, changed[j], kc)

LEMMA CoverOther ==
    ASSUME NEW j \in Jobs, jobs[j].kind # "all", NEW p, Become(j, p), p.kind = jobs[j].kind
    PROVE  Covered(j)
  BY DEF Covered, Covers

LEMMA CoverAbort ==
    ASSUME TypeInv, NEW j \in Jobs, NEW o \in {"err", "cut"}, Abort(j, o)
    PROVE  Covered(j)
  <1> DEFINE p == [jobs[j] EXCEPT !.out = o]
  <1>1. Become(j, p)
    BY DEF Abort
  <1>2. p.out \in {"err", "cut"}
    BY DEF TypeInv, Job
  <1> HIDE DEF p
  <1>3. Covers(p, changed[j], kc)
    BY <1>2 DEF Covers
  <1>4. QED
    BY <1>1, <1>3 DEF Covered

\* The count and the bindings, before the first page.
LEMMA CoverFirst ==
    ASSUME TypeInv, OnceInv, CoverInv, NEW j \in Jobs, jobs[j].kind = "all",
           CountUsers(j) \/ ListBindings(j)
    PROVE  Covered(j)
  <1> DEFINE q == jobs[j]
  <1>1. /\ q \in Job /\ q.out = "none" /\ q.stage \in {"count", "bindings"}
        /\ Covers(q, changed[j], kc) /\ Once(q, kc)
    BY CountIs, BindingsIs DEF TypeInv, CoverInv, OnceInv
  <1>2. q.first = 0 /\ q.queue = <<>>
    BY <1>1 DEF Covers, Once
  <1>3. ASSUME NEW p, Become(j, p), Rest(q, p),
               p.out = "err" \/ (p.stage \in {"bindings", "page"} /\ p.out = "none")
        PROVE  Covered(j)
    <2>1. p.first = 0 /\ p.queue = <<>>
      BY <1>2, <1>3 DEF Rest
    <2>2. Left(p, p.done, TRUE, changed[j], kc)
      <3> SUFFICES ASSUME NEW n \in DOMAIN Order, kc[Order[n]] = "enabled" PROVE Rank(kc, n) > 0
        BY <2>1 DEF Left
      <3>1. Order[n] \in PresentIn(kc)
        BY DEF PresentIn, People
      <3>2. QED
        BY <3>1, ListingIs
    <2>3. QED
      BY <1>3, <2>1, <2>2 DEF Covered, Covers, UserStage, PassStage
  <1>4. QED
    BY <1>3, CountIs, BindingsIs

LEMMA CoverGroups ==
    ASSUME TypeInv, CoverInv, NEW j \in Jobs, jobs[j].kind = "all", GetUserGroups(j)
    PROVE  Covered(j)
  <1> DEFINE q == jobs[j]
  <1>1. /\ q \in Job /\ q.out = "none" /\ q.stage = "groups" /\ q.who \in People
        /\ Left(q, q.done \cup {q.who}, q.full, changed[j], kc)
    BY GroupsIs DEF TypeInv, CoverInv, Covers, UserStage
  <1>2. CASE Become(j, NextUser(Warned(q)))
    <2> DEFINE d == Warned(q)
    <2>1. /\ d \in Job /\ d.kind = "all" /\ d.queue = q.queue /\ d.done = q.done /\ d.first = q.first
          /\ d.full = q.full /\ d.out = "none" /\ d.warned = q.warned \cup {q.who}
      BY <1>1, WarnedIs
    <2> HIDE DEF d, q
    <2>2. Left(d, d.done, d.full, changed[j], kc)
      BY <1>1, <2>1 DEF Left
    <2>3. Covers(NextUser(d), changed[j], kc)
      BY <2>1, <2>2, CoverNextUser
    <2>4. QED
      BY <1>2, <2>3 DEF Covered, d
  <1>3. ASSUME NEW p, Become(j, p), Carried(q, p), p.stage = "roles", p.who = q.who, p.out = "none",
               p.queue = q.queue, p.done = q.done
        PROVE  Covered(j)
    <2>1. Left(p, p.done \cup {p.who}, p.full, changed[j], kc)
      BY <1>1, <1>3, LeftAlike DEF Carried
    <2>2. QED
      BY <1>3, <2>1 DEF Covered, Covers
  <1>4. QED
    BY <1>2, <1>3, GroupsIs, CoverAbort

LEMMA CoverRoles ==
    ASSUME TypeInv, CoverInv, NEW j \in Jobs, jobs[j].kind = "all", GetUserRoles(j)
    PROVE  Covered(j)
  <1> DEFINE q == jobs[j]
  <1>1. /\ q \in Job /\ q.out = "none" /\ q.stage = "roles" /\ q.who \in People /\ table \in Tables
        /\ Left(q, q.done \cup {q.who}, q.full, changed[j], kc)
    BY RolesIs DEF TypeInv, CoverInv, Covers, UserStage
  <1>2. ASSUME NEW d, RolesRead(q, d, holds), Become(j, NextBinding(d)) PROVE Covered(j)
    <2>1. /\ d \in Job /\ d.who = q.who /\ d.kind = "all" /\ d.out = "none"
          /\ Left(d, d.done \cup {d.who}, d.full, changed[j], kc)
      BY <1>1, <1>2, LeftAlike DEF RolesRead, Alike
    <2>2. Covers(NextBinding(d), changed[j], kc)
      BY <1>1, <2>1, CoverNextBinding
    <2>3. QED
      BY <1>2, <2>2 DEF Covered
  <1>3. QED
    BY <1>2, RolesIs, CoverAbort

\* Whoever is listed further back is on the page or behind it.
LEMMA CoverSearch ==
    ASSUME TypeInv, CoverInv, NEW j \in Jobs, SearchUsers(j)
    PROVE  Covered(j)
  <1> DEFINE q == jobs[j]
             ch == changed[j]
  <1>1. /\ q \in Job /\ q.out = "none" /\ q.stage = "page" /\ q.kind = "all" /\ q.first \in Nat
        /\ q.queue = <<>> /\ Left(q, q.done, TRUE, ch, kc)
    BY SearchIs DEF TypeInv, CoverInv, Covers, Job
  <1>2. ASSUME NEW d, PageRead(q, d, kc), Become(j, NextUser(d)) PROVE Covered(j)
    <2> DEFINE l == Len(PageAt(kc, q.first))
    <2>1. /\ d \in Job /\ d.kind = "all" /\ d.done = q.done /\ d.queue = Batch(kc, q.first)
          /\ d.first = q.first + l /\ d.full = (l = PageSize) /\ d.warned = q.warned /\ d.out = "none"
      BY <1>1, <1>2 DEF PageRead
    <2>2. l \in Nat /\ (l # PageSize => q.first + l >= Len(Listing(kc)))
      BY <1>1, PageAtIs, NumbersAssumption
    <2>3. \A n \in DOMAIN Order :
             /\ kc[Order[n]] = "enabled" /\ Order[n] \in PresentIn(kc)
             /\ Rank(kc, n) \in (q.first + 1)..(q.first + l)
             => \E m \in DOMAIN d.queue : d.queue[m] = Order[n]
      BY <1>1, <2>1, BatchIs
    <2> HIDE DEF l, q
    <2>4. ASSUME NEW n \in DOMAIN Order, Order[n] \notin ch, kc[Order[n]] = "enabled",
                 Order[n] \notin d.done \cup d.warned, \A m \in DOMAIN d.queue : d.queue[m] # Order[n]
          PROVE  d.full /\ Rank(kc, n) > d.first
      <3>1. Order[n] \in PresentIn(kc)
        BY <2>4 DEF PresentIn, People
      <3>2. Rank(kc, n) \in 1..Len(Listing(kc)) /\ Len(Listing(kc)) \in Nat
        BY <3>1, ListingIs
      <3>3. Rank(kc, n) > q.first
        BY <1>1, <2>1, <2>4 DEF Left
      <3>4. Rank(kc, n) > q.first + l
        BY <1>1, <2>2, <2>3, <2>4, <3>1, <3>2, <3>3
      <3>5. l = PageSize
        BY <1>1, <2>2, <3>2, <3>4
      <3>6. QED
        BY <2>1, <3>4, <3>5
    <2>5. Left(d, d.done, d.full, ch, kc)
      BY <2>4 DEF Left
    <2>6. Covers(NextUser(d), ch, kc)
      BY <2>1, <2>5, CoverNextUser
    <2>7. QED
      BY <1>2, <2>6 DEF Covered
  <1>3. QED
    BY <1>2, SearchIs, CoverAbort

LEMMA CoverPass ==
    ASSUME TypeInv, CoverInv, NEW j \in Jobs, Passed(j) PROVE Covered(j)
  <1> DEFINE q == jobs[j]
  <1>1. /\ q \in Job /\ q.who \in People /\ table \in Tables /\ q.out = "none"
        /\ Covers(q, changed[j], kc) /\ q.stage \in PassStage
    BY PassIs DEF Passed, CoverInv
  <1>2. PICK d : /\ Alike(q, d) /\ q.warned \subseteq d.warned
                 /\ Become(j, NextRoom(d)) \/ (d.stage \in PassStage /\ Become(j, d))
    BY DEF Passed
  <1>3. /\ d \in Job /\ d.kind = q.kind /\ d.who = q.who /\ d.out = "none" /\ d.done = q.done
        /\ d.full = q.full /\ d.queue = q.queue /\ d.first = q.first
    BY <1>1, <1>2 DEF Alike
  <1>4. CASE q.kind = "all"
    <2>1. Left(q, q.done \cup {q.who}, q.full, changed[j], kc)
      BY <1>1, <1>4 DEF Covers, UserStage
    <2>2. Left(d, d.done \cup {d.who}, d.full, changed[j], kc)
      BY <1>2, <1>3, <2>1, LeftAlike
    <2>3. CASE Become(j, NextRoom(d))
      BY <1>1, <1>3, <1>4, <2>2, <2>3, CoverNextRoom DEF Covered
    <2>4. CASE d.stage \in PassStage /\ Become(j, d)
      BY <1>3, <2>2, <2>4 DEF Covered, Covers, PassStage
    <2>5. QED
      BY <1>2, <2>3, <2>4
  <1>5. CASE q.kind # "all"
    <2>1. NextRoom(d).kind = q.kind
      BY <1>1, <1>3, NextRoomIs DEF Carried
    <2>2. QED
      BY <1>2, <1>3, <1>5, <2>1, CoverOther
  <1>6. QED
    BY <1>4, <1>5

\* Where no user is deleted everybody keeps their place in the listing.
LEMMA CoverWorld == ASSUME "users" \notin Changes, TypeInv, CoverInv, World PROVE CoverInv'
  <1>1. UNCHANGED jobs
    BY DEF World, Walk, Regroup, SetStatus
  <1>2. \E p \in People : \/ UNCHANGED <<kc, changed>>
                          \/ /\ Shifts(p) /\ PresentIn(kc') = PresentIn(kc)
                             /\ \A x \in People \ {p} : kc'[x] = kc[x]
    <2>1. ASSUME NEW p \in People, NEW k \in {"enabled", "disabled", "gone"}, SetStatus(p, k)
          PROVE  /\ Shifts(p) /\ PresentIn(kc') = PresentIn(kc)
                 /\ \A x \in People \ {p} : kc'[x] = kc[x]
      <3>1. k # "gone" /\ kc[p] # "gone" /\ kc' = [kc EXCEPT ![p] = k] /\ Shifts(p)
        BY <2>1 DEF SetStatus, Stir
      <3>2. \A x \in People : kc'[x] # "gone" <=> kc[x] # "gone"
        BY <3>1 DEF TypeInv
      <3>3. QED
        BY <3>1, <3>2 DEF PresentIn, TypeInv
    <2>2. ASSUME NEW p \in People, NEW s \in Subjects, Regroup(p, s)
          PROVE  Shifts(p) /\ UNCHANGED kc
      BY <2>2 DEF Regroup
    <2>3. ASSUME NEW p \in People, NEW r \in Rooms, Walk(p, r) PROVE UNCHANGED <<kc, changed>>
      BY <2>3 DEF Walk
    <2>4. QED
      BY <2>1, <2>2, <2>3 DEF World
  <1>3. PICK p \in People : \/ UNCHANGED <<kc, changed>>
                            \/ /\ Shifts(p) /\ PresentIn(kc') = PresentIn(kc)
                               /\ \A x \in People \ {p} : kc'[x] = kc[x]
    BY <1>2
  <1>4. CASE UNCHANGED <<kc, changed>>
    BY <1>1, <1>4 DEF CoverInv
  <1>5. CASE /\ Shifts(p) /\ PresentIn(kc') = PresentIn(kc)
             /\ \A x \in People \ {p} : kc'[x] = kc[x]
    <2> SUFFICES ASSUME NEW j \in Jobs, jobs[j].kind = "all" PROVE Covers(jobs[j], changed'[j], kc')
      BY <1>1 DEF CoverInv, Covers
    <2> DEFINE q == jobs[j]
    <2>1. Covers(q, changed[j], kc) /\ changed'[j] = changed[j] \cup {p}
      BY <1>5 DEF CoverInv, Shifts, Running
    <2>2. \A n \in DOMAIN Order : Rank(kc', n) = Rank(kc, n)
      BY <1>5 DEF Rank
    <2> HIDE DEF q
    <2>3. ASSUME NEW D, NEW more, Left(q, D, more, changed[j], kc)
          PROVE  Left(q, D, more, changed'[j], kc')
      <3> SUFFICES ASSUME NEW n \in DOMAIN Order, Order[n] \notin changed'[j], kc'[Order[n]] = "enabled"
                   PROVE  \/ Order[n] \in D \cup q.warned
                          \/ \E m \in DOMAIN q.queue : q.queue[m] = Order[n]
                          \/ more /\ Rank(kc', n) > q.first
        BY DEF Left
      <3>1. Order[n] \in People \ {p} /\ Order[n] \notin changed[j]
        BY <2>1 DEF People
      <3>2. kc[Order[n]] = "enabled"
        BY <1>5, <3>1
      <3>3. QED
        BY <2>2, <2>3, <3>1, <3>2 DEF Left
    <2>4. Covers(q, changed'[j], kc')
      BY <2>1, <2>3 DEF Covers
    <2>5. QED
      BY <2>4 DEF q
  <1>6. QED
    BY <1>3, <1>4, <1>5

LEMMA CoverNext ==
    ASSUME "users" \notin Changes, TypeInv, OnceInv, CoverInv, [Next]_vars PROVE CoverInv'
  <1>1. ASSUME NEW j \in Jobs, Covered(j), UNCHANGED <<kc, changed>> PROVE CoverInv'
    BY <1>1, OneCover DEF Covered
  <1>2. ASSUME NEW j \in Jobs, Start(j) PROVE CoverInv'
    <2>1. PICK q : /\ Become(j, q) /\ q.out = "none" /\ q.stage \in {"get_user", "count"}
                   /\ q.kind = "all" => q.stage = "count" /\ q.first = 0
      BY <1>2, StartIs
    <2>2. Covers(q, changed[j], kc)
      BY <2>1 DEF Covers, UserStage, PassStage
    <2>3. UNCHANGED <<kc, changed>>
      BY <1>2 DEF Start, upstream, history
    <2>4. QED
      BY <1>1, <2>1, <2>2, <2>3 DEF Covered
  <1>3. ASSUME NEW j \in Jobs, Cut(j) PROVE CoverInv'
    BY <1>1, <1>3, CoverAbort DEF Cut, upstream, history
  <1>4. ASSUME NEW j \in Jobs, Read(j) PROVE CoverInv'
    <2>1. UNCHANGED <<kc, changed>>
      BY <1>4, ReadKeeps DEF Quiet, upstream, history
    <2>2. CASE jobs[j].kind = "all"
      <3>1. ~GetUser(j)
        BY <2>2, GetUserIs
      <3>2. Covered(j)
        BY <1>4, <2>2, <3>1, CoverFirst, CoverGroups, CoverRoles, CoverSearch, CoverPass, PassedIs DEF Read
      <3>3. QED
        BY <1>1, <2>1, <3>2
    <2>3. CASE jobs[j].kind # "all"
      <3>1. PICK p : Become(j, p) /\ p.kind = jobs[j].kind
        BY <1>4, ReadKeeps DEF Keeps
      <3>2. QED
        BY <1>1, <2>1, <2>3, <3>1, CoverOther
    <2>4. QED
      BY <2>2, <2>3
  <1>5. ASSUME NEW j \in Jobs, ForceJoinUser(j) \/ KickUser(j) \/ Audit(j) \/ PutPowerLevels(j)
        PROVE CoverInv'
    <2>1. UNCHANGED <<kc, changed>>
      BY <1>5 DEF ForceJoinUser, KickUser, Audit, PutPowerLevels, Calls, upstream, history
    <2>2. QED
      BY <1>1, <1>5, <2>1, CoverPass, PassedIs
  <1>6. CASE UNCHANGED vars
    BY <1>6 DEF vars, upstream, history, CoverInv
  <1>7. QED
    BY <1>2, <1>3, <1>4, <1>5, <1>6, CoverWorld DEF Next, Program, Step

LEMMA CoverInit == Init => CoverInv
  <1> SUFFICES ASSUME Init, NEW j \in Jobs PROVE Covers(jobs[j], changed[j], kc)
    BY DEF CoverInv
  <1>1. jobs[j] = Idle
    BY DEF Init
  <1>2. QED
    BY <1>1 DEF Covers, Idle

\* A bulk run that comes to its end has processed, or warned about, every user
\* who was enabled all along, whatever the size of a page, as long as nobody is
\* deleted meanwhile and the pages shift (bulk_reconcile fetches page after page
\* until a short one).
THEOREM BulkLeavesNobody == ASSUME "users" \notin Changes PROVE Spec => []BulkReachesAll
  <1>1. CoverInv => BulkReachesAll
    <2> SUFFICES ASSUME CoverInv, NEW j \in Jobs, jobs[j].kind = "all", jobs[j].out \in {"ok", "warned"},
                        NEW p \in People \ changed[j], kc[p] = "enabled"
                 PROVE  p \in jobs[j].done \cup jobs[j].warned
      BY DEF BulkReachesAll
    <2>1. jobs[j].queue = <<>> /\ Left(jobs[j], jobs[j].done, FALSE, changed[j], kc)
      BY DEF CoverInv, Covers
    <2>2. PICK n \in DOMAIN Order : Order[n] = p
      BY DEF People
    <2>3. QED
      BY <2>1, <2>2 DEF Left
  <1>2. Init => TypeInv /\ OnceInv /\ CoverInv
    BY InitType, OnceInit, CoverInit
  <1>3. TypeInv /\ OnceInv /\ CoverInv /\ [Next]_vars => (TypeInv /\ OnceInv /\ CoverInv)'
    BY TypeStep, OnceNext, CoverNext
  <1>4. QED
    BY <1>1, <1>2, <1>3, PTL DEF Spec
=============================================================================
