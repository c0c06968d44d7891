---------------------------- MODULE PolicyProofs ----------------------------
(***************************************************************************)
(* Proofs about Policy, for every set of requests, keys, rooms, mappings,  *)
(* and any number of starts, faults and crashes.                           *)
(***************************************************************************)
EXTENDS Policy, SequenceTheorems, TLAPS

(***************************************************************************)
(* What a request's fields are worth at each stage.                        *)
(***************************************************************************)
Writable(q, ids) ==
    \/ q.kind = "create" /\ q.key \in Key /\ q.set \in Setting
    \/ q.kind = "update" /\ q.id \in ids /\ q.set \in Setting
    \/ q.kind = "delete" /\ q.id \in ids

Written(q, ids) ==
    /\ q.id \in ids
    /\ \/ q.kind \in {"create", "update"} /\ q.set \in Setting
       \/ q.kind = "delete"

Apt(q, ids) ==
    /\ q.stage = "write" /\ q.out = "none" => Writable(q, ids)
    /\ q.stage = "audit" => Written(q, ids)
    /\ q.stage \in {"children", "upsert"} /\ q.out = "none" => q.page # <<>>

TypeInv == TypeOK /\ \A r \in Req : Apt(req[r], used)

-----------------------------------------------------------------------------
(***************************************************************************)
(* Lemmas about the operators.                                             *)
(***************************************************************************)

\* Replacing one request's record.
LEMMA Becomes ==
    ASSUME req \in [Req -> Request], NEW r \in Req, NEW q \in Request, Become(r, q)
    PROVE  /\ req' \in [Req -> Request]
           /\ req'[r] = q
           /\ \A x \in Req \ {r} : req'[x] = req[x]
  BY DEF Become

LEMMA IdleType == Idle \in Request
  <1>1. <<>> \in Seq(Rooms)
    BY EmptySeq
  <1>2. QED
    BY <1>1 DEF Idle, Request, Kind, Stage

LEMMA FieldTypes ==
    ASSUME NEW q \in Request
    PROVE  /\ \A o \in {"none", "ok", "invalid", "missing", "err", "cut"} : [q EXCEPT !.out = o] \in Request
           /\ \A i \in Id, s \in Stage : [q EXCEPT !.id = i, !.stage = s] \in Request
           /\ \A a \in {"absent", "room", "space"}, s \in Stage :
                [q EXCEPT !.as = a, !.stage = s] \in Request
           /\ \A p \in Seq(Rooms), n \in Nat, s \in Stage :
                [q EXCEPT !.page = p, !.next = n, !.stage = s] \in Request
  BY ZenonT(60) DEF Request

\* A page of the listing is a sequence of rooms.
LEMMA PageType ==
    ASSUME listing \in Seq(Rooms), NEW f \in Nat
    PROVE  PageFrom(f) \in Seq(Rooms) /\ NextBatch(f) \in Nat
  <1> DEFINE n == IF f + Page < Len(listing) THEN f + Page ELSE Len(listing)
  <1>0. Page \in Nat /\ Len(listing) \in Nat
    BY RoomsAssumption
  <1>1. n \in Int /\ \A i \in (f + 1)..n : listing[i] \in Rooms
    BY <1>0, ElementOfSeq
  <1>2. SubSeq(listing, f + 1, n) \in Seq(Rooms)
    BY <1>1, SubSeqProperties
  <1>3. QED
    BY <1>0, <1>2 DEF PageFrom, NextBatch

LEMMA AfterUpsertType ==
    ASSUME NEW q \in Request, q.page # <<>>, q.stage = "upsert", q.out = "none"
    PROVE  /\ AfterUpsert(q) \in Request
           /\ Head(q.page) \in Rooms
           /\ AfterUpsert(q).stage \in {"children", "list", "upsert"}
           /\ AfterUpsert(q).stage \in {"children", "upsert"} /\ AfterUpsert(q).out = "none"
                => AfterUpsert(q).page # <<>>
  <1>1. q.page \in Seq(Rooms)
    BY DEF Request
  <1>2. Tail(q.page) \in Seq(Rooms) /\ Head(q.page) \in Rooms
    BY <1>1, HeadTailProperties
  <1> DEFINE p == [q EXCEPT !.page = Tail(@), !.as = "absent"]
  <1>3. p \in Request /\ p.page = Tail(q.page) /\ p.next \in Nat /\ p.stage = "upsert" /\ p.out = "none"
    BY <1>2 DEF Request
  <1> HIDE DEF p
  <1>4. AfterUpsert(q) = CASE p.page # <<>> -> [p EXCEPT !.stage = "children"]
                           [] p.page = <<>> /\ p.next # 0 -> [p EXCEPT !.stage = "list", !.from = p.next]
                           [] OTHER -> [p EXCEPT !.out = "ok"]
    BY DEF AfterUpsert, p
  <1>5. CASE p.page # <<>>
    <2>1. AfterUpsert(q) = [p EXCEPT !.stage = "children"]
      BY <1>4, <1>5
    <2>2. QED
      BY <1>2, <1>3, <1>5, <2>1 DEF Request, Stage
  <1>6. CASE p.page = <<>> /\ p.next # 0
    <2>1. AfterUpsert(q) = [p EXCEPT !.stage = "list", !.from = p.next]
      BY <1>4, <1>6
    <2>2. QED
      BY <1>2, <1>3, <2>1 DEF Request, Stage
  <1>7. CASE p.page = <<>> /\ p.next = 0
    <2>1. AfterUpsert(q) = [p EXCEPT !.out = "ok"]
      BY <1>4, <1>7
    <2>2. QED
      BY <1>2, <1>3, <2>1 DEF Request, Stage
  <1>8. QED
    BY <1>5, <1>6, <1>7

\* An insert keeps ids and keys unique.
LEMMA InsertType ==
    ASSUME TypeOK, NEW i \in Id, NEW k \in Key, NEW s \in Setting,
           Fits(k), Insert(i, k, s)
    PROVE  /\ table' \subseteq Binding
           /\ \A a, b \in table' : a.id = b.id \/ a.key = b.key => a = b
           /\ used \subseteq used' /\ used' \subseteq Id /\ i \in used'
           /\ table' = table \cup {[id |-> i, key |-> k, set |-> s]}
  <1> DEFINE n == [id |-> i, key |-> k, set |-> s]
  <1>1. n \in Binding /\ n.id = i /\ n.key = k
    BY DEF Binding
  <1>2. \A b \in table : b.key # k
    BY DEF Fits, Keys
  <1>3. QED
    BY <1>1, <1>2 DEF Insert, TypeOK

-----------------------------------------------------------------------------
(***************************************************************************)
(* Type correctness.                                                       *)
(***************************************************************************)

\* Requests whose record does not change stay apt while used only grows.
LEMMA AptKept ==
    ASSUME NEW q, Apt(q, used), used \subseteq used'
    PROVE  Apt(q, used')
  BY DEF Apt, Writable, Written

LEMMA OneRequest ==
    ASSUME TypeInv, NEW r \in Req, NEW q \in Request, Become(r, q),
           used \subseteq used', Apt(q, used')
    PROVE  req' \in [Req -> Request] /\ \A x \in Req : Apt(req'[x], used')
  <1>1. req \in [Req -> Request]
    BY DEF TypeInv, TypeOK
  <1>2. /\ req' \in [Req -> Request] /\ req'[r] = q
        /\ \A x \in Req \ {r} : req'[x] = req[x]
    BY <1>1, Becomes
  <1>3. ASSUME NEW x \in Req \ {r} PROVE Apt(req'[x], used')
    <2>1. Apt(req[x], used)
      BY DEF TypeInv
    <2>2. req'[x] = req[x]
      BY <1>2
    <2>3. QED
      BY <2>1, <2>2 DEF Apt, Writable, Written
  <1>4. Apt(req'[r], used')
    BY <1>2 DEF Apt, Writable, Written
  <1>5. QED
    BY <1>2, <1>3, <1>4

\* A request that ends keeps everything but its answer.
LEMMA EndType ==
    ASSUME TypeInv, NEW r \in Req, NEW o \in {"ok", "invalid", "missing", "err", "cut"},
           End(r, o), used \subseteq used'
    PROVE  req' \in [Req -> Request] /\ \A x \in Req : Apt(req'[x], used')
  <1> DEFINE q == [req[r] EXCEPT !.out = o]
  <1>1. req[r] \in Request
    BY DEF TypeInv, TypeOK
  <1>2. q \in Request /\ q.stage = req[r].stage /\ q.kind = req[r].kind
        /\ q.id = req[r].id /\ q.set = req[r].set /\ q.out = o
    BY <1>1 DEF Request
  <1>3. Apt(req[r], used)
    BY DEF TypeInv
  <1>4. Apt(q, used')
    BY <1>2, <1>3 DEF Apt, Written
  <1>5. Become(r, q)
    BY DEF End
  <1> HIDE DEF q
  <1>6. QED
    BY <1>2, <1>4, <1>5, OneRequest

\* A write that took effect leaves its request before its audit entry.
LEMMA ToAuditType ==
    ASSUME TypeInv, NEW r \in Req, At(r, "write"), NEW i \in used', i \in Id,
           ToAudit(r, i), used \subseteq used', used' \subseteq Id,
           req[r].kind \in {"create", "update", "delete"}
    PROVE  req' \in [Req -> Request] /\ \A x \in Req : Apt(req'[x], used')
  <1> DEFINE q == [req[r] EXCEPT !.id = i, !.stage = "audit"]
  <1>1. req[r] \in Request
    BY DEF TypeInv, TypeOK
  <1>2. q \in Request /\ q.stage = "audit" /\ q.kind = req[r].kind /\ q.id = i /\ q.set = req[r].set
    BY <1>1 DEF Request, Stage
  <1>3. Writable(req[r], used)
    BY DEF TypeInv, Apt, At
  <1>4. Apt(q, used')
    BY <1>2, <1>3 DEF Apt, Writable, Written
  <1>5. Become(r, q)
    BY DEF ToAudit
  <1> HIDE DEF q
  <1>6. QED
    BY <1>2, <1>4, <1>5, OneRequest

LEMMA BoundsType ==
    ASSUME TypeOK, NoFault \/ Fault
    PROVE  starts' \in Nat /\ faults' \in Nat /\ moves' \in Nat
  BY DEF TypeOK, NoFault, Fault, bounds

LEMMA TypeInit == Init => TypeInv
  <1> SUFFICES ASSUME Init PROVE TypeInv
    OBVIOUS
  <1>1. TypeOK
    BY IdleType, RoomsAssumption DEF Init, TypeOK
  <1>2. \A r \in Req : Apt(req[r], used)
    BY DEF Init, Apt, Idle
  <1>3. QED
    BY <1>1, <1>2 DEF TypeInv

\* Steps of the process: startup, import, crash.
LEMMA TypeBoot == TypeInv /\ Boot => TypeInv'
  <1> SUFFICES ASSUME TypeInv, Boot PROVE TypeInv'
    OBVIOUS
  <1>0. TypeOK /\ \A r \in Req : Apt(req[r], used)
    BY DEF TypeInv
  <1>a. ASSUME UNCHANGED <<req, used>> PROVE req' \in [Req -> Request] /\ \A r \in Req : Apt(req'[r], used')
    BY <1>0, <1>a DEF TypeOK, Apt, Writable, Written
  <1>1. CASE StartUp
    BY <1>0, <1>1, <1>a, MappingsAssumption DEF StartUp, TypeInv, TypeOK, tables, imports
  <1>2. CASE Crash
    <2>1. ASSUME NEW r \in Req
          PROVE  req'[r] \in Request /\ Apt(req'[r], used')
      <3>1. req[r] \in Request /\ Apt(req[r], used)
        BY <1>0 DEF TypeOK
      <3>2. CASE req'[r] = req[r]
        BY <1>2, <3>1, <3>2 DEF Crash, Apt, Writable, Written
      <3>3. CASE req'[r] = [req[r] EXCEPT !.out = "cut"]
        <4>1. /\ req'[r] \in Request /\ req'[r].out = "cut" /\ req'[r].stage = req[r].stage
              /\ req'[r].id = req[r].id /\ req'[r].kind = req[r].kind /\ req'[r].set = req[r].set
          BY <3>1, <3>3 DEF Request
        <4>2. used' = used
          BY <1>2 DEF Crash
        <4>3. QED
          BY <3>1, <4>1, <4>2 DEF Apt, Writable, Written
      <3>4. QED
        BY <1>2, <3>2, <3>3 DEF Crash
    <2>2. req' \in [Req -> Request]
      BY <1>2, <2>1 DEF Crash
    <2>3. TypeOK'
      BY <1>0, <1>2, <2>2 DEF Crash, TypeOK, tables, imports, bounds
    <2>4. \A r \in Req : Apt(req'[r], used')
      BY <2>1 DEF Apt, Writable, Written
    <2>5. QED
      BY <2>3, <2>4 DEF TypeInv
  <1>3. CASE HasBootstrapped
    BY <1>0, <1>3, <1>a, BoundsType
       DEF HasBootstrapped, Fails, TypeInv, TypeOK, tables
  <1>4. ASSUME NEW k \in Key, Import(k) PROVE TypeInv'
    <2>1. NoFault \/ Fault
      BY <1>4 DEF Import
    <2>2. /\ table' \subseteq Binding
          /\ \A a, b \in table' : a.id = b.id \/ a.key = b.key => a = b
          /\ used' \subseteq Id /\ used \subseteq used' /\ brought' \subseteq used'
          /\ {b.id : b \in table'} \subseteq used'
          /\ missed' \subseteq Key
      <3>1. CASE Fits(k) /\ \E i \in Id : Insert(i, k, Plain) /\ brought' = brought \cup {i}
        <4>1. PICK i \in Id : Insert(i, k, Plain) /\ brought' = brought \cup {i}
          BY <3>1
        <4>2. /\ table' \subseteq Binding
              /\ \A a, b \in table' : a.id = b.id \/ a.key = b.key => a = b
              /\ used \subseteq used' /\ used' \subseteq Id /\ i \in used'
              /\ table' = table \cup {[id |-> i, key |-> k, set |-> Plain]}
          BY <1>0, <3>1, <4>1, InsertType, MappingsAssumption
        <4>3. missed' \subseteq Key
          BY <1>0, <1>4 DEF Import, TypeOK
        <4>4. QED
          BY <1>0, <4>1, <4>2, <4>3 DEF TypeOK
      <3>2. CASE UNCHANGED <<table, used, brought>>
        BY <1>0, <1>4, <3>2 DEF Import, TypeOK
      <3>3. QED
        BY <1>4, <3>1, <3>2 DEF Import
    <2>3. req' \in [Req -> Request] /\ \A r \in Req : Apt(req'[r], used')
      BY <1>0, <1>4, <2>2 DEF Import, TypeOK, Apt, Writable, Written
    <2>4. todo' \subseteq mapping'
      BY <1>0, <1>4 DEF Import, LeftAfter, TypeOK
    <2>5. starts' \in Nat /\ faults' \in Nat /\ moves' \in Nat
      BY <1>0, <2>1, BoundsType
    <2>6. TypeOK'
      BY <1>0, <1>4, <2>2, <2>3, <2>4, <2>5 DEF Import, TypeOK
    <2>7. QED
      BY <2>3, <2>6 DEF TypeInv
  <1>5. CASE MarkBootstrapped
    BY <1>0, <1>5, <1>a, BoundsType
       DEF MarkBootstrapped, Marks, Fails, TypeInv, TypeOK
  <1>6. QED
    BY <1>1, <1>2, <1>3, <1>4, <1>5 DEF Boot

\* Steps of a request that leave the tables and the startup alone.
LEMMA TypeCalm ==
    ASSUME TypeInv, NEW r \in Req,
           req' \in [Req -> Request] /\ \A x \in Req : Apt(req'[x], used'),
           UNCHANGED <<tables, phase, mapping, todo, listing, used, imports, dropped, shifted>>,
           starts' \in Nat /\ faults' \in Nat /\ moves' \in Nat
    PROVE  TypeInv'
  BY DEF TypeInv, TypeOK, tables, imports

LEMMA TypeSubmit == ASSUME TypeInv, NEW r \in Req, Submit(r) PROVE TypeInv'
  <1>1. PICK k \in Kind :
          LET q == [Idle EXCEPT !.kind = k, !.stage = "write"] IN
         \/ k = "create" /\ \E y \in Key, s \in Setting : Become(r, [q EXCEPT !.key = y, !.set = s])
         \/ k = "update" /\ \E i \in used, s \in Setting : Become(r, [q EXCEPT !.id = i, !.set = s])
         \/ k \in {"create", "update"} /\ Become(r, [q EXCEPT !.out = "invalid"])
         \/ k = "delete" /\ \E i \in used : Become(r, [q EXCEPT !.id = i])
         \/ k = "refresh" /\ Become(r, [q EXCEPT !.stage = "list", !.had = Existing,
                                          !.out = IF HasSynapse THEN "none" ELSE "missing"])
    BY KindsAssumption DEF Submit
  <1> DEFINE q == [Idle EXCEPT !.kind = k, !.stage = "write"]
  <1>2. q \in Request /\ q.kind = k /\ q.stage = "write"
    BY IdleType DEF Request, Idle, Stage
  <1>3. used \subseteq Id /\ Existing \subseteq Rooms
    BY ElementOfSeq DEF TypeInv, TypeOK, Existing
  <1> HIDE DEF q
  <1>4. PICK p \in Request : Become(r, p) /\ Apt(p, used)
    <2>1. ASSUME NEW y \in Key, NEW s \in Setting, k = "create"
          PROVE  [q EXCEPT !.key = y, !.set = s] \in Request /\ Apt([q EXCEPT !.key = y, !.set = s], used)
      BY <1>2, <2>1 DEF Request, Apt, Writable
    <2>2. ASSUME NEW i \in used, NEW s \in Setting, k = "update"
          PROVE  [q EXCEPT !.id = i, !.set = s] \in Request /\ Apt([q EXCEPT !.id = i, !.set = s], used)
      BY <1>2, <1>3, <2>2 DEF Request, Apt, Writable
    <2>3. [q EXCEPT !.out = "invalid"] \in Request /\ Apt([q EXCEPT !.out = "invalid"], used)
      BY <1>2 DEF Request, Apt
    <2>4. ASSUME NEW i \in used, k = "delete"
          PROVE  [q EXCEPT !.id = i] \in Request /\ Apt([q EXCEPT !.id = i], used)
      BY <1>2, <1>3, <2>4 DEF Request, Apt, Writable
    <2>5. ASSUME NEW o \in {"none", "missing"}
          PROVE  /\ [q EXCEPT !.stage = "list", !.had = Existing, !.out = o] \in Request
                 /\ Apt([q EXCEPT !.stage = "list", !.had = Existing, !.out = o], used)
      BY <1>2, <1>3 DEF Request, Apt, Stage
    <2>6. (IF HasSynapse THEN "none" ELSE "missing") \in {"none", "missing"}
      OBVIOUS
    <2>7. QED
      BY <1>1, <2>1, <2>2, <2>3, <2>4, <2>5, <2>6 DEF q
  <1>5. used' = used
    BY DEF Submit
  <1>6. req' \in [Req -> Request] /\ \A x \in Req : Apt(req'[x], used')
    BY <1>4, <1>5, OneRequest
  <1>7. QED
    BY <1>5, <1>6, TypeCalm DEF Submit, TypeInv, TypeOK, bounds

LEMMA TypeCut == ASSUME TypeInv, NEW r \in Req, Cut(r) PROVE TypeInv'
  <1>1. used' = used
    BY DEF Cut
  <1>2. req' \in [Req -> Request] /\ \A x \in Req : Apt(req'[x], used')
    BY <1>1, EndType DEF Cut
  <1>3. QED
    BY <1>1, <1>2, TypeCalm DEF Cut, TypeInv, TypeOK, bounds

\* Steps of the edits.
LEMMA TypeEdit == ASSUME TypeInv, NEW r \in Req, Edit(r) PROVE TypeInv'
  <1>0. TypeOK /\ req[r] \in Request /\ Apt(req[r], used)
    BY DEF TypeInv, TypeOK
  <1>1. CASE CreateBinding(r)
    <2>1. NoFault \/ Fault
      BY <1>1 DEF CreateBinding
    <2>2. At(r, "write") /\ req[r].kind = "create" /\ req[r].key \in Key /\ req[r].set \in Setting
      BY <1>0, <1>1 DEF CreateBinding, At, Apt, Writable
    <2>3. /\ table' \subseteq Binding
          /\ \A a, b \in table' : a.id = b.id \/ a.key = b.key => a = b
          /\ used' \subseteq Id /\ used \subseteq used' /\ {b.id : b \in table'} \subseteq used'
          /\ req' \in [Req -> Request] /\ \A x \in Req : Apt(req'[x], used')
      <3>1. CASE Fits(req[r].key) /\ \E i \in Id : Insert(i, req[r].key, req[r].set) /\ ToAudit(r, i)
        <4>1. PICK i \in Id : Insert(i, req[r].key, req[r].set) /\ ToAudit(r, i)
          BY <3>1
        <4>2. /\ table' \subseteq Binding
              /\ \A a, b \in table' : a.id = b.id \/ a.key = b.key => a = b
              /\ used \subseteq used' /\ used' \subseteq Id /\ i \in used'
              /\ table' = table \cup {[id |-> i, key |-> req[r].key, set |-> req[r].set]}
          BY <1>0, <2>2, <3>1, <4>1, InsertType
        <4>3. req' \in [Req -> Request] /\ \A x \in Req : Apt(req'[x], used')
          BY <2>2, <4>1, <4>2, ToAuditType
        <4>4. QED
          BY <1>0, <4>2, <4>3 DEF TypeOK
      <3>2. CASE UNCHANGED <<table, used>> /\ End(r, "err")
        BY <1>0, <3>2, EndType DEF TypeOK
      <3>3. QED
        BY <1>1, <3>1, <3>2 DEF CreateBinding
    <2>4. QED
      BY <1>0, <1>1, <2>1, <2>3, BoundsType DEF CreateBinding, TypeInv, TypeOK, imports
  <1>2. CASE UpdateBinding(r)
    <2>1. NoFault \/ Fault
      BY <1>2 DEF UpdateBinding
    <2>2. At(r, "write") /\ req[r].kind = "update" /\ req[r].id \in used /\ req[r].set \in Setting
          /\ used' = used
      BY <1>0, <1>2 DEF UpdateBinding, At, Apt, Writable
    <2>3. /\ table' \subseteq Binding
          /\ \A a, b \in table' : a.id = b.id \/ a.key = b.key => a = b
          /\ {b.id : b \in table'} \subseteq used'
          /\ req' \in [Req -> Request] /\ \A x \in Req : Apt(req'[x], used')
      <3>1. CASE /\ ToAudit(r, req[r].id)
                 /\ table' = {IF b.id = req[r].id THEN [b EXCEPT !.set = req[r].set] ELSE b : b \in table}
        <4>1. \A b \in table : LET c == IF b.id = req[r].id THEN [b EXCEPT !.set = req[r].set] ELSE b
                                IN  c \in Binding /\ c.id = b.id /\ c.key = b.key
          BY <1>0, <2>2 DEF TypeOK, Binding
        <4>2. req' \in [Req -> Request] /\ \A x \in Req : Apt(req'[x], used')
          BY <1>0, <2>2, <3>1, ToAuditType DEF TypeOK
        <4>3. ASSUME NEW c \in table' PROVE c \in Binding /\ c.id \in used'
          <5>1. PICK a \in table : c = IF a.id = req[r].id THEN [a EXCEPT !.set = req[r].set] ELSE a
            BY <3>1
          <5>2. a.id \in used
            BY <1>0 DEF TypeOK
          <5>3. QED
            BY <2>2, <4>1, <5>1, <5>2
        <4>4. ASSUME NEW c \in table', NEW d \in table', c.id = d.id \/ c.key = d.key PROVE c = d
          <5>1. PICK a \in table : c = IF a.id = req[r].id THEN [a EXCEPT !.set = req[r].set] ELSE a
            BY <3>1
          <5>2. PICK b \in table : d = IF b.id = req[r].id THEN [b EXCEPT !.set = req[r].set] ELSE b
            BY <3>1
          <5>3. c.id = a.id /\ c.key = a.key /\ d.id = b.id /\ d.key = b.key
            BY <4>1, <5>1, <5>2
          <5>4. a = b
            BY <1>0, <4>4, <5>3 DEF TypeOK
          <5>5. QED
            BY <5>1, <5>2, <5>4
        <4>5. QED
          BY <4>2, <4>3, <4>4
      <3>2. CASE UNCHANGED table /\ (End(r, "err") \/ End(r, "missing"))
        BY <1>0, <2>2, <3>2, EndType DEF TypeOK
      <3>3. QED
        BY <1>2, <3>1, <3>2 DEF UpdateBinding
    <2>4. QED
      BY <1>0, <1>2, <2>1, <2>3, BoundsType DEF UpdateBinding, TypeInv, TypeOK, imports
  <1>3. CASE DeleteBinding(r)
    <2>1. NoFault \/ Fault
      BY <1>3 DEF DeleteBinding
    <2>2. At(r, "write") /\ req[r].kind = "delete" /\ req[r].id \in used /\ used' = used
      BY <1>0, <1>3 DEF DeleteBinding, At, Apt, Writable
    <2>3. /\ table' \subseteq table /\ dropped' \subseteq Key
          /\ req' \in [Req -> Request] /\ \A x \in Req : Apt(req'[x], used')
      <3>1. CASE /\ ToAudit(r, req[r].id) /\ table' = table \ Row(req[r].id)
                 /\ dropped' = dropped \cup {b.key : b \in Row(req[r].id)}
        <4>1. req' \in [Req -> Request] /\ \A x \in Req : Apt(req'[x], used')
          BY <1>0, <2>2, <3>1, ToAuditType DEF TypeOK
        <4>2. QED
          BY <1>0, <3>1, <4>1 DEF TypeOK, Row, Binding
      <3>2. CASE UNCHANGED <<table, dropped>> /\ (End(r, "err") \/ End(r, "missing"))
        BY <1>0, <2>2, <3>2, EndType DEF TypeOK
      <3>3. QED
        BY <1>3, <3>1, <3>2 DEF DeleteBinding
    <2>4. QED
      BY <1>0, <1>3, <2>1, <2>2, <2>3, BoundsType DEF DeleteBinding, TypeInv, TypeOK, imports
  <1>4. CASE Log(r)
    <2>1. (NoFault \/ Fault) /\ used' = used /\ (End(r, "ok") \/ End(r, "err"))
      BY <1>4 DEF Log
    <2>2. Entry(r) \in AuditEntry
      <3>1. Written(req[r], used)
        BY <1>0, <1>4 DEF Log, At, Apt
      <3>2. used \subseteq Id
        BY <1>0 DEF TypeOK
      <3>3. QED
        BY <1>0, <3>1, <3>2 DEF Entry, AuditEntry, Written, Kind, Request
    <2>3. audit' \subseteq AuditEntry
      BY <1>0, <1>4, <2>2 DEF Log, TypeOK
    <2>4. req' \in [Req -> Request] /\ \A x \in Req : Apt(req'[x], used')
      BY <2>1, EndType
    <2>5. QED
      BY <1>0, <1>4, <2>1, <2>3, <2>4, BoundsType DEF Log, TypeInv, TypeOK, imports
  <1>5. QED
    BY <1>1, <1>2, <1>3, <1>4 DEF Edit

\* Steps of the refresh.
LEMMA TypeRefresh == ASSUME TypeInv, NEW r \in Req, Refresh(r) PROVE TypeInv'
  <1>0. TypeOK /\ req[r] \in Request /\ Apt(req[r], used)
    BY DEF TypeInv, TypeOK
  <1>1. CASE ListRooms(r)
    <2>1. (NoFault \/ Fault) /\ used' = used
      BY <1>1 DEF ListRooms
    <2>2. req' \in [Req -> Request] /\ \A x \in Req : Apt(req'[x], used')
      <3>1. CASE End(r, "err") \/ End(r, "ok")
        BY <2>1, <3>1, EndType
      <3>2. CASE /\ PageFrom(req[r].from) # <<>>
                 /\ Become(r, [req[r] EXCEPT !.page = PageFrom(req[r].from),
                                  !.next = NextBatch(req[r].from), !.stage = "children"])
        <4>1. req[r].from \in Nat
          BY <1>0 DEF Request
        <4>2. PageFrom(req[r].from) \in Seq(Rooms) /\ NextBatch(req[r].from) \in Nat
          BY <1>0, <4>1, PageType DEF TypeOK
        <4> DEFINE q == [req[r] EXCEPT !.page = PageFrom(req[r].from),
                                  !.next = NextBatch(req[r].from), !.stage = "children"]
        <4>3. q \in Request
          BY <1>0, <4>2, FieldTypes DEF Stage
        <4>4. Apt(q, used')
          BY <1>0, <3>2 DEF Apt, Request
        <4> HIDE DEF q
        <4>5. QED
          BY <2>1, <3>2, <4>3, <4>4, OneRequest DEF q
      <3>3. QED
        BY <1>1, <3>1, <3>2 DEF ListRooms, End
    <2>3. QED
      BY <1>0, <1>1, <2>1, <2>2, TypeCalm, BoundsType DEF ListRooms
  <1>2. CASE GetSpaceChildren(r)
    <2>1. (NoFault \/ Fault) /\ used' = used /\ At(r, "children")
      BY <1>2 DEF GetSpaceChildren
    <2>2. PICK a \in {"room", "space"} : Become(r, [req[r] EXCEPT !.as = a, !.stage = "upsert"])
      BY <1>2 DEF GetSpaceChildren
    <2> DEFINE q == [req[r] EXCEPT !.as = a, !.stage = "upsert"]
    <2>3. q \in Request
      BY <1>0, FieldTypes DEF Stage
    <2>4. Apt(q, used')
      BY <1>0, <2>1 DEF Apt, At, Request
    <2> HIDE DEF q
    <2>5. req' \in [Req -> Request] /\ \A x \in Req : Apt(req'[x], used')
      BY <2>1, <2>2, <2>3, <2>4, OneRequest DEF q
    <2>6. QED
      BY <1>0, <1>2, <2>1, <2>5, TypeCalm, BoundsType DEF GetSpaceChildren
  <1>3. CASE UpsertCachedRoom(r)
    <2>1. (NoFault \/ Fault) /\ used' = used /\ At(r, "upsert")
      BY <1>3 DEF UpsertCachedRoom
    <2>2. req[r].page # <<>> /\ req[r].stage = "upsert" /\ req[r].out = "none"
          /\ req[r].as \in {"absent", "room", "space"}
      BY <1>0, <2>1 DEF Apt, At, Request
    <2>3. /\ AfterUpsert(req[r]) \in Request /\ Head(req[r].page) \in Rooms
          /\ Apt(AfterUpsert(req[r]), used')
      BY <1>0, <2>2, AfterUpsertType DEF Apt
    <2>4. req' \in [Req -> Request] /\ \A x \in Req : Apt(req'[x], used')
      <3>1. CASE Become(r, AfterUpsert(req[r]))
        BY <2>1, <2>3, <3>1, OneRequest
      <3>2. CASE End(r, "err")
        BY <2>1, <3>2, EndType
      <3>3. QED
        BY <1>3, <3>1, <3>2 DEF UpsertCachedRoom
    <2>5. cache' \in [Rooms -> {"absent", "room", "space"}]
      BY <1>0, <1>3, <2>2, <2>3 DEF UpsertCachedRoom, TypeOK
    <2>6. QED
      BY <1>0, <1>3, <2>1, <2>4, <2>5, BoundsType DEF UpsertCachedRoom, TypeInv, TypeOK, imports
  <1>4. QED
    BY <1>1, <1>2, <1>3 DEF Refresh

\* Rooms that come and go on Synapse.
LEMMA TypeSynapse == ASSUME TypeInv, Synapse PROVE TypeInv'
  <1>0. TypeOK /\ listing \in Seq(Rooms) /\ Len(listing) \in Nat
    BY DEF TypeInv, TypeOK
  <1>a. ASSUME NEW m \in Int, NEW n \in Int, 1 <= m, n <= Len(listing)
        PROVE  SubSeq(listing, m, n) \in Seq(Rooms)
    <2>1. \A i \in m..n : listing[i] \in Rooms
      BY <1>0, <1>a, ElementOfSeq
    <2>2. QED
      BY <2>1, SubSeqProperties
  <1>1. listing' \in Seq(Rooms) /\ shifted' \subseteq Req /\ moves' \in Nat
    <2>1. ASSUME NEW t \in Rooms, RoomAdded(t)
          PROVE  listing' \in Seq(Rooms) /\ shifted' \subseteq Req /\ moves' \in Nat
      <3>1. PICK n \in 0..Len(listing) :
               listing' = SubSeq(listing, 1, n) \o <<t>> \o SubSeq(listing, n + 1, Len(listing))
        BY <2>1 DEF RoomAdded
      <3>2. SubSeq(listing, 1, n) \in Seq(Rooms) /\ SubSeq(listing, n + 1, Len(listing)) \in Seq(Rooms)
        BY <1>0, <1>a
      <3>3. QED
        BY <1>0, <2>1, <3>1, <3>2 DEF RoomAdded, TypeOK
    <2>2. ASSUME NEW t \in Rooms, RoomRemoved(t)
          PROVE  listing' \in Seq(Rooms) /\ shifted' \subseteq Req /\ moves' \in Nat
      <3>1. PICK n \in 1..Len(listing) :
               listing' = SubSeq(listing, 1, n - 1) \o SubSeq(listing, n + 1, Len(listing))
        BY <2>2 DEF RoomRemoved
      <3>2. SubSeq(listing, 1, n - 1) \in Seq(Rooms) /\ SubSeq(listing, n + 1, Len(listing)) \in Seq(Rooms)
        BY <1>0, <1>a
      <3>3. QED
        BY <1>0, <2>2, <3>1, <3>2 DEF RoomRemoved, TypeOK
    <2>3. QED
      BY <2>1, <2>2 DEF Synapse
  <1>2. UNCHANGED <<tables, process, used, imports, dropped, starts, faults>>
    BY DEF Synapse, RoomAdded, RoomRemoved
  <1>3. QED
    BY <1>0, <1>1, <1>2 DEF TypeInv, TypeOK, tables, process, imports

LEMMA TypeStep == TypeInv /\ [Next]_vars => TypeInv'
  <1>1. ASSUME TypeInv, UNCHANGED vars PROVE TypeInv'
    BY <1>1 DEF TypeInv, TypeOK, vars, tables, process, imports, bounds
  <1>2. QED
    BY <1>1, TypeBoot, TypeSubmit, TypeCut, TypeEdit, TypeRefresh, TypeSynapse DEF Next

\* Every reachable state is well typed, and the table keeps ids and keys unique
\* (policy_service.rs, db/policy.rs).
THEOREM TypeCorrect == Spec => []TypeOK
  <1>1. TypeInv => TypeOK
    BY DEF TypeInv
  <1>2. QED
    BY <1>1, TypeInit, TypeStep, PTL DEF Spec

-----------------------------------------------------------------------------
(***************************************************************************)
(* The import happens once and completely.                                 *)
(***************************************************************************)
ImportInv ==
    /\ settled => marker /\ phase # "import"
    /\ phase = "check" => todo = mapping
    /\ phase = "import" => mapping \subseteq todo \cup Keys \cup missed \cup dropped
    /\ ImportComplete

\* A key leaves the table only into dropped.
LEMMA KeysKept ==
    ASSUME TypeInv, [Next]_vars
    PROVE  Keys \cup dropped \subseteq Keys' \cup dropped' /\ missed \subseteq missed'
  <1>1. CASE UNCHANGED <<table, dropped, missed>>
    BY <1>1 DEF Keys
  <1>2. ASSUME NEW k \in Key, Import(k) PROVE table \subseteq table' /\ missed \subseteq missed' /\ dropped' = dropped
    BY <1>2 DEF Import, Insert
  <1>3. ASSUME NEW r \in Req, CreateBinding(r) PROVE table \subseteq table' /\ UNCHANGED <<missed, dropped>>
    BY <1>3 DEF CreateBinding, Insert, imports
  <1>4. ASSUME NEW r \in Req, UpdateBinding(r) PROVE Keys \subseteq Keys' /\ UNCHANGED <<missed, dropped>>
    <2>1. ASSUME NEW b \in table
          PROVE  \E c \in table' : c.key = b.key
      <3>1. b \in Binding
        BY DEF TypeInv, TypeOK
      <3>2. b \in table' \/ [b EXCEPT !.set = req[r].set] \in table'
        BY <1>4, <3>1 DEF UpdateBinding
      <3>3. QED
        BY <3>1, <3>2 DEF Binding
    <2>2. QED
      BY <1>4, <2>1 DEF Keys, UpdateBinding, imports
  <1>5. ASSUME NEW r \in Req, DeleteBinding(r)
        PROVE  Keys \cup dropped \subseteq Keys' \cup dropped' /\ missed' = missed
    BY <1>5 DEF DeleteBinding, Keys, Row, imports
  <1>6. UNCHANGED <<table, dropped, missed>>
        \/ (\E k \in Key : Import(k))
        \/ \E r \in Req : CreateBinding(r) \/ UpdateBinding(r) \/ DeleteBinding(r)
    BY DEF Next, vars, tables, process, imports, Boot, StartUp, Crash, HasBootstrapped, MarkBootstrapped,
           Synapse, RoomAdded, RoomRemoved, Submit, Cut, Edit, Log, Refresh, ListRooms,
           GetSpaceChildren, UpsertCachedRoom
  <1>7. QED
    BY <1>1, <1>2, <1>3, <1>4, <1>5, <1>6 DEF Keys

LEMMA ImportInit == Init => ImportInv
  BY DEF Init, ImportInv, ImportComplete

LEMMA ImportStep == TypeInv /\ ImportInv /\ [Next]_vars => ImportInv'
  <1> SUFFICES ASSUME TypeInv, ImportInv, [Next]_vars PROVE ImportInv'
    OBVIOUS
  <1>0. Keys \cup dropped \cup missed \subseteq Keys' \cup dropped' \cup missed'
    BY KeysKept
  <1>1. CASE StartUp
    BY <1>0, <1>1 DEF StartUp, ImportInv, ImportComplete, tables, imports
  <1>2. CASE Crash
    BY <1>0, <1>2 DEF Crash, ImportInv, ImportComplete, tables, imports
  <1>3. CASE HasBootstrapped
    <2>1. settled \in BOOLEAN /\ marker \in BOOLEAN /\ marker' = marker
      BY <1>3 DEF TypeInv, TypeOK, HasBootstrapped, tables
    <2>2. CASE Fails
      BY <1>0, <1>3, <2>1, <2>2 DEF HasBootstrapped, Fails, ImportInv, ImportComplete
    <2>3. CASE /\ phase' = (IF marker THEN "up" ELSE "import") /\ settled' = (settled \/ marker)
               /\ UNCHANGED <<mapping, todo>>
      BY <1>0, <1>3, <2>1, <2>3 DEF HasBootstrapped, ImportInv, ImportComplete
    <2>4. QED
      BY <1>3, <2>2, <2>3 DEF HasBootstrapped
  <1>4. ASSUME NEW k \in Key, Import(k) PROVE ImportInv'
    <2>1. k \in Keys' \cup missed' \cup dropped'
      <3>1. CASE Fits(k) /\ \E i \in Id : Insert(i, k, Plain)
        <4>1. PICK i \in Id : Insert(i, k, Plain)
          BY <3>1
        <4>2. [id |-> i, key |-> k, set |-> Plain] \in table'
          BY <4>1 DEF Insert
        <4>3. QED
          BY <4>2 DEF Keys
      <3>2. CASE ~Fits(k)
        BY <1>0, <3>2 DEF Fits
      <3>3. CASE missed' = missed \cup {k}
        BY <3>3
      <3>4. QED
        BY <1>4, <3>1, <3>2, <3>3 DEF Import
    <2>2. QED
      BY <1>0, <1>4, <2>1 DEF Import, LeftAfter, ImportInv, ImportComplete
  <1>5. CASE MarkBootstrapped
    BY <1>0, <1>5 DEF MarkBootstrapped, Marks, Fails, ImportInv, ImportComplete
  <1>6. CASE UNCHANGED <<marker, phase, mapping, todo, imported, settled>>
    BY <1>0, <1>6 DEF ImportInv, ImportComplete
  <1>7. ASSUME Synapse \/ (\E r \in Req : Submit(r) \/ Cut(r) \/ Edit(r) \/ Refresh(r)) \/ UNCHANGED vars
        PROVE  UNCHANGED <<marker, phase, mapping, todo, imported, settled>>
    BY <1>7 DEF vars, tables, process, imports, Synapse, RoomAdded, RoomRemoved, Submit, Cut, Edit, Log,
           CreateBinding, UpdateBinding, DeleteBinding, Refresh, ListRooms, GetSpaceChildren, UpsertCachedRoom
  <1>8. QED
    BY <1>1, <1>2, <1>3, <1>4, <1>5, <1>6, <1>7 DEF Next, Boot

\* Only a step of the import adds to what was imported.
LEMMA OnlyImportBrings ==
    ASSUME [Next]_vars, brought' # brought
    PROVE  phase = "import"
  BY DEF Next, vars, tables, process, imports, Boot, StartUp, Crash, HasBootstrapped, MarkBootstrapped, Import,
         Synapse, RoomAdded, RoomRemoved, Submit, Cut, Edit, Log, CreateBinding, UpdateBinding,
         DeleteBinding, Refresh, ListRooms, GetSpaceChildren, UpsertCachedRoom

LEMMA ImportAlways == Spec => []ImportInv
  BY TypeInit, TypeStep, ImportInit, ImportStep, PTL DEF Spec

\* The import that came to its end has accounted for every mapping, also after
\* one that crashed half way (bootstrap_from_env).
THEOREM ImportIsComplete == Spec => []ImportComplete
  <1>1. ImportInv => ImportComplete
    BY DEF ImportInv
  <1>2. QED
    BY <1>1, ImportAlways, PTL

\* Once a start with mappings has come up, the database is the source of truth:
\* no later start imports anything (bootstrap_from_env).
THEOREM EnvIsIgnored == Spec => DatabaseIsTruth
  <1>1. ImportInv /\ [Next]_vars => [settled => brought' = brought]_vars
    BY OnlyImportBrings DEF ImportInv
  <1>2. QED
    BY <1>1, ImportAlways, PTL DEF Spec, DatabaseIsTruth

-----------------------------------------------------------------------------
(***************************************************************************)
(* The audit log accounts for the table.                                   *)
(***************************************************************************)
Deleted(i) ==
    \/ \E e \in audit : e.kind = "delete" /\ e.id = i
    \/ \E r \in Req : req[r].kind = "delete" /\ Unlogged(r) /\ req[r].id = i

\* A step takes no entry away, and a request stops being unlogged only by
\* writing its entry.
Keeps ==
    /\ audit \subseteq audit' /\ brought \subseteq brought'
    /\ \A r \in Req : Unlogged(r) =>
         \/ Entry(r) \in audit'
         \/ Unlogged(r)' /\ req'[r].kind = req[r].kind /\ req'[r].id = req[r].id
                          /\ req'[r].set = req[r].set

LEMMA EndKeeps ==
    ASSUME TypeInv, NEW r \in Req, NEW o \in {"missing", "err", "cut"}, End(r, o),
           UNCHANGED <<audit, brought>>
    PROVE  Keeps
  <1>1. req \in [Req -> Request] /\ req[r] \in Request
    BY DEF TypeInv, TypeOK
  <1>2. /\ req'[r] = [req[r] EXCEPT !.out = o]
        /\ \A x \in Req \ {r} : req'[x] = req[x]
    BY <1>1 DEF End, Become
  <1>3. /\ req'[r].kind = req[r].kind /\ req'[r].id = req[r].id /\ req'[r].set = req[r].set
        /\ req'[r].stage = req[r].stage /\ req'[r].out # "ok"
    BY <1>1, <1>2 DEF Request
  <1>4. QED
    BY <1>2, <1>3 DEF Keeps, Unlogged

\* A step of a request that is not before its audit entry.
LEMMA OtherKeeps ==
    ASSUME TypeInv, NEW r \in Req, NEW q, Become(r, q), req[r].stage # "audit",
           audit \subseteq audit', brought \subseteq brought'
    PROVE  Keeps
  <1>1. req \in [Req -> Request]
    BY DEF TypeInv, TypeOK
  <1>2. \A x \in Req \ {r} : req'[x] = req[x]
    BY <1>1 DEF Become
  <1>3. QED
    BY <1>2 DEF Keeps, Unlogged

LEMMA StepKeeps == ASSUME TypeInv, [Next]_vars PROVE Keeps
  <1>0. req \in [Req -> Request] /\ \A r \in Req : Apt(req[r], used)
    BY DEF TypeInv, TypeOK
  <1>1. CASE UNCHANGED <<req, audit>> /\ brought \subseteq brought'
    BY <1>1 DEF Keeps, Unlogged
  <1>2. CASE Crash
    <2>1. ASSUME NEW r \in Req
          PROVE  /\ req'[r].kind = req[r].kind /\ req'[r].id = req[r].id /\ req'[r].set = req[r].set
                 /\ req'[r].stage = req[r].stage
                 /\ req[r].out # "ok" => req'[r].out # "ok"
      <3>1. req[r] \in Request
        BY <1>0
      <3>2. req'[r] = [req[r] EXCEPT !.out = "cut"] \/ req'[r] = req[r]
        BY <1>2 DEF Crash
      <3>3. QED
        BY <3>1, <3>2 DEF Request
    <2>2. QED
      BY <1>2, <2>1 DEF Keeps, Unlogged, Crash, tables, imports
  <1>3. ASSUME NEW r \in Req, Submit(r) PROVE Keeps
    <2>1. \E q : Become(r, q)
      BY <1>3 DEF Submit
    <2>2. CASE req[r].stage = "audit"
      <3>1. Written(req[r], used)
        BY <1>0, <2>2 DEF Apt
      <3>2. QED
        BY <1>3, <3>1 DEF Written, Submit
    <2>3. QED
      BY <1>3, <2>1, <2>2, OtherKeeps DEF Submit, tables, imports
  <1>4. ASSUME NEW r \in Req, Cut(r) PROVE Keeps
    BY <1>4, EndKeeps DEF Cut, tables, imports
  <1>5. ASSUME NEW r \in Req, CreateBinding(r) \/ UpdateBinding(r) \/ DeleteBinding(r) PROVE Keeps
    <2>1. \E q : Become(r, q)
      BY <1>5 DEF CreateBinding, UpdateBinding, DeleteBinding, End, ToAudit
    <2>2. req[r].stage # "audit" /\ UNCHANGED <<audit, brought>>
      BY <1>5 DEF CreateBinding, UpdateBinding, DeleteBinding, At, imports
    <2>3. QED
      BY <2>1, <2>2, OtherKeeps
  <1>6. ASSUME NEW r \in Req, Log(r) PROVE Keeps
    <2>1. CASE audit' = audit \cup {Entry(r)} /\ End(r, "ok")
      <3>1. \A x \in Req \ {r} : req'[x] = req[x]
        BY <1>0, <2>1 DEF End, Become
      <3>2. QED
        BY <1>6, <2>1, <3>1 DEF Keeps, Unlogged, Log, imports
    <2>2. CASE End(r, "err") /\ UNCHANGED audit
      BY <1>6, <2>2, EndKeeps DEF Log, imports
    <2>3. QED
      BY <1>6, <2>1, <2>2 DEF Log
  <1>7. ASSUME NEW r \in Req, Refresh(r) PROVE Keeps
    <2>1. \E q : Become(r, q)
      BY <1>7 DEF Refresh, ListRooms, GetSpaceChildren, UpsertCachedRoom, End
    <2>2. req[r].stage # "audit" /\ UNCHANGED <<audit, brought>>
      BY <1>7 DEF Refresh, ListRooms, GetSpaceChildren, UpsertCachedRoom, At, tables, imports
    <2>3. QED
      BY <2>1, <2>2, OtherKeeps
  <1>8. ASSUME Synapse \/ StartUp \/ HasBootstrapped \/ MarkBootstrapped \/ (\E k \in Key : Import(k))
               \/ UNCHANGED vars
        PROVE  UNCHANGED <<req, audit>> /\ brought \subseteq brought'
    BY <1>8 DEF Synapse, RoomAdded, RoomRemoved, StartUp, HasBootstrapped, MarkBootstrapped, Import,
                vars, tables, process, imports
  <1>9. QED
    BY <1>1, <1>2, <1>3, <1>4, <1>5, <1>6, <1>7, <1>8 DEF Next, Boot, Edit

\* An explanation once there stays.
LEMMA ExplanationStays ==
    ASSUME TypeInv, Keeps, NEW i \in Id
    PROVE  /\ \A s : Explains(i, s) => Explains(i, s)'
           /\ Deleted(i) => Deleted(i)'
  <1>1. \A r \in Req : Entry(r).kind = req[r].kind /\ Entry(r).id = req[r].id /\ Entry(r).set = req[r].set
    BY DEF Entry
  <1>2. ASSUME NEW s, Explains(i, s) PROVE Explains(i, s)'
    <2>1. CASE i \in brought /\ s = Plain
      BY <2>1 DEF Keeps, Explains
    <2>2. CASE \E e \in audit : e.kind \in {"create", "update"} /\ e.id = i /\ e.set = s
      BY <2>2 DEF Keeps, Explains
    <2>3. ASSUME NEW r \in Req, req[r].kind \in {"create", "update"}, Unlogged(r), req[r].id = i, req[r].set = s
          PROVE  Explains(i, s)'
      <3>1. CASE Entry(r) \in audit'
        BY <1>1, <2>3, <3>1 DEF Explains
      <3>2. CASE /\ Unlogged(r)' /\ req'[r].kind = req[r].kind /\ req'[r].id = req[r].id
                 /\ req'[r].set = req[r].set
        BY <2>3, <3>2 DEF Explains, Unlogged
      <3>3. QED
        BY <2>3, <3>1, <3>2 DEF Keeps
    <2>4. QED
      BY <1>2, <2>1, <2>2, <2>3 DEF Explains
  <1>3. ASSUME Deleted(i) PROVE Deleted(i)'
    <2>1. CASE \E e \in audit : e.kind = "delete" /\ e.id = i
      BY <2>1 DEF Keeps, Deleted
    <2>2. ASSUME NEW r \in Req, req[r].kind = "delete", Unlogged(r), req[r].id = i
          PROVE  Deleted(i)'
      <3>1. CASE Entry(r) \in audit'
        BY <1>1, <2>2, <3>1 DEF Deleted
      <3>2. CASE Unlogged(r)' /\ req'[r].kind = req[r].kind /\ req'[r].id = req[r].id
        BY <2>2, <3>2 DEF Deleted, Unlogged
      <3>3. QED
        BY <2>2, <3>1, <3>2 DEF Keeps
    <2>3. QED
      BY <1>3, <2>1, <2>2 DEF Deleted
  <1>4. QED
    BY <1>2, <1>3

\* The row a request has just written, or removed, is explained by it.
LEMMA WriterExplains ==
    ASSUME TypeInv, NEW r \in Req, At(r, "write"), NEW i \in Id, ToAudit(r, i),
           NEW s, s = req[r].set
    PROVE  /\ req[r].kind \in {"create", "update"} => Explains(i, s)'
           /\ req[r].kind = "delete" => Deleted(i)'
  <1>1. req \in [Req -> Request] /\ req[r] \in Request
    BY DEF TypeInv, TypeOK
  <1>2. req'[r] = [req[r] EXCEPT !.id = i, !.stage = "audit"]
    BY <1>1 DEF ToAudit, Become
  <1>3. /\ req'[r].kind = req[r].kind /\ req'[r].id = i /\ req'[r].set = req[r].set
        /\ req'[r].stage = "audit" /\ req'[r].out # "ok"
    BY <1>1, <1>2 DEF Request, At
  <1>4. QED
    BY <1>3 DEF Explains, Deleted, Unlogged

LEMMA TraceInit == Init => TableTraced
  BY DEF Init, TableTraced

LEMMA TraceStep == TypeInv /\ TableTraced /\ [Next]_vars => TableTraced'
  <1> SUFFICES ASSUME TypeInv, TableTraced, [Next]_vars PROVE TableTraced'
    OBVIOUS
  <1>0. /\ table \subseteq Binding /\ used \subseteq Id
        /\ \A b \in table : b.id \in Id /\ b.id \in used /\ Explains(b.id, b.set)
        /\ \A i \in used : Row(i) = {} => Deleted(i)
    BY DEF TypeInv, TypeOK, TableTraced, Deleted, Binding
  <1>a. \A i \in Id : (\A s : Explains(i, s) => Explains(i, s)') /\ (Deleted(i) => Deleted(i)')
    BY StepKeeps, ExplanationStays
  <1>b. SUFFICES /\ \A b \in table' : Explains(b.id, b.set)'
                 /\ \A i \in used' : Row(i)' = {} => Deleted(i)'
    BY DEF TableTraced, Deleted
  <1>c. ASSUME NEW i \in Id, NEW k, NEW s, Insert(i, k, s), Explains(i, s)'
        PROVE  /\ \A b \in table' : Explains(b.id, b.set)'
               /\ \A j \in used' : Row(j)' = {} => Deleted(j)'
    <2>1. \A b \in table' : b \in table \/ (b.id = i /\ b.set = s)
      BY <1>c DEF Insert
    <2>2. \E b \in table' : b.id = i
      <3>1. [id |-> i, key |-> k, set |-> s] \in table'
        BY <1>c DEF Insert
      <3>2. QED
        BY <3>1
    <2>3. \A j \in used' : j = i \/ (j \in used /\ (Row(j)' = {} => Row(j) = {}))
      BY <1>c DEF Insert, Row
    <2>4. QED
      BY <1>0, <1>a, <1>c, <2>1, <2>2, <2>3 DEF Row
  <1>1. CASE UNCHANGED <<table, used>>
    BY <1>0, <1>1, <1>a DEF Row
  <1>2. ASSUME NEW k \in Key, NEW i \in Id, Insert(i, k, Plain), brought' = brought \cup {i}
        PROVE  /\ \A b \in table' : Explains(b.id, b.set)'
               /\ \A j \in used' : Row(j)' = {} => Deleted(j)'
    <2>1. Explains(i, Plain)'
      BY <1>2 DEF Explains
    <2>2. QED
      BY <1>2, <1>c, <2>1
  <1>3. ASSUME NEW r \in Req, CreateBinding(r), NEW i \in Id, Insert(i, req[r].key, req[r].set), ToAudit(r, i)
        PROVE  /\ \A b \in table' : Explains(b.id, b.set)'
               /\ \A j \in used' : Row(j)' = {} => Deleted(j)'
    <2>1. PICK s : s = req[r].set
      OBVIOUS
    <2>2. Explains(i, s)'
      BY <1>3, <2>1, WriterExplains DEF CreateBinding
    <2>3. Insert(i, req[r].key, s)
      BY <1>3, <2>1
    <2>4. PICK k : k = req[r].key
      OBVIOUS
    <2>5. QED
      BY <1>c, <2>2, <2>3, <2>4
  <1>4. ASSUME NEW r \in Req, UpdateBinding(r), ToAudit(r, req[r].id),
               table' = {IF b.id = req[r].id THEN [b EXCEPT !.set = req[r].set] ELSE b : b \in table}
        PROVE  /\ \A b \in table' : Explains(b.id, b.set)'
               /\ \A j \in used' : Row(j)' = {} => Deleted(j)'
    <2>1. req[r].id \in Id /\ used' = used
      <3>1. Writable(req[r], used)
        BY <1>4 DEF UpdateBinding, At, TypeInv, Apt
      <3>2. QED
        BY <1>0, <1>4, <3>1 DEF UpdateBinding, Writable
    <2>a. PICK i \in Id : i = req[r].id
      BY <2>1
    <2>b. PICK s : s = req[r].set
      OBVIOUS
    <2>2. Explains(i, s)'
      BY <1>4, <2>a, <2>b, WriterExplains DEF UpdateBinding
    <2>3. ASSUME NEW c \in table' PROVE Explains(c.id, c.set)'
      <3>1. PICK b \in table : c = IF b.id = req[r].id THEN [b EXCEPT !.set = req[r].set] ELSE b
        BY <1>4
      <3>2. CASE b.id = req[r].id
        <4>1. c.id = i /\ c.set = s
          BY <1>0, <2>a, <2>b, <3>1, <3>2 DEF Binding
        <4>2. QED
          BY <2>2, <4>1
      <3>3. CASE b.id # req[r].id
        BY <1>0, <1>a, <3>1, <3>3
      <3>4. QED
        BY <3>2, <3>3
    <2>4. ASSUME NEW j \in used, Row(j)' = {} PROVE Row(j) = {}
      <3>1. ASSUME NEW b \in table, b.id = j PROVE FALSE
        <4>1. PICK c \in table' : c = IF b.id = req[r].id THEN [b EXCEPT !.set = req[r].set] ELSE b
          BY <1>4
        <4>2. c.id = j
          BY <1>0, <3>1, <4>1 DEF Binding
        <4>3. QED
          BY <2>4, <4>2 DEF Row
      <3>2. QED
        BY <3>1 DEF Row
    <2>5. QED
      BY <1>0, <1>a, <2>1, <2>3, <2>4
  <1>5. ASSUME NEW r \in Req, DeleteBinding(r), ToAudit(r, req[r].id), table' = table \ Row(req[r].id)
        PROVE  /\ \A b \in table' : Explains(b.id, b.set)'
               /\ \A j \in used' : Row(j)' = {} => Deleted(j)'
    <2>1. req[r].id \in Id /\ used' = used
      <3>1. Writable(req[r], used)
        BY <1>5 DEF DeleteBinding, At, TypeInv, Apt
      <3>2. QED
        BY <1>0, <1>5, <3>1 DEF DeleteBinding, Writable
    <2>a. PICK i \in Id : i = req[r].id
      BY <2>1
    <2>b. PICK s : s = req[r].set
      OBVIOUS
    <2>2. Deleted(i)'
      BY <1>5, <2>a, <2>b, WriterExplains DEF DeleteBinding
    <2>3. \A j \in used : j = req[r].id \/ (Row(j)' = {} => Row(j) = {})
      BY <1>5 DEF Row
    <2>4. QED
      BY <1>0, <1>5, <1>a, <2>1, <2>a, <2>2, <2>3
  <1>6. \/ UNCHANGED <<table, used>>
        \/ \E k \in Key, i \in Id : Insert(i, k, Plain) /\ brought' = brought \cup {i}
        \/ \E r \in Req : CreateBinding(r)
              /\ \E i \in Id : Insert(i, req[r].key, req[r].set) /\ ToAudit(r, i)
        \/ \E r \in Req : UpdateBinding(r) /\ ToAudit(r, req[r].id)
              /\ table' = {IF b.id = req[r].id THEN [b EXCEPT !.set = req[r].set] ELSE b : b \in table}
        \/ \E r \in Req : DeleteBinding(r) /\ ToAudit(r, req[r].id) /\ table' = table \ Row(req[r].id)
    <2>1. CASE \E k \in Key : Import(k)
      BY <2>1 DEF Import
    <2>2. ASSUME NEW r \in Req, Edit(r) PROVE <1>6!1 \/ <1>6!3 \/ <1>6!4 \/ <1>6!5
      BY <2>2 DEF Edit, CreateBinding, UpdateBinding, DeleteBinding, Log
    <2>3. CASE Synapse \/ StartUp \/ Crash \/ HasBootstrapped \/ MarkBootstrapped \/ UNCHANGED vars
               \/ (\E r \in Req : Submit(r) \/ Cut(r) \/ Refresh(r))
      BY <2>3 DEF Synapse, RoomAdded, RoomRemoved, StartUp, Crash, HasBootstrapped, MarkBootstrapped, vars,
                  tables, process, Submit, Cut, Refresh, ListRooms, GetSpaceChildren, UpsertCachedRoom
    <2>4. QED
      BY <2>1, <2>2, <2>3 DEF Next, Boot
  <1>7. QED
    BY <1>1, <1>2, <1>3, <1>4, <1>5, <1>6

\* Through concurrent edits, failed inserts, crashes and imports, the audit log
\* accounts for every row and every missing row, up to writes cut off from
\* their entry (create_binding, update_binding, delete_binding).
THEOREM TableIsTraced == Spec => []TableTraced
  BY TypeInit, TypeStep, TraceInit, TraceStep, PTL DEF Spec

-----------------------------------------------------------------------------
(***************************************************************************)
(* The refresh: every room it is to see is cached, or on the page it has,  *)
(* or in the listing behind the place it goes on from.  A room that is     *)
(* added moves others back and never over that place.                      *)
(***************************************************************************)
Ahead(t, f, l) == \E n \in 1..Len(l) : n > f /\ l[n] = t
OnPage(t, p) == \E i \in 1..Len(p) : p[i] = t

Covered(q, t, c, l) ==
    \/ c[t] # "absent"
    \/ q.out = "none" /\ q.stage = "list" /\ Ahead(t, q.from, l)
    \/ q.out = "none" /\ q.stage \in {"children", "upsert"} /\ OnPage(t, q.page)
    \/ q.out = "none" /\ q.stage \in {"children", "upsert"} /\ q.next # 0 /\ Ahead(t, q.next, l)

Complete(q, c, l) ==
    q.kind = "refresh" /\ q.out \in {"none", "ok"} => \A t \in q.had : Covered(q, t, c, l)

\* What is about to be cached is a room or a space.
Armed(q) == q.stage = "upsert" /\ q.out = "none" => q.as # "absent"

RefreshInv ==
    \A r \in Req : Armed(req[r]) /\ (r \notin shifted => Complete(req[r], cache, listing))

LEMMA CompleteKept ==
    ASSUME NEW q, NEW c, NEW d, NEW l, NEW m, Complete(q, c, l),
           \A t : c[t] # "absent" => d[t] # "absent",
           \A t : \A f : Ahead(t, f, l) => Ahead(t, f, m)
    PROVE  Complete(q, d, m)
  BY DEF Complete, Covered

\* One request is as it should be, and the others are as they were.
LEMMA OneRefresh ==
    ASSUME TypeOK, RefreshInv, NEW r \in Req, NEW q \in Request, Become(r, q),
           Armed(q), r \notin shifted => Complete(q, cache', listing),
           UNCHANGED <<listing, shifted>>,
           \A t : cache[t] # "absent" => cache'[t] # "absent"
    PROVE  RefreshInv'
  <1>1. /\ req'[r] = q
        /\ \A x \in Req \ {r} : req'[x] = req[x]
    BY Becomes DEF TypeOK
  <1>2. ASSUME NEW x \in Req
        PROVE  Armed(req'[x]) /\ (x \notin shifted' => Complete(req'[x], cache', listing'))
    <2>1. CASE x = r
      BY <1>1, <2>1
    <2>2. CASE x # r
      BY <1>1, <2>2, CompleteKept DEF RefreshInv
    <2>3. QED
      BY <2>1, <2>2
  <1>3. QED
    BY <1>2 DEF RefreshInv

\* A request that fails or is cut off owes nothing.
LEMMA EndRefresh ==
    ASSUME TypeOK, RefreshInv, NEW r \in Req, NEW o \in {"err", "missing", "cut"}, End(r, o),
           UNCHANGED <<cache, listing, shifted>>
    PROVE  RefreshInv'
  <1> DEFINE q == [req[r] EXCEPT !.out = o]
  <1>1. q \in Request /\ q.out = o
    BY ZenonT(60) DEF TypeOK, Request
  <1>2. Become(r, q)
    BY DEF End
  <1> HIDE DEF q
  <1>3. Armed(q) /\ Complete(q, cache', listing)
    BY <1>1 DEF Armed, Complete
  <1>4. QED
    BY <1>1, <1>2, <1>3, OneRefresh

LEMMA RefreshInit == Init => RefreshInv
  BY DEF Init, RefreshInv, Idle, Armed, Complete

LEMMA RefreshBoot == ASSUME TypeOK, RefreshInv, Boot PROVE RefreshInv'
  <1>1. UNCHANGED <<cache, listing, shifted>>
    BY DEF Boot, StartUp, Crash, HasBootstrapped, Import, MarkBootstrapped, tables
  <1>2. CASE UNCHANGED req
    BY <1>1, <1>2 DEF RefreshInv
  <1>3. CASE Crash
    <2>1. ASSUME NEW x \in Req
          PROVE  Armed(req'[x]) /\ (x \notin shifted => Complete(req'[x], cache, listing))
      <3>1. CASE req'[x] = req[x]
        BY <3>1 DEF RefreshInv
      <3>2. CASE req'[x] = [req[x] EXCEPT !.out = "cut"]
        <4>1. req'[x].out = "cut"
          BY <3>2 DEF TypeOK, Request
        <4>2. QED
          BY <4>1 DEF Armed, Complete
      <3>3. QED
        BY <1>3, <3>1, <3>2 DEF Crash
    <2>2. QED
      BY <1>1, <2>1 DEF RefreshInv
  <1>4. QED
    BY <1>2, <1>3 DEF Boot, StartUp, HasBootstrapped, Import, MarkBootstrapped

\* A refresh begins at the start of the listing, with all of it ahead.
LEMMA RefreshSubmit == ASSUME TypeOK, RefreshInv, NEW r \in Req, Submit(r) PROVE RefreshInv'
  <1>1. PICK k \in Kind :
          LET q == [Idle EXCEPT !.kind = k, !.stage = "write"] IN
         \/ k = "create" /\ \E y \in Key, s \in Setting : Become(r, [q EXCEPT !.key = y, !.set = s])
         \/ k = "update" /\ \E i \in used, s \in Setting : Become(r, [q EXCEPT !.id = i, !.set = s])
         \/ k \in {"create", "update"} /\ Become(r, [q EXCEPT !.out = "invalid"])
         \/ k = "delete" /\ \E i \in used : Become(r, [q EXCEPT !.id = i])
         \/ k = "refresh" /\ Become(r, [q EXCEPT !.stage = "list", !.had = Existing,
                                          !.out = IF HasSynapse THEN "none" ELSE "missing"])
    BY KindsAssumption DEF Submit
  <1> DEFINE q == [Idle EXCEPT !.kind = k, !.stage = "write"]
  <1>2. q \in Request /\ q.kind = k /\ q.stage = "write" /\ q.from = 0
    BY IdleType DEF Request, Idle, Stage
  <1>3. UNCHANGED <<cache, listing, shifted>> /\ used \subseteq Id
    BY DEF Submit, TypeOK, tables
  <1>4. Existing \subseteq Rooms /\ \A t \in Existing : Ahead(t, 0, listing)
    <2>1. listing \in Seq(Rooms)
      BY DEF TypeOK
    <2>2. DOMAIN listing = 1..Len(listing) /\ Len(listing) \in Nat
      BY <2>1
    <2>3. QED
      BY <2>1, <2>2, ElementOfSeq DEF Existing, Ahead
  <1> HIDE DEF q
  <1>5. PICK p \in Request :
          /\ Become(r, p)
          /\ \/ p.stage = "write" /\ p.kind # "refresh"
             \/ p.stage = "list" /\ p.from = 0 /\ p.had = Existing /\ p.out # "ok"
    <2>1. ASSUME NEW y \in Key, NEW s \in Setting, k = "create"
          PROVE  /\ [q EXCEPT !.key = y, !.set = s] \in Request
                 /\ [q EXCEPT !.key = y, !.set = s].stage = "write"
                 /\ [q EXCEPT !.key = y, !.set = s].kind # "refresh"
      BY <1>2, <2>1 DEF Request
    <2>2. ASSUME NEW i \in used, NEW s \in Setting, k = "update"
          PROVE  /\ [q EXCEPT !.id = i, !.set = s] \in Request
                 /\ [q EXCEPT !.id = i, !.set = s].stage = "write"
                 /\ [q EXCEPT !.id = i, !.set = s].kind # "refresh"
      BY <1>2, <1>3, <2>2 DEF Request
    <2>3. ASSUME k \in {"create", "update"}
          PROVE  /\ [q EXCEPT !.out = "invalid"] \in Request
                 /\ [q EXCEPT !.out = "invalid"].stage = "write"
                 /\ [q EXCEPT !.out = "invalid"].kind # "refresh"
      BY <1>2, <2>3 DEF Request
    <2>4. ASSUME NEW i \in used, k = "delete"
          PROVE  /\ [q EXCEPT !.id = i] \in Request
                 /\ [q EXCEPT !.id = i].stage = "write"
                 /\ [q EXCEPT !.id = i].kind # "refresh"
      BY <1>2, <1>3, <2>4 DEF Request
    <2>5. ASSUME NEW o \in {"none", "missing"}
          PROVE  /\ [q EXCEPT !.stage = "list", !.had = Existing, !.out = o] \in Request
                 /\ [q EXCEPT !.stage = "list", !.had = Existing, !.out = o].stage = "list"
                 /\ [q EXCEPT !.stage = "list", !.had = Existing, !.out = o].from = 0
                 /\ [q EXCEPT !.stage = "list", !.had = Existing, !.out = o].had = Existing
                 /\ [q EXCEPT !.stage = "list", !.had = Existing, !.out = o].out = o
      BY <1>2, <1>4 DEF Request, Stage
    <2>6. (IF HasSynapse THEN "none" ELSE "missing") \in {"none", "missing"}
      OBVIOUS
    <2> DEFINE Good(p) == /\ p \in Request /\ Become(r, p)
                          /\ \/ p.stage = "write" /\ p.kind # "refresh"
                             \/ p.stage = "list" /\ p.from = 0 /\ p.had = Existing /\ p.out # "ok"
    <2>7. CASE k = "create" /\ \E y \in Key, s \in Setting : Become(r, [q EXCEPT !.key = y, !.set = s])
      <3>1. PICK y \in Key, s \in Setting : Become(r, [q EXCEPT !.key = y, !.set = s])
        BY <2>7
      <3>2. Good([q EXCEPT !.key = y, !.set = s])
        BY <2>1, <2>7, <3>1
      <3>3. QED
        BY <3>2
    <2>8. CASE k = "update" /\ \E i \in used, s \in Setting : Become(r, [q EXCEPT !.id = i, !.set = s])
      <3>1. PICK i \in used, s \in Setting : Become(r, [q EXCEPT !.id = i, !.set = s])
        BY <2>8
      <3>2. Good([q EXCEPT !.id = i, !.set = s])
        BY <2>2, <2>8, <3>1
      <3>3. QED
        BY <3>2
    <2>9. CASE k \in {"create", "update"} /\ Become(r, [q EXCEPT !.out = "invalid"])
      <3>1. Good([q EXCEPT !.out = "invalid"])
        BY <2>3, <2>9
      <3>2. QED
        BY <3>1
    <2>10. CASE k = "delete" /\ \E i \in used : Become(r, [q EXCEPT !.id = i])
      <3>1. PICK i \in used : Become(r, [q EXCEPT !.id = i])
        BY <2>10
      <3>2. Good([q EXCEPT !.id = i])
        BY <2>4, <2>10, <3>1
      <3>3. QED
        BY <3>2
    <2>11. CASE Become(r, [q EXCEPT !.stage = "list", !.had = Existing,
                                    !.out = IF HasSynapse THEN "none" ELSE "missing"])
      <3> DEFINE o == IF HasSynapse THEN "none" ELSE "missing"
      <3>1. Good([q EXCEPT !.stage = "list", !.had = Existing, !.out = o])
        BY <2>5, <2>6, <2>11
      <3>2. QED
        BY <3>1
    <2>12. QED
      BY <1>1, <2>7, <2>8, <2>9, <2>10, <2>11 DEF q
  <1>6. Armed(p)
    BY <1>5 DEF Armed
  <1>7. Complete(p, cache', listing)
    BY <1>4, <1>5 DEF Complete, Covered
  <1>8. QED
    BY <1>3, <1>5, <1>6, <1>7, OneRefresh

LEMMA RefreshEdit ==
    ASSUME TypeOK, RefreshInv, NEW r \in Req, Cut(r) \/ Edit(r)
    PROVE  RefreshInv'
  <1>0. req[r] \in Request /\ Armed(req[r]) /\ (r \notin shifted => Complete(req[r], cache, listing))
    BY DEF TypeOK, RefreshInv
  <1>1. UNCHANGED <<cache, listing, shifted>>
    BY DEF Cut, Edit, CreateBinding, UpdateBinding, DeleteBinding, Log, tables
  <1>2. CASE \E o \in {"err", "missing", "cut"} : End(r, o)
    BY <1>1, <1>2, EndRefresh
  <1>3. ASSUME NEW i \in Id, req[r].kind # "refresh", ToAudit(r, i)
        PROVE  RefreshInv'
    <2> DEFINE q == [req[r] EXCEPT !.id = i, !.stage = "audit"]
    <2>1. q \in Request /\ q.kind # "refresh" /\ q.stage = "audit"
      BY <1>0, <1>3 DEF Request, Stage
    <2>2. Become(r, q)
      BY <1>3 DEF ToAudit
    <2> HIDE DEF q
    <2>3. Armed(q) /\ Complete(q, cache', listing)
      BY <2>1 DEF Armed, Complete
    <2>4. QED
      BY <1>1, <2>1, <2>2, <2>3, OneRefresh
  <1>4. CASE At(r, "audit") /\ End(r, "ok")
    <2> DEFINE q == [req[r] EXCEPT !.out = "ok"]
    <2>1. /\ q \in Request /\ q.kind = req[r].kind /\ q.had = req[r].had /\ q.stage = "audit"
          /\ req[r].stage = "audit" /\ req[r].out = "none"
      BY <1>0, <1>4 DEF Request, At
    <2>2. Become(r, q)
      BY <1>4 DEF End
    <2> HIDE DEF q
    <2>3. Armed(q) /\ (r \notin shifted => Complete(q, cache', listing))
      BY <1>0, <1>1, <2>1 DEF Armed, Complete, Covered
    <2>4. QED
      BY <1>1, <2>1, <2>2, <2>3, OneRefresh
  <1>5. CASE Cut(r)
    BY <1>2, <1>5 DEF Cut
  <1>6. CASE CreateBinding(r)
    BY <1>2, <1>3, <1>6 DEF CreateBinding
  <1>7. CASE UpdateBinding(r)
    <2>1. Row(req[r].id) # {} => req[r].id \in Id
      BY DEF Row, TypeOK, Binding
    <2>2. QED
      BY <1>2, <1>3, <1>7, <2>1 DEF UpdateBinding
  <1>8. CASE DeleteBinding(r)
    <2>1. Row(req[r].id) # {} => req[r].id \in Id
      BY DEF Row, TypeOK, Binding
    <2>2. QED
      BY <1>2, <1>3, <1>8, <2>1 DEF DeleteBinding
  <1>9. CASE Log(r)
    BY <1>2, <1>4, <1>9 DEF Log
  <1>10. QED
    BY <1>5, <1>6, <1>7, <1>8, <1>9 DEF Edit

\* What is ahead of a page's start is on the page, or ahead of the next one's.
LEMMA PageCovers ==
    ASSUME listing \in Seq(Rooms), NEW f \in Nat, NEW t, Ahead(t, f, listing)
    PROVE  OnPage(t, PageFrom(f)) \/ (NextBatch(f) # 0 /\ Ahead(t, NextBatch(f), listing))
  <1>0. Page \in Nat \ {0} /\ Len(listing) \in Nat
    BY RoomsAssumption
  <1>1. PICK k \in 1..Len(listing) : k > f /\ listing[k] = t
    BY DEF Ahead
  <1>2. CASE k > f + Page
    <2>1. NextBatch(f) = f + Page
      BY <1>0, <1>1, <1>2 DEF NextBatch
    <2>2. QED
      BY <1>0, <1>1, <1>2, <2>1 DEF Ahead
  <1>3. CASE k <= f + Page
    <2> DEFINE n == IF f + Page < Len(listing) THEN f + Page ELSE Len(listing)
    <2>1. n \in Nat /\ k <= n /\ n <= Len(listing) /\ f + 1 <= n
      BY <1>0, <1>1, <1>3
    <2>2. PageFrom(f) = SubSeq(listing, f + 1, n)
      BY DEF PageFrom
    <2> HIDE DEF n
    <2> DEFINE m == f + 1
               p == SubSeq(listing, m, n)
    <2>3. m \in Nat /\ m <= n /\ \A i \in m..n : listing[i] \in Rooms
      BY <1>0, <2>1, ElementOfSeq
    <2> HIDE DEF m
    <2>4. Len(p) = n - m + 1 /\ \A i \in 1..(n - m + 1) : p[i] = listing[m + i - 1]
      BY <2>1, <2>3, SubSeqProperties
    <2> HIDE DEF p
    <2> DEFINE j == k - f
    <2>5. j \in 1..(n - m + 1) /\ m + j - 1 = k
      BY <1>0, <1>1, <2>1 DEF m
    <2>6. p[j] = t /\ j \in 1..Len(p)
      <3> HIDE DEF j
      <3>1. QED
        BY <1>1, <2>4, <2>5
    <2>7. OnPage(t, p)
      BY <2>6 DEF OnPage
    <2>8. PageFrom(f) = p
      BY <2>2 DEF p, m
    <2>9. QED
      BY <2>7, <2>8 DEF OnPage
  <1>4. QED
    BY <1>0, <1>1, <1>2, <1>3

LEMMA RefreshList == ASSUME TypeOK, RefreshInv, NEW r \in Req, ListRooms(r) PROVE RefreshInv'
  <1>0. /\ req[r] \in Request /\ listing \in Seq(Rooms) /\ req[r].from \in Nat
        /\ req[r].stage = "list" /\ req[r].out = "none"
        /\ r \notin shifted => Complete(req[r], cache, listing)
    BY DEF TypeOK, RefreshInv, Request, ListRooms, At
  <1>1. UNCHANGED <<cache, listing, shifted>>
    BY DEF ListRooms, tables
  <1> DEFINE f == req[r].from
             p == PageFrom(f)
  <1>2. \A t : Ahead(t, f, listing) =>
            OnPage(t, p) \/ (NextBatch(f) # 0 /\ Ahead(t, NextBatch(f), listing))
    BY <1>0, PageCovers
  <1>3. p \in Seq(Rooms) /\ NextBatch(f) \in Nat
    BY <1>0, PageType
  <1>4. CASE End(r, "err")
    BY <1>1, <1>4, EndRefresh
  <1>5. CASE p = <<>> /\ Become(r, [req[r] EXCEPT !.out = "ok"])
    <2> DEFINE q == [req[r] EXCEPT !.out = "ok"]
    <2>1. /\ q \in Request /\ q.kind = req[r].kind /\ q.had = req[r].had /\ q.stage = "list"
          /\ q.out = "ok"
      BY <1>0 DEF Request
    <2>2. Become(r, q)
      BY <1>5
    <2>3. \A t : ~Ahead(t, f, listing)
      <3>1. ASSUME NEW t, Ahead(t, f, listing) PROVE FALSE
        <4>1. PICK k \in 1..Len(listing) : k > f
          BY <3>1 DEF Ahead
        <4>2. Page \in Nat \ {0} /\ Len(listing) \in Nat /\ f \in Nat
          BY <1>0, RoomsAssumption
        <4> DEFINE n == IF f + Page < Len(listing) THEN f + Page ELSE Len(listing)
        <4>3. n \in Nat /\ f + 1 <= n /\ n <= Len(listing) /\ f + 1 \in Nat
          BY <4>1, <4>2
        <4>4. p = SubSeq(listing, f + 1, n)
          BY DEF PageFrom
        <4> HIDE DEF n, f
        <4> DEFINE m == f + 1
        <4>5. \A i \in m..n : listing[i] \in Rooms
          BY <1>0, <4>2, <4>3, ElementOfSeq
        <4>6. m \in Int /\ n \in Int
          BY <4>2, <4>3
        <4> HIDE DEF m
        <4>7. Len(SubSeq(listing, m, n)) = IF m <= n THEN n - m + 1 ELSE 0
          BY <4>5, <4>6, SubSeqProperties
        <4>8. Len(p) > 0
          BY <4>2, <4>3, <4>4, <4>7 DEF m
        <4>9. QED
          BY <1>5, <4>8, EmptySeq
      <3>2. QED
        BY <3>1
    <2> HIDE DEF q
    <2>4. Armed(q) /\ (r \notin shifted => Complete(q, cache', listing))
      BY <1>0, <1>1, <2>1, <2>3 DEF Armed, Complete, Covered
    <2>5. QED
      BY <1>1, <2>1, <2>2, <2>4, OneRefresh
  <1>6. CASE Become(r, [req[r] EXCEPT !.page = p, !.next = NextBatch(f), !.stage = "children"])
    <2> DEFINE n == NextBatch(f)
               q == [req[r] EXCEPT !.page = p, !.next = n, !.stage = "children"]
    <2> HIDE DEF p
    <2>1. /\ q \in Request /\ q.kind = req[r].kind /\ q.had = req[r].had /\ q.stage = "children"
          /\ q.out = "none" /\ q.page = p /\ q.next = n
      BY <1>0, <1>3 DEF Request, Stage
    <2>2. Become(r, q)
      BY <1>6
    <2> HIDE DEF q
    <2>3. Armed(q) /\ (r \notin shifted => Complete(q, cache', listing))
      BY <1>0, <1>1, <1>2, <2>1 DEF Armed, Complete, Covered
    <2>4. QED
      BY <1>1, <2>1, <2>2, <2>3, OneRefresh
  <1>7. QED
    BY <1>4, <1>5, <1>6 DEF ListRooms

LEMMA RefreshChildren ==
    ASSUME TypeOK, RefreshInv, NEW r \in Req, GetSpaceChildren(r)
    PROVE  RefreshInv'
  <1>0. /\ req[r] \in Request /\ req[r].stage = "children" /\ req[r].out = "none"
        /\ r \notin shifted => Complete(req[r], cache, listing)
    BY DEF TypeOK, RefreshInv, GetSpaceChildren, At
  <1>1. UNCHANGED <<cache, listing, shifted>>
    BY DEF GetSpaceChildren, tables
  <1>2. PICK a \in {"room", "space"} : Become(r, [req[r] EXCEPT !.as = a, !.stage = "upsert"])
    BY DEF GetSpaceChildren
  <1> DEFINE q == [req[r] EXCEPT !.as = a, !.stage = "upsert"]
  <1>3. /\ q \in Request /\ q.kind = req[r].kind /\ q.had = req[r].had /\ q.stage = "upsert"
        /\ q.out = "none" /\ q.page = req[r].page /\ q.next = req[r].next /\ q.as = a
    BY <1>0 DEF Request, Stage
  <1>4. Become(r, q)
    BY <1>2
  <1> HIDE DEF q
  <1>5. Armed(q) /\ (r \notin shifted => Complete(q, cache', listing))
    BY <1>0, <1>1, <1>3 DEF Armed, Complete, Covered
  <1>6. QED
    BY <1>1, <1>3, <1>4, <1>5, OneRefresh

LEMMA HeadIsFirst == ASSUME NEW S, NEW s \in Seq(S), s # <<>> PROVE Head(s) = s[1]
  OBVIOUS

\* What is left of a page once its first room is done.
LEMMA AfterUpsertCovers ==
    ASSUME NEW q \in Request, q.page # <<>>, q.stage = "upsert", q.out = "none",
           NEW c, NEW l, NEW t, Covered(q, t, c, l), t # Head(q.page)
    PROVE  Covered(AfterUpsert(q), t, c, l)
  <1>0. q.page \in Seq(Rooms)
    BY DEF Request
  <1>1. /\ Tail(q.page) \in Seq(Rooms) /\ Len(Tail(q.page)) = Len(q.page) - 1 /\ Len(q.page) \in Nat
        /\ \A i \in 1..Len(Tail(q.page)) : Tail(q.page)[i] = q.page[i + 1]
        /\ Head(q.page) = q.page[1]
    BY <1>0, HeadTailProperties, HeadIsFirst
  <1> DEFINE p == [q EXCEPT !.page = Tail(@), !.as = "absent"]
  <1>2. /\ p \in Request /\ p.page = Tail(q.page) /\ p.next = q.next /\ p.stage = "upsert"
        /\ p.out = "none"
    BY <1>1 DEF Request
  <1> HIDE DEF p
  <1>3. AfterUpsert(q) = CASE p.page # <<>> -> [p EXCEPT !.stage = "children"]
                           [] p.page = <<>> /\ p.next # 0 -> [p EXCEPT !.stage = "list", !.from = p.next]
                           [] OTHER -> [p EXCEPT !.out = "ok"]
    BY DEF AfterUpsert, p
  <1>4. ASSUME OnPage(t, q.page)
        PROVE  OnPage(t, p.page) /\ p.page # <<>>
    <2>1. PICK i \in 1..Len(q.page) : q.page[i] = t
      BY <1>4 DEF OnPage
    <2>2. i # 1 /\ i - 1 \in 1..Len(p.page)
      BY <1>1, <1>2, <2>1
    <2>3. p.page[i - 1] = t
      <3> DEFINE j == i - 1
      <3>1. j \in 1..Len(Tail(q.page)) /\ j + 1 = i
        BY <1>2, <2>1, <2>2
      <3> HIDE DEF j
      <3>2. p.page[j] = t
        BY <1>1, <1>2, <2>1, <3>1
      <3>3. QED
        BY <3>2 DEF j
    <2>4. Len(p.page) # 0
      BY <2>2
    <2>5. p.page # <<>>
      BY <2>4
    <2>6. QED
      BY <2>2, <2>3, <2>5 DEF OnPage
  <1> HIDE DEF p
  <1>5. c[t] # "absent" \/ OnPage(t, q.page) \/ (q.next # 0 /\ Ahead(t, q.next, l))
    BY Zenon DEF Covered
  <1>6. CASE p.page # <<>>
    <2> DEFINE e == [p EXCEPT !.stage = "children"]
    <2>1. AfterUpsert(q) = e
      BY <1>3, <1>6
    <2>2. e.stage = "children" /\ e.out = "none" /\ e.page = p.page /\ e.next = q.next
      BY <1>2 DEF Request
    <2> HIDE DEF e
    <2>3. Covered(e, t, c, l)
      BY <1>4, <1>5, <2>2 DEF Covered
    <2>4. QED
      BY <2>1, <2>3
  <1>7. CASE p.page = <<>> /\ p.next # 0
    <2> DEFINE e == [p EXCEPT !.stage = "list", !.from = p.next]
    <2>1. AfterUpsert(q) = e
      BY <1>3, <1>7
    <2>2. e.stage = "list" /\ e.out = "none" /\ e.from = q.next
      BY <1>2 DEF Request
    <2> HIDE DEF e
    <2>3. Covered(e, t, c, l)
      BY <1>4, <1>5, <1>7, <2>2 DEF Covered
    <2>4. QED
      BY <2>1, <2>3
  <1>8. CASE p.page = <<>> /\ p.next = 0
    <2>1. c[t] # "absent"
      BY <1>2, <1>4, <1>5, <1>8
    <2>2. QED
      BY <2>1 DEF Covered
  <1>9. QED
    BY <1>6, <1>7, <1>8

LEMMA AfterUpsertFields ==
    ASSUME NEW q \in Request, q.page # <<>>, q.stage = "upsert", q.out = "none"
    PROVE  /\ AfterUpsert(q).kind = q.kind
           /\ AfterUpsert(q).had = q.had
           /\ AfterUpsert(q).stage = "upsert" => AfterUpsert(q).out = "ok"
  <1>0. q.page \in Seq(Rooms)
    BY DEF Request
  <1>1. Tail(q.page) \in Seq(Rooms)
    BY <1>0, HeadTailProperties
  <1> DEFINE p == [q EXCEPT !.page = Tail(@), !.as = "absent"]
  <1>2. p \in Request /\ p.kind = q.kind /\ p.had = q.had
    BY <1>1 DEF Request
  <1> HIDE DEF p
  <1>3. AfterUpsert(q) = CASE p.page # <<>> -> [p EXCEPT !.stage = "children"]
                           [] p.page = <<>> /\ p.next # 0 -> [p EXCEPT !.stage = "list", !.from = p.next]
                           [] OTHER -> [p EXCEPT !.out = "ok"]
    BY DEF AfterUpsert, p
  <1>4. CASE AfterUpsert(q) = [p EXCEPT !.stage = "children"]
    BY <1>2, <1>4 DEF Request
  <1>5. CASE AfterUpsert(q) = [p EXCEPT !.stage = "list", !.from = p.next]
    BY <1>2, <1>5 DEF Request
  <1>6. CASE AfterUpsert(q) = [p EXCEPT !.out = "ok"]
    BY <1>2, <1>6 DEF Request
  <1>7. QED
    BY <1>3, <1>4, <1>5, <1>6

LEMMA RefreshUpsert ==
    ASSUME TypeInv, RefreshInv, NEW r \in Req, UpsertCachedRoom(r)
    PROVE  RefreshInv'
  <1>0. /\ TypeOK /\ req[r] \in Request /\ req[r].stage = "upsert" /\ req[r].out = "none"
        /\ req[r].page # <<>> /\ req[r].as # "absent" /\ cache \in [Rooms -> {"absent", "room", "space"}]
        /\ r \notin shifted => Complete(req[r], cache, listing)
    BY DEF TypeInv, TypeOK, RefreshInv, UpsertCachedRoom, At, Apt, Armed
  <1>1. UNCHANGED <<listing, shifted>>
    BY DEF UpsertCachedRoom
  <1>2. CASE End(r, "err") /\ UNCHANGED cache
    BY <1>0, <1>1, <1>2, EndRefresh
  <1>3. CASE /\ Become(r, AfterUpsert(req[r]))
             /\ cache' = [cache EXCEPT ![Head(req[r].page)] = req[r].as]
    <2> DEFINE q == AfterUpsert(req[r])
               h == Head(req[r].page)
    <2>1. q \in Request /\ h \in Rooms
      BY <1>0, AfterUpsertType
    <2>2. q.kind = req[r].kind /\ q.had = req[r].had /\ (q.stage = "upsert" => q.out = "ok")
      BY <1>0, AfterUpsertFields
    <2>3. ASSUME NEW t, Covered(req[r], t, cache, listing), t # h
          PROVE  Covered(q, t, cache, listing)
      BY <1>0, <2>3, AfterUpsertCovers
    <2> HIDE DEF q, h
    <2>4. cache'[h] # "absent" /\ \A t : cache[t] # "absent" => cache'[t] # "absent"
      <3>1. cache' = [cache EXCEPT ![h] = req[r].as]
        BY <1>3 DEF h
      <3>2. cache'[h] = req[r].as /\ \A t : t # h => cache'[t] = cache[t]
        BY <1>0, <2>1, <3>1
      <3>3. QED
        BY <1>0, <3>2
    <2>5. \A t : Covered(req[r], t, cache, listing) => Covered(q, t, cache', listing)
      BY <2>3, <2>4 DEF Covered
    <2>6. Armed(q) /\ (r \notin shifted => Complete(q, cache', listing))
      BY <1>0, <2>2, <2>5 DEF Armed, Complete
    <2>7. Become(r, q)
      BY <1>3 DEF q
    <2>8. QED
      BY <1>0, <1>1, <2>1, <2>4, <2>6, <2>7, OneRefresh
  <1>4. QED
    BY <1>2, <1>3 DEF UpsertCachedRoom

\* A room that is added moves the others back.
LEMMA AddedAhead ==
    ASSUME listing \in Seq(Rooms), NEW x \in Rooms, NEW n \in 0..Len(listing),
           listing' = SubSeq(listing, 1, n) \o <<x>> \o SubSeq(listing, n + 1, Len(listing)),
           NEW t, NEW f, Ahead(t, f, listing), f \in Nat
    PROVE  Ahead(t, f, listing')
  <1> DEFINE L == Len(listing)
             m == n + 1
             a == SubSeq(listing, 1, n)
             b == SubSeq(listing, m, L)
  <1>0. L \in Nat /\ n \in Nat /\ m \in Nat /\ m = n + 1 /\ n <= L
    OBVIOUS
  <1>1. (\A i \in 1..n : listing[i] \in Rooms) /\ (\A i \in m..L : listing[i] \in Rooms)
    BY <1>0, ElementOfSeq
  <1>2. listing' = (a \o <<x>>) \o b
    OBVIOUS
  <1> HIDE DEF L, m
  <1>3. a \in Seq(Rooms) /\ Len(a) = n /\ \A i \in 1..n : a[i] = listing[i]
    <2>1. \A i \in 1..(n - 1 + 1) : SubSeq(listing, 1, n)[i] = listing[1 + i - 1]
      BY <1>0, <1>1, SubSeqProperties
    <2>2. SubSeq(listing, 1, n) \in Seq(Rooms) /\ Len(SubSeq(listing, 1, n)) = IF 1 <= n THEN n - 1 + 1 ELSE 0
      BY <1>0, <1>1, SubSeqProperties
    <2>3. ASSUME NEW i \in 1..n PROVE a[i] = listing[i]
      <3>1. i \in 1..(n - 1 + 1) /\ 1 + i - 1 = i
        BY <1>0
      <3>2. QED
        BY <2>1, <3>1
    <2>4. QED
      BY <1>0, <2>2, <2>3
  <1>4. b \in Seq(Rooms) /\ Len(b) = L - n /\ \A i \in 1..(L - n) : b[i] = listing[n + i]
    <2>1. /\ b \in Seq(Rooms) /\ Len(b) = IF m <= L THEN L - m + 1 ELSE 0
          /\ \A i \in 1..(L - m + 1) : b[i] = listing[m + i - 1]
      BY <1>0, <1>1, SubSeqProperties
    <2>2. L - m + 1 = L - n /\ \A i \in 1..(L - n) : m + i - 1 = n + i
      BY <1>0
    <2>3. Len(b) = L - n
      BY <1>0, <2>1
    <2> HIDE DEF b
    <2>4. ASSUME NEW i \in 1..(L - n) PROVE b[i] = listing[n + i]
      <3>1. i \in 1..(L - m + 1) /\ m + i - 1 = n + i
        BY <2>2
      <3>2. QED
        BY <2>1, <3>1
    <2>5. QED
      BY <2>1, <2>3, <2>4
  <1> HIDE DEF a, b
  <1> DEFINE c == a \o <<x>>
  <1>5. <<x>> \in Seq(Rooms) /\ Len(<<x>>) = 1
    OBVIOUS
  <1>6. /\ c \in Seq(Rooms) /\ Len(c) = n + 1
        /\ \A i \in 1..n : c[i] = listing[i]
    <2>1. /\ c \in Seq(Rooms) /\ Len(c) = Len(a) + Len(<<x>>)
          /\ \A i \in 1..(Len(a) + Len(<<x>>)) : c[i] = IF i <= Len(a) THEN a[i] ELSE <<x>>[i - Len(a)]
      BY <1>3, <1>5, ConcatProperties
    <2> HIDE DEF c
    <2>2. QED
      BY <1>0, <1>3, <1>5, <2>1
  <1>7. listing' = c \o b
    BY <1>2
  <1> HIDE DEF c
  <1>8. /\ Len(listing') = Len(c) + Len(b)
        /\ \A i \in 1..(Len(c) + Len(b)) : listing'[i] = IF i <= Len(c) THEN c[i] ELSE b[i - Len(c)]
    <2>1. /\ Len(c \o b) = Len(c) + Len(b)
          /\ \A i \in 1..(Len(c) + Len(b)) : (c \o b)[i] = IF i <= Len(c) THEN c[i] ELSE b[i - Len(c)]
      BY <1>4, <1>6, ConcatProperties, Zenon
    <2>2. QED
      BY <1>7, <2>1, Zenon
  <1>9. PICK k \in 1..L : k > f /\ listing[k] = t
    BY DEF Ahead, L
  <1>10. CASE k <= n
    <2> DEFINE both == Len(c) + Len(b)
    <2>0. k \in 1..n /\ k \in 1..both /\ k <= Len(c)
      BY <1>0, <1>4, <1>6, <1>9, <1>10
    <2>1. k \in 1..Len(listing') /\ listing'[k] = t
      <3>1. listing'[k] = c[k]
        BY <1>8, <2>0
      <3>2. QED
        BY <1>6, <1>8, <1>9, <2>0, <3>1
    <2>2. QED
      BY <1>9, <2>1 DEF Ahead
  <1>11. CASE k > n
    <2> DEFINE j == k + 1
               i == k - n
    <2>1. j \in 1..(Len(c) + Len(b)) /\ ~(j <= Len(c)) /\ j - Len(c) = i /\ i \in 1..(L - n) /\ n + i = k /\ j > f
      BY <1>0, <1>4, <1>6, <1>9, <1>11
    <2> HIDE DEF j, i
    <2>2. listing'[j] = b[i]
      BY <1>8, <2>1
    <2>3. listing'[j] = t
      BY <1>4, <1>9, <2>1, <2>2
    <2>4. QED
      BY <1>8, <2>1, <2>3 DEF Ahead
  <1>12. QED
    BY <1>0, <1>9, <1>10, <1>11

LEMMA RefreshSynapse == ASSUME TypeOK, RefreshInv, Synapse PROVE RefreshInv'
  <1>0. listing \in Seq(Rooms) /\ \A r \in Req : req[r] \in Request
    BY DEF TypeOK
  <1>1. ASSUME NEW x \in Rooms, RoomAdded(x) PROVE RefreshInv'
    <2>1. PICK n \in 0..Len(listing) :
             listing' = SubSeq(listing, 1, n) \o <<x>> \o SubSeq(listing, n + 1, Len(listing))
      BY <1>1 DEF RoomAdded
    <2>2. \A t : \A f \in Nat : Ahead(t, f, listing) => Ahead(t, f, listing')
      BY <1>0, <2>1, AddedAhead
    <2>3. UNCHANGED <<cache, req, shifted>>
      BY <1>1 DEF RoomAdded, tables, process
    <2>4. ASSUME NEW r \in Req, NEW t, Covered(req[r], t, cache, listing)
          PROVE  Covered(req[r], t, cache, listing')
      <3>1. req[r].from \in Nat /\ req[r].next \in Nat
        BY <1>0 DEF Request
      <3>2. QED
        BY <2>2, <2>4, <3>1 DEF Covered
    <2>5. QED
      BY <2>3, <2>4 DEF RefreshInv, Complete
  <1>2. ASSUME NEW x \in Rooms, RoomRemoved(x) PROVE RefreshInv'
    <2>1. UNCHANGED <<cache, req>>
      BY <1>2 DEF RoomRemoved, tables, process
    <2>2. shifted' = shifted \cup {r \in Req : req[r].kind = "refresh" /\ req[r].out = "none"}
      BY <1>2 DEF RoomRemoved
    <2>3. ASSUME NEW r \in Req, r \notin shifted' PROVE Complete(req[r], cache, listing')
      BY <2>2, <2>3 DEF RefreshInv, Complete, Covered
    <2>4. QED
      BY <2>1, <2>3 DEF RefreshInv
  <1>3. QED
    BY <1>1, <1>2 DEF Synapse

LEMMA RefreshStep == TypeInv /\ RefreshInv /\ [Next]_vars => RefreshInv'
  <1> SUFFICES ASSUME TypeInv, RefreshInv, [Next]_vars
               PROVE  RefreshInv'
    OBVIOUS
  <1>0. TypeOK
    BY DEF TypeInv
  <1>1. CASE Boot
    BY <1>0, <1>1, RefreshBoot
  <1>2. CASE Synapse
    BY <1>0, <1>2, RefreshSynapse
  <1>3. ASSUME NEW r \in Req, Submit(r) \/ Cut(r) \/ Edit(r) \/ Refresh(r)
        PROVE  RefreshInv'
    BY <1>0, <1>3, RefreshSubmit, RefreshEdit, RefreshList, RefreshChildren, RefreshUpsert DEF Refresh
  <1>4. CASE UNCHANGED vars
    BY <1>4 DEF vars, tables, process, RefreshInv
  <1>5. QED
    BY <1>1, <1>2, <1>3, <1>4 DEF Next

\* A refresh that reports success has cached every room that was there when it began,
\* though rooms were added meanwhile, if none was removed (refresh_room_cache).
THEOREM RefreshIsComplete == Spec => []RefreshSeesAll
  <1>1. Init => TypeInv /\ RefreshInv
    BY TypeInit, RefreshInit
  <1>2. TypeInv /\ RefreshInv /\ [Next]_vars => (TypeInv /\ RefreshInv)'
    BY TypeStep, RefreshStep
  <1>3. RefreshInv => RefreshSeesAll
    BY DEF RefreshInv, RefreshSeesAll, Complete, Covered
  <1>4. QED
    BY <1>1, <1>2, <1>3, PTL DEF Spec
=============================================================================
