-------------------------- MODULE TokenCacheProofs --------------------------
(***************************************************************************)
(* Theorems about TokenCache, for any number of calls and tokens, any      *)
(* lifetimes and any margin of at least two waits: one fetch at a time,    *)
(* the margin is enough, and the clients implement AdminCalls.             *)
(***************************************************************************)
EXTENDS TokenCache, FiniteSetTheorems, TLAPS

USE DEF At, Become, NoToken

(***************************************************************************)
(* The inductive invariant: TypeOK and the following parts.                *)
(***************************************************************************)

\* The mutex is held by who is fetching.
Locking == \A r \in Req : holder = r <=> req[r].stage \in {"fetch", "grant"}

\* What each stage says of the tries and of the effect.
Trying ==
    \A r \in Req :
        /\ IsFiniteSet(req[r].refused)
        /\ req[r].stage = "idle" => req[r].refused = {}
        /\ req[r].stage \notin {"reply", "end"} => req[r].effects = 0
        /\ req[r].stage = "reply" => req[r].effects = 1
        /\ req[r].stage \in {"idle", "lock", "fetch", "grant", "send"}
              => Cardinality(req[r].refused) = req[r].try - 1
        /\ req[r].stage = "refusal" => Cardinality(req[r].refused) = req[r].try
        /\ req[r].stage = "clear" => req[r].try = 2 /\ Cardinality(req[r].refused) = 1

\* A token somebody knows has been issued.
Known ==
    /\ cache.token # 0 => life[cache.token] # -1
    /\ \A r \in Req : /\ req[r].token # 0 => life[req[r].token] # -1
                      /\ \A t \in req[r].refused : life[t] # -1

\* A token on its way from the service is nobody else's yet; one that was
\* refused to a call is not in the cache when the call looks there again.
Fresh ==
    /\ cache.left > 0 => cache.token # 0
    /\ \A r \in Req :
        /\ req[r].stage \in {"grant", "send"} => req[r].token # 0
        /\ req[r].stage \in {"lock", "fetch", "grant"} => cache.token \notin req[r].refused
        /\ req[r].stage = "send" => req[r].token \notin req[r].refused
        /\ req[r].stage = "grant" =>
             /\ cache.token # req[r].token
             /\ \A q \in Req : /\ req[r].token \notin req[q].refused
                               /\ q # r => req[q].token # req[r].token

\* What is left of a token, in the cache and on the network.
Timing ==
    /\ cache.left > 0 => left[cache.token] >= cache.left + Margin - Timeout
    /\ \A r \in Req :
        /\ req[r].stage = "grant" => left[req[r].token] >= life[req[r].token] - req[r].age
        /\ req[r].stage = "send" => \/ life[req[r].token] <= Timeout + Timeout
                                    \/ left[req[r].token] >= Timeout - req[r].age + 1

Inv == TypeOK /\ Locking /\ Trying /\ Known /\ Fresh /\ Timing /\ ExpiredOnlyIfShort

-----------------------------------------------------------------------------
LEMMA MonusNat == \A n, m \in Nat : Monus(n, m) \in Nat
BY DEF Monus

\* The invariant holds at the start.
LEMMA Starts == Init => Inv
<1> SUFFICES ASSUME Init PROVE Inv
    OBVIOUS
<1>1. TypeOK
    BY TimeAssumption, BoundsAssumption DEF Init, TypeOK, Request, Stage, Empty
<1>2. Locking /\ Known /\ Fresh /\ Timing /\ ExpiredOnlyIfShort
    BY NoneAssumption DEF Init, Locking, Known, Fresh, Timing, ExpiredOnlyIfShort, Empty
<1>3. IsFiniteSet({}) /\ Cardinality({}) = 0
    BY FS_EmptySet
<1>4. Trying
    BY SMTT(30), <1>3 DEF Init, Trying
<1> QED BY <1>1, <1>2, <1>4 DEF Inv

LEMMA TokenNat == Token \subseteq Nat /\ 0 \notin Token
BY BoundsAssumption DEF Token

\* A record a call may become.
Fit(q) == q \in Request /\ q.age <= Timeout

\* A call that becomes a record of the type leaves the calls typed.
LEMMA RequestKept ==
    ASSUME TypeOK, NEW r \in Req, NEW q, Fit(q), Become(r, q)
    PROVE  req' \in [Req -> Request] /\ \A x \in Req : req'[x].age <= Timeout
BY DEF TypeOK, Fit

\* The records the steps of a call lead to.
LEMMA Fits ==
    ASSUME TypeOK, NEW r \in Req
    PROVE  /\ Fit([req[r] EXCEPT !.stage = "lock"])
           /\ Fit([req[r] EXCEPT !.stage = "fetch", !.token = 0, !.age = 0])
           /\ \A t \in Token \cup {0} :
                 /\ Fit([req[r] EXCEPT !.stage = "send", !.token = t, !.age = 0])
                 /\ Fit([req[r] EXCEPT !.stage = "grant", !.token = t])
           /\ \A o \in {"ok", "refused", "err", "cut"} :
                 Fit([req[r] EXCEPT !.stage = "end", !.token = 0, !.age = 0, !.out = o])
           /\ Fit([req[r] EXCEPT !.stage = "clear", !.try = 2, !.token = 0, !.age = 0])
           /\ Fit([req[r] EXCEPT !.stage = "reply", !.effects = @ + 1])
           /\ req[r].token # 0 => Fit([req[r] EXCEPT !.stage = "refusal", !.refused = @ \cup {req[r].token}])
           /\ req[r].token \in Token \cup {0}
           /\ req[r].stage \in InFlight /\ req[r].age < Timeout => Fit([req[r] EXCEPT !.age = @ + 1])
           /\ Fit(req[r])
<1> DEFINE q == req[r]
<1>1. q \in Request /\ q.age <= Timeout
    BY DEF TypeOK
<1> HIDE DEF q
<1>2. ASSUME NEW t \in Token \cup {0} PROVE Fit([q EXCEPT !.stage = "send", !.token = t, !.age = 0])
  <2>1. [q EXCEPT !.stage = "send", !.token = t, !.age = 0] \in Request
    BY <1>1, <1>2 DEF Request, Stage
  <2> QED BY <1>1, <2>1, TimeAssumption DEF Fit, Request
<1>3. ASSUME NEW t \in Token \cup {0} PROVE Fit([q EXCEPT !.stage = "grant", !.token = t])
  <2>1. [q EXCEPT !.stage = "grant", !.token = t] \in Request
    BY <1>1, <1>3 DEF Request, Stage
  <2> QED BY <1>1, <2>1, TimeAssumption DEF Fit, Request
<1>4. ASSUME NEW o \in {"ok", "refused", "err", "cut"}
      PROVE  Fit([q EXCEPT !.stage = "end", !.token = 0, !.age = 0, !.out = o])
  <2>1. [q EXCEPT !.stage = "end", !.token = 0, !.age = 0, !.out = o] \in Request
    BY <1>1, <1>4 DEF Request, Stage
  <2> QED BY <1>1, <2>1, TimeAssumption DEF Fit, Request
<1>5. Fit([q EXCEPT !.stage = "lock"])
  <2>1. [q EXCEPT !.stage = "lock"] \in Request
    BY <1>1 DEF Request, Stage
  <2> QED BY <1>1, <2>1, TimeAssumption DEF Fit, Request
<1>6. Fit([q EXCEPT !.stage = "fetch", !.token = 0, !.age = 0])
  <2>1. [q EXCEPT !.stage = "fetch", !.token = 0, !.age = 0] \in Request
    BY <1>1 DEF Request, Stage
  <2> QED BY <1>1, <2>1, TimeAssumption DEF Fit, Request
<1>7. Fit([q EXCEPT !.stage = "clear", !.try = 2, !.token = 0, !.age = 0])
  <2>1. [q EXCEPT !.stage = "clear", !.try = 2, !.token = 0, !.age = 0] \in Request
    BY <1>1 DEF Request, Stage
  <2> QED BY <1>1, <2>1, TimeAssumption DEF Fit, Request
<1>8. Fit([q EXCEPT !.stage = "reply", !.effects = @ + 1])
  <2>0. ASSUME NEW n \in Nat PROVE [q EXCEPT !.stage = "reply", !.effects = n] \in Request
    BY <1>1 DEF Request, Stage
  <2>1. [q EXCEPT !.stage = "reply", !.effects = @ + 1] \in Request
    <3>1. q.effects + 1 \in Nat
      BY <1>1 DEF Request
    <3> QED BY <2>0, <3>1
  <2> QED BY <1>1, <2>1, TimeAssumption DEF Fit, Request
<1>9. ASSUME q.token # 0
      PROVE  Fit([q EXCEPT !.stage = "refusal", !.refused = @ \cup {q.token}])
  <2>1. [q EXCEPT !.stage = "refusal", !.refused = @ \cup {q.token}] \in Request
    BY <1>1, <1>9 DEF Request, Stage
  <2> QED BY <1>1, <2>1, TimeAssumption DEF Fit, Request
<1>10. ASSUME q.age < Timeout PROVE Fit([q EXCEPT !.age = @ + 1])
  <2>1. [q EXCEPT !.age = @ + 1] \in Request
    BY <1>1, <1>10 DEF Request, Stage
  <2>2. q.age \in Nat /\ [q EXCEPT !.age = @ + 1].age = q.age + 1
    BY <1>1 DEF Request
  <2> QED BY <1>10, <2>1, <2>2, TimeAssumption DEF Fit
<1>11. q.token \in Token \cup {0}
    BY <1>1 DEF Request
<1> QED BY <1>1, <1>2, <1>3, <1>4, <1>5, <1>6, <1>7, <1>8, <1>9, <1>10, <1>11 DEF Fit, q

\* The types are kept by every step.
LEMMA TypeKept == TypeOK /\ Fresh /\ [Next]_vars => TypeOK'
<1> USE TimeAssumption, TokenNat
<1>1. ASSUME TypeOK, Tick PROVE TypeOK'
  <2>1. left' \in [Token -> Nat] /\ cache' \in [token : Token \cup {0}, left : Nat]
    BY <1>1, MonusNat DEF Tick, TypeOK
  <2>2. ASSUME NEW r \in Req PROVE Fit(req'[r])
    BY <1>1, <2>2, Fits DEF Tick
  <2>3. req' \in [Req -> Request] /\ \A r \in Req : req'[r].age <= Timeout
    BY <1>1, <2>2 DEF Tick, Fit
  <2> QED BY <1>1, <2>1, <2>3 DEF Tick, TypeOK
<1>2. ASSUME TypeOK, NEW t \in Token, Revoke(t) PROVE TypeOK'
    BY <1>2 DEF Revoke, TypeOK
<1>3. ASSUME TypeOK, NEW r \in Req, Begin(r) PROVE TypeOK'
  <2>1. req' \in [Req -> Request] /\ \A x \in Req : req'[x].age <= Timeout
    BY <1>3, Fits, RequestKept DEF Begin
  <2> QED BY <1>3, <2>1 DEF Begin, TypeOK
<1>4. ASSUME TypeOK, NEW r \in Req, AdminToken(r) PROVE TypeOK'
  <2>1. cache.token \in Token \cup {0}
    BY <1>4 DEF TypeOK
  <2>2. req' \in [Req -> Request] /\ \A x \in Req : req'[x].age <= Timeout
    BY ZenonT(60), <1>4, <2>1, Fits, RequestKept DEF AdminToken, Send
  <2> QED BY <1>4, <2>2 DEF AdminToken, TypeOK
<1>5. ASSUME TypeOK, Fresh, NEW r \in Req, ReceiveToken(r) PROVE TypeOK'
  <2>1. req[r].token \in Token
    BY <1>5, Fits DEF Fresh, ReceiveToken
  <2>2. req' \in [Req -> Request] /\ \A x \in Req : req'[x].age <= Timeout
    BY <1>5, <2>1, Fits, RequestKept DEF ReceiveToken, Send
  <2>3. life[req[r].token] \in Lives \cup {-1}
    BY <1>5, <2>1 DEF TypeOK
  <2>4. FreshFor(req[r].token) \in Nat
    <3>1. CASE life[req[r].token] = -1
      BY <3>1 DEF FreshFor, Monus
    <3>2. CASE life[req[r].token] \in Lives
      <4>1. life[req[r].token] \in Nat
        BY <3>2
      <4> QED BY <4>1, MonusNat DEF FreshFor
    <3> QED BY <2>3, <3>1, <3>2
  <2>5. cache' \in [token : Token \cup {0}, left : Nat]
    BY <1>5, <2>1, <2>4 DEF ReceiveToken
  <2> QED BY <1>5, <2>2, <2>5 DEF ReceiveToken, TypeOK
<1>6. ASSUME TypeOK, NEW r \in Req, Answered(r) PROVE TypeOK'
  <2>1. req' \in [Req -> Request] /\ \A x \in Req : req'[x].age <= Timeout
    <3>1. CASE End(r, "ok")
      BY <1>6, <3>1, Fits, RequestKept DEF End
    <3>2. CASE End(r, "refused")
      BY <1>6, <3>2, Fits, RequestKept DEF End
    <3>3. CASE Become(r, AfterRefusal(r))
      <4>1. Fit(AfterRefusal(r))
        BY <1>6, Fits DEF AfterRefusal
      <4> QED BY <1>6, <3>3, <4>1, RequestKept
    <3> QED BY <1>6, <3>1, <3>2, <3>3 DEF Answered
  <2> QED BY <1>6, <2>1 DEF Answered, TypeOK
<1>7. ASSUME TypeOK, NEW r \in Req, ClearCachedToken(r) PROVE TypeOK'
  <2>1. req' \in [Req -> Request] /\ \A x \in Req : req'[x].age <= Timeout
    BY <1>7, Fits, RequestKept DEF ClearCachedToken
  <2> QED BY <1>7, <2>1 DEF ClearCachedToken, TypeOK, Empty
<1>8. ASSUME TypeOK, Fresh, NEW r \in Req, Judge(r) PROVE TypeOK'
  <2>1. req[r].token # 0
    BY <1>8 DEF Judge, Fresh
  <2>2. req' \in [Req -> Request] /\ \A x \in Req : req'[x].age <= Timeout
    BY <1>8, <2>1, Fits, RequestKept DEF Judge
  <2> QED BY <1>8, <2>2 DEF Judge, TypeOK
<1>9. ASSUME TypeOK, NEW r \in Req, NEW t \in Token, Issue(r, t) PROVE TypeOK'
  <2>1. req' \in [Req -> Request] /\ \A x \in Req : req'[x].age <= Timeout
    BY <1>9, Fits, RequestKept DEF Issue
  <2>2. life' \in [Token -> Lives \cup {-1}] /\ left' \in [Token -> Nat]
    BY <1>9 DEF Issue, TypeOK
  <2> QED BY <1>9, <2>1, <2>2 DEF Issue, TypeOK
<1>10. ASSUME TypeOK, NEW r \in Req, SendFails(r) PROVE TypeOK'
  <2>1. req' \in [Req -> Request] /\ \A x \in Req : req'[x].age <= Timeout
    BY <1>10, Fits, RequestKept DEF SendFails, AfterError
  <2> QED BY <1>10, <2>1 DEF SendFails, TypeOK, Released
<1>11. ASSUME TypeOK, NEW r \in Req, Cut(r) PROVE TypeOK'
  <2>1. req' \in [Req -> Request] /\ \A x \in Req : req'[x].age <= Timeout
    BY <1>11, Fits, RequestKept DEF Cut, End
  <2> QED BY <1>11, <2>1 DEF Cut, TypeOK, Released
<1>12. ASSUME TypeOK, UNCHANGED vars PROVE TypeOK'
    BY <1>12 DEF vars, TypeOK
<1> QED BY <1>1, <1>2, <1>3, <1>4, <1>5, <1>6, <1>7, <1>8, <1>9, <1>10, <1>11, <1>12
        DEF Next, Client, Service

-----------------------------------------------------------------------------
(***************************************************************************)
(* What a step does to the calls, field by field.                          *)
(***************************************************************************)
Moved(r, s, n, t, a, o) ==
    /\ \A x \in Req \ {r} : req'[x] = req[x]
    /\ req'[r].stage = s /\ req'[r].try = n /\ req'[r].token = t
    /\ req'[r].age = a /\ req'[r].out = o

Steady(r) == req'[r].refused = req[r].refused /\ req'[r].effects = req[r].effects

LEMMA BeginStep ==
    ASSUME TypeOK, NEW r \in Req, Begin(r)
    PROVE  Moved(r, "lock", req[r].try, req[r].token, req[r].age, req[r].out) /\ Steady(r)
<1>1. req \in [Req -> Request] /\ req[r] \in Request
    BY DEF TypeOK
<1> QED BY <1>1 DEF Begin, Request, Moved, Steady

LEMMA CachedStep ==
    ASSUME TypeOK, NEW r \in Req, Send(r, cache.token)
    PROVE  Moved(r, "send", req[r].try, cache.token, 0, req[r].out) /\ Steady(r)
<1>1. req \in [Req -> Request] /\ req[r] \in Request
    BY DEF TypeOK
<1> QED BY <1>1 DEF Send, Request, Moved, Steady

LEMMA FetchStep ==
    ASSUME TypeOK, NEW r \in Req, Become(r, [req[r] EXCEPT !.stage = "fetch", !.token = 0, !.age = 0])
    PROVE  Moved(r, "fetch", req[r].try, 0, 0, req[r].out) /\ Steady(r)
<1>1. req \in [Req -> Request] /\ req[r] \in Request
    BY DEF TypeOK
<1> QED BY <1>1 DEF Become, Request, Moved, Steady

LEMMA ReceiveStep ==
    ASSUME TypeOK, NEW r \in Req, ReceiveToken(r)
    PROVE  Moved(r, "send", req[r].try, req[r].token, 0, req[r].out) /\ Steady(r)
<1>1. req \in [Req -> Request] /\ req[r] \in Request
    BY DEF TypeOK
<1> QED BY <1>1 DEF ReceiveToken, Send, Request, Moved, Steady

LEMMA EndStep ==
    ASSUME TypeOK, NEW r \in Req, NEW o, End(r, o)
    PROVE  Moved(r, "end", req[r].try, 0, 0, o) /\ Steady(r)
<1>1. req \in [Req -> Request] /\ req[r] \in Request
    BY DEF TypeOK
<1> QED BY <1>1 DEF End, Request, Moved, Steady

LEMMA RetryStep ==
    ASSUME TypeOK, NEW r \in Req, Become(r, AfterRefusal(r))
    PROVE  Moved(r, "clear", 2, 0, 0, req[r].out) /\ Steady(r)
<1>1. req \in [Req -> Request] /\ req[r] \in Request
    BY DEF TypeOK
<1> QED BY <1>1 DEF AfterRefusal, Request, Moved, Steady

LEMMA ClearStep ==
    ASSUME TypeOK, NEW r \in Req, ClearCachedToken(r)
    PROVE  Moved(r, "lock", req[r].try, req[r].token, req[r].age, req[r].out) /\ Steady(r)
<1>1. req \in [Req -> Request] /\ req[r] \in Request
    BY DEF TypeOK
<1> QED BY <1>1 DEF ClearCachedToken, Request, Moved, Steady

LEMMA IssueStep ==
    ASSUME TypeOK, NEW r \in Req, NEW t \in Token, Issue(r, t)
    PROVE  Moved(r, "grant", req[r].try, t, req[r].age, req[r].out) /\ Steady(r)
<1>1. req \in [Req -> Request] /\ req[r] \in Request
    BY DEF TypeOK
<1> QED BY <1>1 DEF Issue, Request, Moved, Steady

LEMMA DoStep ==
    ASSUME TypeOK, NEW r \in Req, Become(r, [req[r] EXCEPT !.stage = "reply", !.effects = @ + 1])
    PROVE  /\ Moved(r, "reply", req[r].try, req[r].token, req[r].age, req[r].out)
           /\ req'[r].refused = req[r].refused /\ req'[r].effects = req[r].effects + 1
<1>1. req \in [Req -> Request] /\ req[r] \in Request
    BY DEF TypeOK
<1> QED BY <1>1 DEF Become, Request, Moved, Steady

LEMMA RefuseStep ==
    ASSUME TypeOK, NEW r \in Req, Become(r, [req[r] EXCEPT !.stage = "refusal", !.refused = @ \cup {req[r].token}])
    PROVE  /\ Moved(r, "refusal", req[r].try, req[r].token, req[r].age, req[r].out)
           /\ req'[r].refused = req[r].refused \cup {req[r].token} /\ req'[r].effects = req[r].effects
<1>1. req \in [Req -> Request] /\ req[r] \in Request
    BY DEF TypeOK
<1> QED BY <1>1 DEF Become, Request, Moved, Steady

\* A tick changes only the ages.
LEMMA TickStep ==
    ASSUME TypeOK, Tick, NEW r \in Req
    PROVE  \/ req[r].stage \notin InFlight /\ req'[r] = req[r]
           \/ /\ req[r].stage \in InFlight /\ req[r].age < Timeout
              /\ req'[r].stage = req[r].stage /\ req'[r].try = req[r].try
              /\ req'[r].token = req[r].token /\ req'[r].age = req[r].age + 1
              /\ req'[r].out = req[r].out /\ Steady(r)
<1>1. req[r] \in Request
    BY DEF TypeOK
<1> QED BY <1>1 DEF Tick, Request, Steady

-----------------------------------------------------------------------------
(***************************************************************************)
(* The steps keep the rest of the invariant.                               *)
(***************************************************************************)
Rest == Locking /\ Trying /\ Known /\ Fresh /\ Timing /\ ExpiredOnlyIfShort

\* What the types say of a call, its token and the cache.
LEMMA ReqTyped ==
    TypeOK => /\ holder \in Req \cup {None} /\ cache.token \in Token \cup {0} /\ cache.left \in Nat
              /\ \A r \in Req : /\ req[r].stage \in Stage /\ req[r].try \in {1, 2}
                                /\ req[r].token \in Token \cup {0}
                                /\ req[r].age \in Nat /\ req[r].age <= Timeout
                                /\ req[r].refused \subseteq Token /\ req[r].effects \in Nat
              /\ \A t \in Token : left[t] \in Nat /\ (life[t] = -1 \/ life[t] \in Nat)
BY TimeAssumption DEF TypeOK, Request

LEMMA BeginKeeps ==
    ASSUME Inv, NEW r \in Req, Begin(r)
    PROVE  Rest'
<1> USE ReqTyped, NoneAssumption, TimeAssumption DEF Inv
<1>1. Moved(r, "lock", req[r].try, req[r].token, req[r].age, req[r].out) /\ Steady(r)
    BY BeginStep
<1>2. Locking'
    BY <1>1 DEF Begin, Moved, Steady, Locking
<1>3. Trying'
    BY <1>1 DEF Begin, Moved, Steady, Trying
<1>4. Known'
    BY <1>1 DEF Begin, Moved, Steady, Known
<1>5. Fresh'
    BY <1>1 DEF Begin, Moved, Steady, Fresh, Trying
<1>6. Timing'
    BY <1>1 DEF Begin, Moved, Steady, Timing
<1>7. ExpiredOnlyIfShort'
    BY <1>1 DEF Begin, Moved, Steady, ExpiredOnlyIfShort
<1> QED BY <1>2, <1>3, <1>4, <1>5, <1>6, <1>7 DEF Rest

LEMMA CachedKeeps ==
    ASSUME Inv, NEW r \in Req, req[r].stage = "lock", cache.left > 0, Send(r, cache.token),
           UNCHANGED <<cache, holder, left, revoked, life>>
    PROVE  Rest'
<1> USE ReqTyped, NoneAssumption, TimeAssumption DEF Inv
<1>1. Moved(r, "send", req[r].try, cache.token, 0, req[r].out) /\ Steady(r)
    BY CachedStep
<1>2. Locking'
    BY <1>1, MarginAssumption, TokenNat DEF Moved, Steady, Locking
<1>3. Trying'
    BY <1>1, MarginAssumption, TokenNat DEF Moved, Steady, Trying
<1>4. Known'
    BY <1>1, MarginAssumption, TokenNat DEF Moved, Steady, Known
<1>5. Fresh'
    BY <1>1, MarginAssumption, TokenNat DEF Moved, Steady, Fresh
<1>6. Timing'
  <2>1. cache.token \in Token
    BY DEF Fresh
  <2>2. left[cache.token] >= Timeout + 1
    BY <2>1, MarginAssumption DEF Timing
  <2> QED BY <1>1, <2>2 DEF Moved, Timing
<1>7. ExpiredOnlyIfShort'
    BY <1>1, MarginAssumption, TokenNat DEF Moved, Steady, ExpiredOnlyIfShort
<1> QED BY <1>2, <1>3, <1>4, <1>5, <1>6, <1>7 DEF Rest

LEMMA FetchKeeps ==
    ASSUME Inv, NEW r \in Req, req[r].stage = "lock", Free, holder' = r,
           Become(r, [req[r] EXCEPT !.stage = "fetch", !.token = 0, !.age = 0]),
           UNCHANGED <<cache, left, revoked, life>>
    PROVE  Rest'
<1> USE ReqTyped, NoneAssumption, TimeAssumption DEF Inv
<1>1. Moved(r, "fetch", req[r].try, 0, 0, req[r].out) /\ Steady(r)
    BY FetchStep
<1>2. Locking'
    BY <1>1 DEF Free, Moved, Steady, Locking
<1>3. Trying'
    BY <1>1 DEF Free, Moved, Steady, Trying
<1>4. Known'
    BY <1>1 DEF Free, Moved, Steady, Known
<1>5. Fresh'
    BY <1>1 DEF Free, Moved, Steady, Fresh
<1>6. Timing'
    BY <1>1 DEF Free, Moved, Steady, Timing
<1>7. ExpiredOnlyIfShort'
    BY <1>1 DEF Free, Moved, Steady, ExpiredOnlyIfShort
<1> QED BY <1>2, <1>3, <1>4, <1>5, <1>6, <1>7 DEF Rest

LEMMA ReceiveKeeps ==
    ASSUME Inv, NEW r \in Req, ReceiveToken(r)
    PROVE  Rest'
<1> USE ReqTyped, NoneAssumption, TimeAssumption DEF Inv
<1>1. Moved(r, "send", req[r].try, req[r].token, 0, req[r].out) /\ Steady(r)
    BY ReceiveStep
<1>2. Locking'
    BY <1>1 DEF ReceiveToken, FreshFor, Monus, Moved, Steady, Locking
<1>3. Trying'
    BY <1>1 DEF ReceiveToken, FreshFor, Monus, Moved, Steady, Trying
<1>4. Known'
    BY <1>1 DEF ReceiveToken, FreshFor, Monus, Moved, Steady, Known
<1>5. Fresh'
    BY <1>1 DEF ReceiveToken, FreshFor, Monus, Moved, Steady, Fresh
<1>6. Timing'
  <2> DEFINE t == req[r].token
  <2>1. t \in Token /\ life[t] \in Nat /\ left[t] \in Nat
    BY DEF Fresh, Known, ReceiveToken
  <2>2. left[t] >= life[t] - Timeout
    BY <2>1 DEF Timing, ReceiveToken
  <2>3. cache'.left > 0 => left'[cache'.token] >= cache'.left + Margin - Timeout
    BY <2>1, <2>2 DEF ReceiveToken, FreshFor, Monus
  <2>4. life[t] <= Timeout + Timeout \/ left[t] >= Timeout - 0 + 1
    BY <2>1, <2>2
  <2> QED BY <1>1, <2>3, <2>4 DEF ReceiveToken, Moved, Timing
<1>7. ExpiredOnlyIfShort'
    BY <1>1 DEF ReceiveToken, FreshFor, Monus, Moved, Steady, ExpiredOnlyIfShort
<1> QED BY <1>2, <1>3, <1>4, <1>5, <1>6, <1>7 DEF Rest

LEMMA EndKeeps ==
    ASSUME Inv, NEW r \in Req, NEW o, req[r].stage \notin {"idle", "end"}, End(r, o),
           holder' = Released(r), UNCHANGED <<cache, left, revoked, life>>
    PROVE  Rest'
<1> USE ReqTyped, NoneAssumption, TimeAssumption DEF Inv
<1>1. Moved(r, "end", req[r].try, 0, 0, o) /\ Steady(r)
    BY EndStep
<1>2. Locking'
    BY <1>1 DEF Released, Moved, Steady, Locking
<1>3. Trying'
    BY <1>1 DEF Released, Moved, Steady, Trying
<1>4. Known'
    BY <1>1 DEF Released, Moved, Steady, Known
<1>5. Fresh'
    BY <1>1 DEF Released, Moved, Steady, Fresh
<1>6. Timing'
    BY <1>1 DEF Released, Moved, Steady, Timing
<1>7. ExpiredOnlyIfShort'
    BY <1>1 DEF Released, Moved, Steady, ExpiredOnlyIfShort
<1> QED BY <1>2, <1>3, <1>4, <1>5, <1>6, <1>7 DEF Rest

LEMMA RetryKeeps ==
    ASSUME Inv, NEW r \in Req, req[r].stage = "refusal", req[r].try < Attempts,
           Become(r, AfterRefusal(r)), UNCHANGED <<cache, holder, left, revoked, life>>
    PROVE  Rest'
<1> USE ReqTyped, NoneAssumption, TimeAssumption DEF Inv
<1>1. Moved(r, "clear", 2, 0, 0, req[r].out) /\ Steady(r)
    BY RetryStep
<1>2. Locking'
    BY <1>1, AttemptsAssumption DEF Moved, Steady, Locking
<1>3. Trying'
    BY <1>1, AttemptsAssumption DEF Moved, Steady, Trying
<1>4. Known'
    BY <1>1, AttemptsAssumption DEF Moved, Steady, Known
<1>5. Fresh'
    BY <1>1, AttemptsAssumption DEF Moved, Steady, Fresh
<1>6. Timing'
    BY <1>1, AttemptsAssumption DEF Moved, Steady, Timing
<1>7. ExpiredOnlyIfShort'
    BY <1>1, AttemptsAssumption DEF Moved, Steady, ExpiredOnlyIfShort
<1> QED BY <1>2, <1>3, <1>4, <1>5, <1>6, <1>7 DEF Rest

LEMMA ClearKeeps ==
    ASSUME Inv, NEW r \in Req, ClearCachedToken(r)
    PROVE  Rest'
<1> USE ReqTyped, NoneAssumption, TimeAssumption DEF Inv
<1>1. Moved(r, "lock", req[r].try, req[r].token, req[r].age, req[r].out) /\ Steady(r)
    BY ClearStep
<1>2. Locking'
    BY <1>1, TokenNat DEF ClearCachedToken, Empty, Free, Moved, Steady, Locking
<1>3. Trying'
    BY <1>1, TokenNat DEF ClearCachedToken, Empty, Free, Moved, Steady, Trying
<1>4. Known'
    BY <1>1, TokenNat DEF ClearCachedToken, Empty, Free, Moved, Steady, Known
<1>5. Fresh'
    BY <1>1, TokenNat DEF ClearCachedToken, Empty, Free, Moved, Steady, Fresh
<1>6. Timing'
    BY <1>1, TokenNat DEF ClearCachedToken, Empty, Free, Moved, Steady, Timing
<1>7. ExpiredOnlyIfShort'
    BY <1>1, TokenNat DEF ClearCachedToken, Empty, Free, Moved, Steady, ExpiredOnlyIfShort
<1> QED BY <1>2, <1>3, <1>4, <1>5, <1>6, <1>7 DEF Rest

LEMMA IssueKeeps ==
    ASSUME Inv, NEW r \in Req, NEW t \in Token, Issue(r, t)
    PROVE  Rest'
<1> USE ReqTyped, NoneAssumption, TimeAssumption DEF Inv
<1>1. Moved(r, "grant", req[r].try, t, req[r].age, req[r].out) /\ Steady(r)
    BY IssueStep
<1>8. /\ life[t] = -1 /\ UNCHANGED <<cache, revoked>>
      /\ life'[t] \in Nat /\ left'[t] = life'[t]
      /\ \A u \in Token : u # t => life'[u] = life[u] /\ left'[u] = left[u]
    BY DEF Issue, TypeOK
<1>9. /\ cache.token # t /\ \A x \in Req : req[x].token # t /\ t \notin req[x].refused
    BY <1>8, TokenNat DEF Known
<1>2. Locking'
    BY <1>1, TokenNat DEF Issue, Moved, Steady, Locking
<1>3. Trying'
    BY <1>1, TokenNat DEF Issue, Moved, Steady, Trying
<1>4. Known'
  <2>1. cache'.token # 0 => life'[cache'.token] # -1
    BY <1>8, <1>9 DEF Known
  <2>2. ASSUME NEW x \in Req PROVE /\ req'[x].token # 0 => life'[req'[x].token] # -1
                                   /\ \A u \in req'[x].refused : life'[u] # -1
    <3>1. CASE x = r
      BY <1>1, <1>8, <1>9, <3>1 DEF Moved, Steady, Known
    <3>2. CASE x # r
      BY <1>1, <1>8, <1>9, <3>2 DEF Moved, Known
    <3> QED BY <3>1, <3>2
  <2> QED BY <2>1, <2>2 DEF Known
<1>5. Fresh'
  <2>1. ASSUME NEW x \in Req PROVE req'[x].refused = req[x].refused
    BY <1>1 DEF Moved, Steady
  <2>2. /\ cache'.token # t /\ req'[r].token = t /\ req'[r].stage = "grant" /\ req[r].stage = "fetch"
        /\ \A x \in Req : x # r => req'[x] = req[x] /\ req[x].stage # "grant"
    BY <1>1, <1>8, <1>9 DEF Moved, Issue, Locking
  <2> QED BY <1>8, <1>9, <2>1, <2>2, TokenNat DEF Fresh
<1>6. Timing'
  <2>1. cache'.left > 0 => left'[cache'.token] >= cache'.left + Margin - Timeout
    BY <1>8, <1>9, TokenNat DEF Timing, Fresh
  <2>2. ASSUME NEW x \in Req, req'[x].stage = "grant"
        PROVE  left'[req'[x].token] >= life'[req'[x].token] - req'[x].age
    <3>1. CASE x = r
      BY <1>1, <1>8, <3>1 DEF Moved
    <3>2. CASE x # r
      BY <1>1, <1>8, <1>9, <2>2, <3>2, TokenNat DEF Moved, Fresh, Timing
    <3> QED BY <3>1, <3>2
  <2>3. ASSUME NEW x \in Req, req'[x].stage = "send"
        PROVE  \/ life'[req'[x].token] <= Timeout + Timeout
               \/ left'[req'[x].token] >= Timeout - req'[x].age + 1
    <3>1. x # r /\ req'[x] = req[x]
      BY <1>1, <2>3 DEF Moved
    <3>2. req[x].token \in Token /\ req[x].token # t
      BY <1>9, <2>3, <3>1 DEF Fresh
    <3> QED BY <1>8, <2>3, <3>1, <3>2 DEF Timing
  <2> QED BY <2>1, <2>2, <2>3 DEF Timing
<1>7. ExpiredOnlyIfShort'
  <2>1. ASSUME NEW x \in Req PROVE req'[x].refused = req[x].refused
    BY <1>1 DEF Moved, Steady
  <2> QED BY <1>8, <1>9, <2>1 DEF ExpiredOnlyIfShort
<1> QED BY <1>2, <1>3, <1>4, <1>5, <1>6, <1>7 DEF Rest

LEMMA DoKeeps ==
    ASSUME Inv, NEW r \in Req, req[r].stage = "send",
           Become(r, [req[r] EXCEPT !.stage = "reply", !.effects = @ + 1]), UNCHANGED <<cache, holder, left, revoked, life>>
    PROVE  Rest'
<1> USE ReqTyped, NoneAssumption, TimeAssumption DEF Inv
<1>1. Moved(r, "reply", req[r].try, req[r].token, req[r].age, req[r].out)
       /\ req'[r].refused = req[r].refused /\ req'[r].effects = req[r].effects + 1
    BY DoStep
<1>2. Locking'
    BY <1>1 DEF Moved, Steady, Locking
<1>3. Trying'
    BY <1>1 DEF Moved, Steady, Trying
<1>4. Known'
    BY <1>1 DEF Moved, Steady, Known
<1>5. Fresh'
    BY <1>1 DEF Moved, Steady, Fresh
<1>6. Timing'
    BY <1>1 DEF Moved, Steady, Timing
<1>7. ExpiredOnlyIfShort'
    BY <1>1 DEF Moved, Steady, ExpiredOnlyIfShort
<1> QED BY <1>2, <1>3, <1>4, <1>5, <1>6, <1>7 DEF Rest

LEMMA RefuseKeeps ==
    ASSUME Inv, NEW r \in Req, req[r].stage = "send", ~Live(req[r].token),
           Become(r, [req[r] EXCEPT !.stage = "refusal", !.refused = @ \cup {req[r].token}]),
           UNCHANGED <<cache, holder, left, revoked, life>>
    PROVE  Rest'
<1> USE ReqTyped, NoneAssumption, TimeAssumption DEF Inv
<1>1. Moved(r, "refusal", req[r].try, req[r].token, req[r].age, req[r].out)
       /\ req'[r].refused = req[r].refused \cup {req[r].token} /\ req'[r].effects = req[r].effects
    BY RefuseStep
<1>2. Locking'
    BY <1>1, TokenNat DEF Moved, Steady, Locking
<1>3. Trying'
  <2>1. IsFiniteSet(req[r].refused) /\ req[r].token \notin req[r].refused
    BY DEF Trying, Fresh
  <2>2. /\ IsFiniteSet(req[r].refused \cup {req[r].token})
        /\ Cardinality(req[r].refused \cup {req[r].token}) = Cardinality(req[r].refused) + 1
    BY <2>1, FS_AddElement
  <2> QED BY <1>1, <2>2 DEF Moved, Steady, Trying
<1>4. Known'
    BY <1>1, TokenNat DEF Moved, Steady, Known, Fresh
<1>5. Fresh'
    BY <1>1, TokenNat DEF Moved, Steady, Fresh
<1>6. Timing'
    BY <1>1, TokenNat DEF Moved, Steady, Timing
<1>7. ExpiredOnlyIfShort'
  <2>1. req[r].token \in Token
    BY DEF Fresh
  <2>2. req[r].token \in revoked \/ life[req[r].token] <= Timeout + Timeout
    BY <2>1 DEF Live, Timing
  <2> QED BY <1>1, <2>2 DEF Moved, ExpiredOnlyIfShort
<1> QED BY <1>2, <1>3, <1>4, <1>5, <1>6, <1>7 DEF Rest

LEMMA RevokeKeeps ==
    ASSUME Inv, NEW t \in Token, Revoke(t)
    PROVE  Rest'
<1> USE ReqTyped, NoneAssumption, TimeAssumption DEF Inv
<1>2. Locking'
    BY TokenNat DEF Revoke, Locking
<1>3. Trying'
    BY TokenNat DEF Revoke, Trying
<1>4. Known'
    BY TokenNat DEF Revoke, Known
<1>5. Fresh'
    BY TokenNat DEF Revoke, Fresh
<1>6. Timing'
    BY TokenNat DEF Revoke, Timing
<1>7. ExpiredOnlyIfShort'
    BY TokenNat DEF Revoke, ExpiredOnlyIfShort
<1> QED BY <1>2, <1>3, <1>4, <1>5, <1>6, <1>7 DEF Rest

LEMMA TickKeeps ==
    ASSUME Inv, Tick
    PROVE  Rest'
<1> USE ReqTyped, NoneAssumption, TimeAssumption DEF Inv
<1>1. \A r \in Req : /\ req'[r].stage = req[r].stage /\ req'[r].try = req[r].try
                    /\ req'[r].token = req[r].token /\ req'[r].refused = req[r].refused
                    /\ req'[r].effects = req[r].effects
                    /\ \/ req[r].stage \notin InFlight /\ req'[r].age = req[r].age
                       \/ req[r].age < Timeout /\ req'[r].age = req[r].age + 1
    BY TickStep DEF Steady
<1>2. Locking'
    BY <1>1 DEF Tick, Moved, Steady, Locking
<1>3. Trying'
    BY <1>1 DEF Tick, Moved, Steady, Trying
<1>4. Known'
    BY <1>1 DEF Tick, Moved, Steady, Known
<1>5. Fresh'
  <2>1. cache'.token = cache.token /\ (cache'.left > 0 => cache.left > 0)
    BY DEF Tick, Monus, TypeOK
  <2> QED BY <1>1, <2>1 DEF Fresh
<1>6. Timing'
  <2>1. cache'.token = cache.token /\ cache'.left = Monus(cache.left, 1) /\ life' = life
    BY DEF Tick, TypeOK
  <2>2. \A t \in Token : left'[t] = Monus(left[t], 1)
    BY DEF Tick
  <2>3. cache'.left > 0 => left'[cache'.token] >= cache'.left + Margin - Timeout
    <3>1. CASE cache'.left > 0
      <4>1. cache.left > 0 /\ cache'.left = cache.left - 1 /\ cache.token \in Token
        BY <2>1, <3>1 DEF Monus, Fresh
      <4>2. left[cache.token] >= cache.left + Margin - Timeout /\ left[cache.token] \in Nat
        BY <4>1 DEF Timing
      <4> QED BY <2>1, <2>2, <4>1, <4>2 DEF Monus
    <3> QED BY <3>1
  <2>4. ASSUME NEW r \in Req, req[r].stage = "grant"
        PROVE  left'[req[r].token] >= life[req[r].token] - req'[r].age
    <3>1. req[r].token \in Token /\ life[req[r].token] \in Nat /\ req'[r].age = req[r].age + 1
      BY <1>1, <2>4 DEF Fresh, Known, InFlight
    <3>2. left[req[r].token] >= life[req[r].token] - req[r].age
      BY <2>4 DEF Timing
    <3> QED BY <2>2, <3>1, <3>2 DEF Monus
  <2>5. ASSUME NEW r \in Req, req[r].stage = "send"
        PROVE  \/ life[req[r].token] <= Timeout + Timeout
               \/ left'[req[r].token] >= Timeout - req'[r].age + 1
    <3>1. req[r].token \in Token /\ req'[r].age = req[r].age + 1 /\ req[r].age < Timeout
      BY <1>1, <2>5 DEF Fresh, InFlight
    <3>2. \/ life[req[r].token] <= Timeout + Timeout
          \/ left[req[r].token] >= Timeout - req[r].age + 1
      BY <2>5 DEF Timing
    <3> QED BY <2>2, <3>1, <3>2 DEF Monus
  <2> QED BY <1>1, <2>1, <2>3, <2>4, <2>5 DEF Timing
<1>7. ExpiredOnlyIfShort'
    BY <1>1 DEF Tick, Moved, Steady, ExpiredOnlyIfShort
<1> QED BY <1>2, <1>3, <1>4, <1>5, <1>6, <1>7 DEF Rest

-----------------------------------------------------------------------------
\* The invariant is inductive.
LEMMA InvKept == Inv /\ [Next]_vars => Inv'
<1> SUFFICES ASSUME Inv, [Next]_vars PROVE Inv'
    OBVIOUS
<1>1. TypeOK'
    BY TypeKept DEF Inv
<1>2. ASSUME NEW r \in Req, Client(r) PROVE Rest'
  <2>1. CASE AdminToken(r)
    BY <2>1, CachedKeeps, FetchKeeps DEF AdminToken
  <2>2. CASE Answered(r)
    <3>1. ASSUME NEW o, End(r, o), req[r].stage \in {"reply", "refusal"},
                 UNCHANGED <<cache, holder, left, revoked, life>>
          PROVE  Rest'
      <4>1. holder' = Released(r)
        BY <1>2, <3>1, NoneAssumption DEF Released, Inv, Locking
      <4> QED BY <3>1, <4>1, EndKeeps
    <3> QED BY <2>2, <3>1, RetryKeeps DEF Answered
  <2> QED BY <1>2, <2>1, <2>2, BeginKeeps, ReceiveKeeps, ClearKeeps DEF Client
<1>3. ASSUME NEW r \in Req, Judge(r) PROVE Rest'
    BY <1>3, DoKeeps, RefuseKeeps DEF Judge
<1>4. ASSUME NEW r \in Req, SendFails(r) PROVE Rest'
    BY <1>4, EndKeeps DEF SendFails, AfterError, End, InFlight
<1>5. ASSUME NEW r \in Req, Cut(r) PROVE Rest'
    BY <1>5, EndKeeps DEF Cut
<1>6. ASSUME UNCHANGED vars PROVE Rest'
    BY <1>6 DEF vars, Inv, Rest, Locking, Trying, Known, Fresh, Timing, ExpiredOnlyIfShort
<1>7. Rest'
    BY <1>2, <1>3, <1>4, <1>5, <1>6, IssueKeeps, RevokeKeeps, TickKeeps DEF Next, Service
<1> QED BY <1>1, <1>7 DEF Inv, Rest

LEMMA Invariance == Spec => []Inv
BY Starts, InvKept, PTL DEF Spec

\* The variables hold what they are declared for (admin_token).
THEOREM TypeCorrect == Spec => []TypeOK
<1>1. Inv => TypeOK
    BY DEF Inv
<1> QED BY <1>1, Invariance, PTL

\* Any number of calls share one fetch: whoever finds the cache empty meanwhile
\* waits for its token (the mutex of admin_token).
THEOREM OneFetchAtATime == Spec => []OneFetch
<1>1. Inv => OneFetch
    BY DEF Inv, Locking, OneFetch
<1> QED BY <1>1, Invariance, PTL

\* A margin of two waits is enough for every lifetime above that: no call is
\* refused because its token ran out (expires_at in admin_token).
THEOREM MarginSuffices == Spec => []ExpiredOnlyIfShort
<1>1. Inv => ExpiredOnlyIfShort
    BY DEF Inv
<1> QED BY <1>1, Invariance, PTL

-----------------------------------------------------------------------------
(***************************************************************************)
(* The refinement of AdminCalls.                                           *)
(***************************************************************************)
Bar == [r \in Req |-> Seen(req[r])]

\* A step that changes one call changes what is seen of that call only.
LEMMA BarChange ==
    ASSUME NEW r \in Req, \A x \in Req \ {r} : req'[x] = req[x]
    PROVE  Bar' = [Bar EXCEPT ![r] = Seen(req'[r])]
BY DEF Bar

\* Nothing is seen of a step that changes neither the outcome nor the history.
LEMMA Stutters ==
    ASSUME NEW r \in Req, \A x \in Req \ {r} : req'[x] = req[x], req'[r].out = req[r].out, Steady(r),
           req'[r].stage \notin {"idle", "end"}, req[r].stage \notin {"idle", "end"}
    PROVE  Bar' = Bar
<1>1. Seen(req'[r]) = Seen(req[r])
    BY DEF Steady, Seen
<1> QED BY <1>1 DEF Bar

\* A call that ends is seen to end.
LEMMA Finishes ==
    ASSUME Inv, NEW r \in Req, NEW o \in {"ok", "refused", "err", "cut"}, End(r, o),
           req[r].stage \notin {"idle", "end"},
           o = "ok" => req[r].effects = 1,
           o = "refused" => req[r].effects = 0 /\ Cardinality(req[r].refused) = Attempts
    PROVE  Calls!Finish(r, o)
<1>1. Moved(r, "end", req[r].try, 0, 0, o) /\ Steady(r)
    BY EndStep DEF Inv
<1>2. Bar[r] = [out |-> "open", refused |-> req[r].refused, effects |-> req[r].effects]
    BY DEF Bar, Seen
<1>3. Seen(req'[r]) = [out |-> o, refused |-> req[r].refused, effects |-> req[r].effects]
    BY <1>1 DEF Moved, Steady, Seen
<1>4. Bar' = [Bar EXCEPT ![r] = Seen(req'[r])]
    BY <1>1, BarChange DEF Moved
<1>6. Seen(req'[r]) = [Bar[r] EXCEPT !.out = o]
    BY <1>2, <1>3
<1>5. Bar' = [Bar EXCEPT ![r].out = o]
    BY <1>4, <1>6
<1>7. Bar[r].out = "open" /\ Bar[r].effects = req[r].effects /\ Bar[r].refused = req[r].refused
    BY <1>2
<1>8. o = "refused" => Bar[r].effects = 0 /\ Cardinality(Bar[r].refused) = Attempts
    BY <1>7
<1> QED BY <1>5, <1>7, <1>8 DEF Calls!Finish, Bar, Cardinality, Calls!Cardinality

\* Every step of the clients is a step of AdminCalls or is not seen.
LEMMA StepRefines == Inv /\ [Next]_vars => [Calls!Next]_Bar
<1> SUFFICES ASSUME Inv, [Next]_vars PROVE Calls!Next \/ Bar' = Bar
    OBVIOUS
<1> USE ReqTyped DEF Inv
<1>1. ASSUME NEW r \in Req, Begin(r) PROVE Calls!Begin(r)
  <2>1. req[r].stage = "idle" /\ Moved(r, "lock", req[r].try, req[r].token, req[r].age, req[r].out) /\ Steady(r)
    BY <1>1, BeginStep DEF Begin
  <2>2. Bar[r] = [out |-> "idle", refused |-> req[r].refused, effects |-> req[r].effects]
    BY <2>1 DEF Bar, Seen
  <2>3. Seen(req'[r]) = [out |-> "open", refused |-> req[r].refused, effects |-> req[r].effects]
    BY <2>1 DEF Moved, Steady, Seen
  <2>4. Bar' = [Bar EXCEPT ![r] = Seen(req'[r])]
    BY <2>1, BarChange DEF Moved
  <2>6. Seen(req'[r]) = [Bar[r] EXCEPT !.out = "open"]
    BY <2>2, <2>3
  <2>5. Bar' = [Bar EXCEPT ![r].out = "open"]
    BY <2>4, <2>6
  <2> QED BY <2>2, <2>5 DEF Calls!Begin, Bar
<1>2. ASSUME NEW r \in Req, AdminToken(r) PROVE Bar' = Bar
  <2>1. CASE Send(r, cache.token)
    <3>1. Moved(r, "send", req[r].try, cache.token, 0, req[r].out) /\ Steady(r)
      BY <2>1, CachedStep
    <3> QED BY <1>2, <3>1, Stutters DEF AdminToken, Moved
  <2>2. CASE Become(r, [req[r] EXCEPT !.stage = "fetch", !.token = 0, !.age = 0])
    <3>1. Moved(r, "fetch", req[r].try, 0, 0, req[r].out) /\ Steady(r)
      BY <2>2, FetchStep
    <3> QED BY <1>2, <3>1, Stutters DEF AdminToken, Moved
  <2> QED BY <1>2, <2>1, <2>2 DEF AdminToken
<1>3. ASSUME NEW r \in Req, ReceiveToken(r) PROVE Bar' = Bar
  <2>1. Moved(r, "send", req[r].try, req[r].token, 0, req[r].out) /\ Steady(r)
    BY <1>3, ReceiveStep
  <2> QED BY <1>3, <2>1, Stutters DEF ReceiveToken, Moved
<1>4. ASSUME NEW r \in Req, Answered(r) PROVE Calls!Next \/ Bar' = Bar
  <2>1. CASE req[r].stage = "reply" /\ End(r, "ok")
    BY <2>1, Finishes DEF Trying, Calls!Next, Calls!Outcome
  <2>2. CASE req[r].stage = "refusal" /\ Become(r, AfterRefusal(r))
    <3>1. Moved(r, "clear", 2, 0, 0, req[r].out) /\ Steady(r)
      BY <2>2, RetryStep
    <3> QED BY <2>2, <3>1, Stutters DEF Moved
  <2>3. CASE req[r].stage = "refusal" /\ req[r].try = Attempts /\ End(r, "refused")
    BY <2>3, Finishes DEF Trying, Calls!Next, Calls!Outcome
  <2> QED BY <1>4, <2>1, <2>2, <2>3 DEF Answered
<1>5. ASSUME NEW r \in Req, ClearCachedToken(r) PROVE Bar' = Bar
  <2>1. Moved(r, "lock", req[r].try, req[r].token, req[r].age, req[r].out) /\ Steady(r)
    BY <1>5, ClearStep
  <2> QED BY <1>5, <2>1, Stutters DEF ClearCachedToken, Moved
<1>6. ASSUME NEW r \in Req, NEW t \in Token, Issue(r, t) PROVE Bar' = Bar
  <2>1. Moved(r, "grant", req[r].try, t, req[r].age, req[r].out) /\ Steady(r)
    BY <1>6, IssueStep
  <2> QED BY <1>6, <2>1, Stutters DEF Issue, Moved
<1>7. ASSUME NEW r \in Req, Judge(r) PROVE Calls!Next
  <2>1. req[r].stage = "send" /\ req[r].token \in Token /\ req[r].token \notin req[r].refused /\ req[r].effects = 0
    BY <1>7 DEF Judge, Fresh, Trying
  <2>2. Bar[r] = [out |-> "open", refused |-> req[r].refused, effects |-> 0]
    BY <2>1 DEF Bar, Seen
  <2>3. CASE Become(r, [req[r] EXCEPT !.stage = "reply", !.effects = @ + 1])
    <3>1. /\ Moved(r, "reply", req[r].try, req[r].token, req[r].age, req[r].out)
          /\ req'[r].refused = req[r].refused /\ req'[r].effects = req[r].effects + 1
      BY <2>3, DoStep
    <3>2. Seen(req'[r]) = [out |-> "open", refused |-> req[r].refused, effects |-> 1]
      BY <2>1, <3>1 DEF Moved, Seen
    <3>3. Bar' = [Bar EXCEPT ![r] = Seen(req'[r])]
      BY <3>1, BarChange DEF Moved
    <3>6. Seen(req'[r]) = [Bar[r] EXCEPT !.effects = 1]
      BY <2>2, <3>2
    <3>4. Bar' = [Bar EXCEPT ![r].effects = 1]
      BY <3>3, <3>6
    <3>5. Calls!Do(r)
      BY <2>2, <3>4 DEF Calls!Do, Bar
    <3> QED BY <3>5 DEF Calls!Next
  <2>4. CASE Become(r, [req[r] EXCEPT !.stage = "refusal", !.refused = @ \cup {req[r].token}])
    <3>1. /\ Moved(r, "refusal", req[r].try, req[r].token, req[r].age, req[r].out)
          /\ req'[r].refused = req[r].refused \cup {req[r].token} /\ req'[r].effects = 0
      BY <2>1, <2>4, RefuseStep
    <3>2. Seen(req'[r]) = [out |-> "open", refused |-> req[r].refused \cup {req[r].token}, effects |-> 0]
      BY <3>1 DEF Moved, Seen
    <3>3. Bar' = [Bar EXCEPT ![r] = Seen(req'[r])]
      BY <3>1, BarChange DEF Moved
    <3>6. Seen(req'[r]) = [Bar[r] EXCEPT !.refused = Bar[r].refused \cup {req[r].token}]
      <4> DEFINE n == req[r].refused \cup {req[r].token}
      <4>1. Bar[r].refused \cup {req[r].token} = n
        BY <2>2
      <4> HIDE DEF n
      <4>2. [Bar[r] EXCEPT !.refused = n] = [out |-> "open", refused |-> n, effects |-> 0]
        BY <2>2
      <4> QED BY <3>2, <4>1, <4>2 DEF n
    <3>4. Bar' = [Bar EXCEPT ![r].refused = @ \cup {req[r].token}]
      BY <3>3, <3>6
    <3>5. Calls!Refuse(r, req[r].token)
      BY <2>1, <2>2, <3>4 DEF Calls!Refuse, Bar
    <3> QED BY <2>1, <3>5 DEF Calls!Next
  <2> QED BY <1>7, <2>3, <2>4 DEF Judge
<1>8. ASSUME NEW r \in Req, SendFails(r) \/ Cut(r) PROVE Calls!Next
  <2>1. \/ req[r].stage \in InFlight /\ End(r, "err")
        \/ req[r].stage \notin {"idle", "end"} /\ End(r, "cut")
    BY <1>8 DEF SendFails, AfterError, End, Cut
  <2> QED BY <2>1, Finishes DEF Calls!Next, Calls!Outcome, InFlight
<1>9. ASSUME Tick PROVE Bar' = Bar
  <2>1. ASSUME NEW r \in Req PROVE Seen(req'[r]) = Seen(req[r])
    BY <1>9, TickStep DEF Seen, Steady
  <2> QED BY <2>1 DEF Bar
<1>10. ASSUME UNCHANGED req PROVE Bar' = Bar
    BY <1>10 DEF Bar
<1> QED BY <1>1, <1>2, <1>3, <1>4, <1>5, <1>6, <1>7, <1>8, <1>9, <1>10
        DEF Next, Client, Service, Revoke, vars, Calls!Next

\* The clients implement AdminCalls: a call takes effect at most once, tries no
\* token twice, and reports a refusal only when all its tries were refused
\* (send_admin_request, clear_cached_token).
THEOREM ClientsImplement == Spec => CallsKept
<1>1. Init => Calls!Init
    BY DEF Init, Calls!Init, Seen
<1> QED BY <1>1, StepRefines, Invariance, PTL DEF Spec, CallsKept, Calls!Spec, Bar
=============================================================================
