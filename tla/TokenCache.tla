----------------------------- MODULE TokenCache -----------------------------
(***************************************************************************)
(* The admin token of a client (clients/keycloak.rs, clients/mas.rs) and   *)
(* the calls that share it.  The cache is behind an async mutex, held      *)
(* across the fetch of a new token.  A call of the Keycloak client that is *)
(* answered with 401 empties the cache and is sent once more               *)
(* (Attempts = 2); the MAS client has no retry (Attempts = 1).  A program  *)
(* has three such caches, one in each client it builds.                    *)
(*                                                                         *)
(* Time is counted in ticks.  A token remembers what is left of its life   *)
(* and the cache what is left until expires_at; a tick takes one from      *)
(* each.  It also ages what is under way on the network, which the HTTP    *)
(* client gives up after Timeout ticks.                                    *)
(***************************************************************************)
EXTENDS Integers, FiniteSets

CONSTANTS
    Req,        \* calls, each made once
    MaxTokens,  \* bound: tokens the service issues, numbered in its order
    None,       \* nobody
    Attempts,   \* how often a call is sent when it is refused
    Lives,      \* lifetimes (expires_in) the service may give
    Margin,     \* what the client takes off a lifetime
    Timeout,    \* of the HTTP client
    MaxRevoked  \* bound: tokens revoked before they expire

ASSUME NoneAssumption == None \notin Req
ASSUME AttemptsAssumption == Attempts \in {1, 2}
ASSUME TimeAssumption == Lives \subseteq Nat /\ Margin \in Nat /\ Timeout \in Nat
\* 30 s against two waits of at most 10 s: for the token, and for the call.
ASSUME MarginAssumption == Margin >= Timeout + Timeout
ASSUME BoundsAssumption == MaxTokens \in Nat /\ MaxRevoked \in Nat

VARIABLES
    cache,   \* token_cache: a token with what is left until expires_at
    holder,  \* who holds its mutex across an await
    req,     \* the calls
    left,    \* the service: what is left of each token's life
    revoked, \* the service: tokens it no longer takes
    life     \* history: the lifetime a token was issued with, -1 before that

vars == <<cache, holder, req, left, revoked, life>>

Token == 1..MaxTokens
NoToken == 0

Stage == {"idle", "lock", "fetch", "grant", "send", "reply", "refusal", "clear", "end"}

\* fetch: the token request is out; grant: it has been answered;
\* send: the call is out; reply, refusal: it has been answered.
InFlight == {"fetch", "grant", "send", "reply", "refusal"}

Request ==
    [stage   : Stage,
     try     : {1, 2},
     token   : Token \cup {NoToken},
     age     : Nat,             \* ticks the HTTP request under way has taken
     refused : SUBSET Token,    \* history: tokens refused to this call
     effects : Nat,             \* history: how often the call took effect
     out     : {"none", "ok", "refused", "err", "cut"}]

Empty == [token |-> NoToken, left |-> 0]
Monus(n, m) == IF n > m THEN n - m ELSE 0
Live(t) == left[t] > 0 /\ t \notin revoked

Init ==
    /\ cache = Empty /\ holder = None
    /\ req = [r \in Req |-> [stage |-> "idle", try |-> 1, token |-> NoToken, age |-> 0,
                             refused |-> {}, effects |-> 0, out |-> "none"]]
    /\ left = [t \in Token |-> 0] /\ revoked = {}
    /\ life = [t \in Token |-> -1]

At(r, s) == req[r].stage = s
Become(r, q) == req' = [req EXCEPT ![r] = q]
End(r, o) == Become(r, [req[r] EXCEPT !.stage = "end", !.token = NoToken, !.age = 0, !.out = o])
Send(r, t) == Become(r, [req[r] EXCEPT !.stage = "send", !.token = t, !.age = 0])

-----------------------------------------------------------------------------
(***************************************************************************)
(* A call.                                                                 *)
(***************************************************************************)
Begin(r) ==
    /\ At(r, "idle") /\ Become(r, [req[r] EXCEPT !.stage = "lock"])
    /\ UNCHANGED <<cache, holder, left, revoked, life>>

\* Mutant: the cache is read and written without the mutex.
FreeAlways == TRUE

Free == holder = None

\* admin_token: a cached token is taken and the mutex given back at once; else
\* it is kept while a token is fetched.
AdminToken(r) ==
    /\ At(r, "lock") /\ Free
    /\ \/ cache.left > 0 /\ Send(r, cache.token) /\ UNCHANGED holder
       \/ /\ cache.left = 0 /\ holder' = r
          /\ Become(r, [req[r] EXCEPT !.stage = "fetch", !.token = NoToken, !.age = 0])
    /\ UNCHANGED <<cache, left, revoked, life>>

\* Mutants: the lifetime is taken as it is; the margin is taken off without
\* saturating; the mutex stays with a failed fetch.
WholeLife(t) == life[t]
SignedLife(t) == life[t] - Margin
Kept(r) == holder

FreshFor(t) == Monus(life[t], Margin)
Released(r) == IF holder = r THEN None ELSE holder
AfterError(r) == [req[r] EXCEPT !.stage = "end", !.token = NoToken, !.age = 0, !.out = "err"]

ReceiveToken(r) ==
    /\ At(r, "grant")
    /\ cache' = [token |-> req[r].token, left |-> FreshFor(req[r].token)]
    /\ holder' = None /\ Send(r, req[r].token)
    /\ UNCHANGED <<left, revoked, life>>

\* A network error or, at the latest, the timeout of the HTTP client; the
\* service may have acted by then.  An error is not tried again.
SendFails(r) ==
    /\ req[r].stage \in InFlight
    /\ holder' = Released(r) /\ Become(r, AfterError(r))
    /\ UNCHANGED <<cache, left, revoked, life>>

\* The future is dropped at its await, and the mutex guard with it.
Cut(r) ==
    /\ req[r].stage \notin {"idle", "end"} /\ End(r, "cut")
    /\ holder' = Released(r)
    /\ UNCHANGED <<cache, left, revoked, life>>

\* Mutant: the retry does not empty the cache first.
AfterRefusalUncleared(r) == [req[r] EXCEPT !.stage = "lock", !.try = 2, !.token = NoToken, !.age = 0]

AfterRefusal(r) == [req[r] EXCEPT !.stage = "clear", !.try = 2, !.token = NoToken, !.age = 0]

\* send_admin_request: what comes of an answer.
Answered(r) ==
    /\ \/ At(r, "reply") /\ End(r, "ok")
       \/ At(r, "refusal") /\ req[r].try < Attempts /\ Become(r, AfterRefusal(r))
       \/ At(r, "refusal") /\ req[r].try = Attempts /\ End(r, "refused")
    /\ UNCHANGED <<cache, holder, left, revoked, life>>

\* clear_cached_token waits for the mutex and empties the cache, also of a token
\* another call has fetched meanwhile.
ClearCachedToken(r) ==
    /\ At(r, "clear") /\ Free /\ cache' = Empty
    /\ Become(r, [req[r] EXCEPT !.stage = "lock"])
    /\ UNCHANGED <<holder, left, revoked, life>>

-----------------------------------------------------------------------------
(***************************************************************************)
(* The service, and time.                                                  *)
(***************************************************************************)
Issue(r, t) ==
    /\ At(r, "fetch") /\ life[t] = -1 /\ \A u \in Token : u < t => life[u] # -1
    /\ \E n \in Lives : life' = [life EXCEPT ![t] = n] /\ left' = [left EXCEPT ![t] = n]
    /\ Become(r, [req[r] EXCEPT !.stage = "grant", !.token = t])
    /\ UNCHANGED <<cache, holder, revoked>>

\* The token is looked at when the call arrives.
Judge(r) ==
    /\ At(r, "send")
    /\ \/ /\ Live(req[r].token)
          /\ Become(r, [req[r] EXCEPT !.stage = "reply", !.effects = @ + 1])
       \/ /\ ~Live(req[r].token)
          /\ Become(r, [req[r] EXCEPT !.stage = "refusal", !.refused = @ \cup {req[r].token}])
    /\ UNCHANGED <<cache, holder, left, revoked, life>>

\* A restart of the service or a change of its keys ends a token early.
Revoke(t) ==
    /\ Live(t) /\ Cardinality(revoked) < MaxRevoked
    /\ revoked' = revoked \cup {t}
    /\ UNCHANGED <<cache, holder, req, left, life>>

Tick ==
    /\ \A r \in Req : req[r].stage \in InFlight => req[r].age < Timeout
    /\ req' = [r \in Req |-> IF req[r].stage \in InFlight THEN [req[r] EXCEPT !.age = @ + 1] ELSE req[r]]
    /\ left' = [t \in Token |-> Monus(left[t], 1)]
    /\ cache' = [cache EXCEPT !.left = Monus(@, 1)]
    /\ UNCHANGED <<holder, revoked, life>>

-----------------------------------------------------------------------------
Client(r) == Begin(r) \/ AdminToken(r) \/ ReceiveToken(r) \/ Answered(r) \/ ClearCachedToken(r)
Service(r) == Judge(r) \/ \E t \in Token : Issue(r, t)

Next == Tick \/ (\E t \in Token : Revoke(t))
        \/ \E r \in Req : Client(r) \/ Service(r) \/ SendFails(r) \/ Cut(r)

Spec == Init /\ [][Next]_vars

\* The program runs, time passes, and a wait that has taken Timeout ends.  The
\* service need not answer, nor the network fail by itself.
TimesOut(r) == req[r].age = Timeout /\ SendFails(r)
FairSpec == Spec /\ WF_vars(Tick) /\ \A r \in Req : WF_vars(Client(r)) /\ WF_vars(TimesOut(r))

-----------------------------------------------------------------------------
(***************************************************************************)
(* Properties.                                                             *)
(***************************************************************************)
TypeOK ==
    /\ cache \in [token : Token \cup {NoToken}, left : Nat]
    /\ holder \in Req \cup {None}
    /\ req \in [Req -> Request]
    /\ left \in [Token -> Nat] /\ revoked \subseteq Token /\ life \in [Token -> Lives \cup {-1}]
    /\ \A r \in Req : req[r].age <= Timeout

\* However many calls find the cache empty at once, one of them fetches a token
\* and the others wait for it (admin_token keeps the mutex over its awaits).
OneFetch ==
    \A r, q \in Req : req[r].stage \in {"fetch", "grant"} /\ req[q].stage \in {"fetch", "grant"} => r = q

\* The margin of 30 s is enough: a token that lives longer than two waits is
\* never refused because it ran out on the way to the service, whether it came
\* from the cache or was just fetched (admin_token, expires_in).
ExpiredOnlyIfShort ==
    \A r \in Req : \A t \in req[r].refused :
        t \in revoked \/ life[t] <= Timeout + Timeout

\* The clients keep the promise of AdminCalls.  The second try goes out with
\* another token than the first, whoever else has fetched, stored or cleared
\* one meanwhile, and only a refused call is tried again (send_admin_request).
Seen(q) ==
    [out |-> CASE q.stage = "idle" -> "idle"
               [] q.stage = "end" -> q.out
               [] OTHER -> "open",
     refused |-> q.refused, effects |-> q.effects]

Calls == INSTANCE AdminCalls WITH call <- [r \in Req |-> Seen(req[r])]
CallsKept == Calls!Spec

\* Every call ends, though the service never answers: no wait for the mutex is
\* without end, and neither is the retry.
EveryCallEnds == \A r \in Req : req[r].stage = "lock" ~> req[r].stage = "end"
=============================================================================
