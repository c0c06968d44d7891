-------------------------------- MODULE Login --------------------------------
(***************************************************************************)
(* The login of admins and their sessions: begin_auth and complete_auth    *)
(* (auth/oidc.rs), the handlers login, callback and logout                 *)
(* (handlers/auth.rs), the session cookie and the token every form carries *)
(* (auth/session.rs, auth/csrf.rs).                                        *)
(*                                                                         *)
(* The program keeps nothing: a login under way and a session are cookies, *)
(* one of each for the whole browser.  The tabs of a browser share them,   *)
(* and a request carries them as they are when it is sent, while the       *)
(* answer changes them when it arrives.  A browser knows a cookie by its   *)
(* name and its path: both are set for the path "/", and an answer that    *)
(* removes one of another path leaves it.                                  *)
(*                                                                         *)
(* A flow stands for the random values of one login: the state, the PKCE   *)
(* verifier and the nonce.                                                 *)
(***************************************************************************)
EXTENDS Naturals, FiniteSets

CONSTANTS
    Tab,         \* tabs of the browser
    Person,      \* people who use it
    Admins,      \* those who have the required role
    None,
    MaxFlows,    \* bound: logins begun
    MaxAgain,    \* bound: callbacks loaded again
    MaxFaults    \* bound: exchanges that fail

Session == [id : Nat, person : Person, csrf : Nat]

ASSUME AdminsAssumption == Admins \subseteq Person
ASSUME NoneAssumption == None \notin Nat \cup Session

VARIABLES
    jar,     \* the cookies of the browser
    tab,     \* tab[t]: what a tab shows or waits for
    flows,   \* logins begun
    spent,   \* flows whose code Keycloak has exchanged
    ids,     \* sessions made
    done,    \* history: forms carried out, with the session of the page and of the request
    again,   \* callbacks loaded again so far
    faults   \* exchanges that failed so far

vars == <<jar, tab, flows, spent, ids, done, again, faults>>

Out == {"none", "missing", "mismatch", "spent", "fault", "denied", "refused"}
At == {"blank", "login", "keycloak", "return", "exchange", "answer", "page", "bye", "out", "error"}

TabState ==
    [at      : At,
     flow    : Nat,                     \* the login it has begun, zero if none
     person  : Person \cup {None},      \* who has signed in at Keycloak in it
     session : Session \cup {None},     \* of the answer, then of the page
     out     : Out,
     crossed : BOOLEAN]  \* history: the flow cookie is not, or not only, its own doing

Blank == [at |-> "blank", flow |-> 0, person |-> None, session |-> None, out |-> "none",
          crossed |-> FALSE]

Init ==
    /\ jar = [flow |-> None, session |-> None]
    /\ tab = [t \in Tab |-> Blank]
    /\ flows = 0 /\ spent = {} /\ ids = 0 /\ done = {} /\ again = 0 /\ faults = 0

Become(t, s) == tab' = [tab EXCEPT ![t] = s]
Fails(t, o) == Become(t, [tab[t] EXCEPT !.at = "error", !.out = o])

\* The tab becomes s by an answer; a change of the flow cookie crosses the other logins.
Arrives(t, s) ==
    tab' = [x \in Tab |-> IF x = t THEN s
                          ELSE [tab[x] EXCEPT !.crossed = @ \/ jar'.flow # jar.flow]]

\* set_path of login and build_session_cookie; callback and clear_session remove a cookie
\* of no path, for which the browser takes the directory of the address it asked for.
SetPath == "/"
RemovalPath == "/auth"
Removed(cookie) == IF RemovalPath = SetPath THEN None ELSE cookie

-----------------------------------------------------------------------------
(***************************************************************************)
(* The login: to Keycloak and back.                                        *)
(***************************************************************************)
\* begin_auth: every login has values of its own.
AskLogin(t) ==
    /\ tab[t].at \in {"blank", "keycloak", "page", "out", "error"}
    /\ flows < MaxFlows /\ flows' = flows + 1
    /\ Become(t, [Blank EXCEPT !.at = "login", !.flow = flows'])
    /\ UNCHANGED <<jar, spent, ids, done, again, faults>>

\* Mutant: a login that is under way is gone on with.
FlowCookieKept(f) == IF jar.flow = None THEN f ELSE jar.flow

FlowCookie(f) == f

\* The answer of login: the cookie is set, and the tab goes to Keycloak.
ReceiveLogin(t) ==
    /\ tab[t].at = "login"
    /\ jar' = [jar EXCEPT !.flow = FlowCookie(tab[t].flow)]
    /\ Arrives(t, [tab[t] EXCEPT !.at = "keycloak", !.crossed = FALSE])
    /\ UNCHANGED <<flows, spent, ids, done, again, faults>>

\* The person signs in, and Keycloak sends the tab back with a code for its flow;
\* or does not, and there is no code, which the callback refuses.
Authenticate(t) ==
    /\ tab[t].at = "keycloak"
    /\ \/ \E p \in Person : Become(t, [tab[t] EXCEPT !.at = "return", !.person = p])
       \/ Fails(t, "denied")
    /\ UNCHANGED <<jar, flows, spent, ids, done, again, faults>>

\* callback, up to the exchange: the flow cookie is the one the state names.
Callback(t) ==
    /\ tab[t].at = "return"
    /\ \/ jar.flow = None /\ Fails(t, "missing")
       \/ jar.flow # None /\ jar.flow # tab[t].flow /\ Fails(t, "mismatch")
       \/ jar.flow = tab[t].flow /\ Become(t, [tab[t] EXCEPT !.at = "exchange"])
    /\ UNCHANGED <<jar, flows, spent, ids, done, again, faults>>

\* Mutants: the token is the same for every session; it is no token.
NewSessionPlain(p) == [id |-> ids + 1, person |-> p, csrf |-> 1]
NewSessionBare(p) == [id |-> ids + 1, person |-> p, csrf |-> None]

NewSession(p) == [id |-> ids + 1, person |-> p, csrf |-> ids + 1]

\* exchange_code and what is done with the claims.  A code is good for once, also
\* when the answer is lost.
Exchange(t) ==
    /\ tab[t].at = "exchange"
    /\ LET f == tab[t].flow p == tab[t].person IN
       \/ /\ f \notin spent /\ p \in Admins /\ spent' = spent \cup {f}
          /\ ids' = ids + 1 /\ UNCHANGED faults
          /\ Become(t, [tab[t] EXCEPT !.at = "answer", !.session = NewSession(p)])
       \/ /\ f \notin spent /\ p \notin Admins /\ spent' = spent \cup {f}
          /\ Fails(t, "denied") /\ UNCHANGED <<ids, faults>>
       \/ f \in spent /\ Fails(t, "spent") /\ UNCHANGED <<spent, ids, faults>>
       \/ /\ faults < MaxFaults /\ faults' = faults + 1
          /\ spent' \in {spent, spent \cup {f}}
          /\ Fails(t, "fault") /\ UNCHANGED ids
    /\ UNCHANGED <<jar, flows, done, again>>

\* The answer of callback: the session cookie is set, the flow cookie to be removed.
ReceiveSession(t) ==
    /\ tab[t].at = "answer"
    /\ jar' = [flow |-> Removed(jar.flow), session |-> tab[t].session]
    /\ Arrives(t, [tab[t] EXCEPT !.at = "page"])
    /\ UNCHANGED <<flows, spent, ids, done, again, faults>>

\* The person loads the callback's address again, or goes back to it.
Again(t) ==
    /\ tab[t].at \in {"page", "error"} /\ tab[t].person # None
    /\ again < MaxAgain /\ again' = again + 1
    /\ Become(t, [tab[t] EXCEPT !.at = "return", !.out = "none", !.crossed = TRUE])
    /\ UNCHANGED <<jar, flows, spent, ids, done, faults>>

\* The flow cookie is too old, or the session cookie goes with the browser, whose tabs
\* come back, or does not decrypt after a restart with another secret.
Expire ==
    /\ \/ /\ jar.flow # None /\ jar' = [jar EXCEPT !.flow = None]
          /\ tab' = [x \in Tab |-> [tab[x] EXCEPT !.crossed = TRUE]]
       \/ jar.session # None /\ jar' = [jar EXCEPT !.session = None] /\ UNCHANGED tab
    /\ UNCHANGED <<flows, spent, ids, done, again, faults>>

-----------------------------------------------------------------------------
(***************************************************************************)
(* The session.                                                            *)
(***************************************************************************)
\* AuthenticatedAdmin: without a session cookie every page leads to the login.
OpenPage(t) ==
    /\ tab[t].at \in {"blank", "page", "out", "error"} /\ jar.session # None
    /\ Become(t, [Blank EXCEPT !.at = "page", !.session = jar.session])
    /\ UNCHANGED <<jar, flows, spent, ids, done, again, faults>>

\* csrf::validate: the form of the page against the session of the request.
Valid(t) == tab[t].session.csrf = jar.session.csrf

\* A form: a mutation of any handler, or logout.
Submit(t) ==
    /\ tab[t].at = "page"
    /\ \/ jar.session = None /\ Become(t, Blank) /\ UNCHANGED done
       \/ jar.session # None /\ ~Valid(t) /\ Fails(t, "refused") /\ UNCHANGED done
       \/ /\ jar.session # None /\ Valid(t)
          /\ done' = done \cup {[page |-> tab[t].session, by |-> jar.session]}
          /\ \/ UNCHANGED tab
             \/ Become(t, [tab[t] EXCEPT !.at = "bye"])
    /\ UNCHANGED <<jar, flows, spent, ids, again, faults>>

\* The answer of logout: the session cookie to be removed, and the tab sent to the login.
ReceiveBye(t) ==
    /\ tab[t].at = "bye"
    /\ jar' = [jar EXCEPT !.session = Removed(jar.session)]
    /\ Become(t, [tab[t] EXCEPT !.at = "out"])
    /\ UNCHANGED <<flows, spent, ids, done, again, faults>>

Next ==
    \/ Expire
    \/ \E t \in Tab :
          \/ AskLogin(t) \/ ReceiveLogin(t) \/ Authenticate(t) \/ Callback(t) \/ Exchange(t)
          \/ ReceiveSession(t) \/ Again(t) \/ OpenPage(t) \/ Submit(t) \/ ReceiveBye(t)

Spec == Init /\ [][Next]_vars

-----------------------------------------------------------------------------
(***************************************************************************)
(* Properties.                                                             *)
(***************************************************************************)
TypeOK ==
    /\ jar \in [flow : Nat \cup {None}, session : Session \cup {None}]
    /\ tab \in [Tab -> TabState]
    /\ \A t \in Tab : tab[t].at \in {"answer", "page", "bye"} => tab[t].session # None
    /\ flows \in Nat /\ spent \subseteq Nat /\ ids \in Nat
    /\ done \subseteq [page : Session, by : Session]
    /\ again \in Nat /\ faults \in Nat

\* A form is carried out in the session its page was made for: one that was left
\* open through a logout and another login, in this tab or another, by the same
\* person or another, is refused (csrf::validate, a token drawn for each session).
FormsOfTheirSession == \A d \in done : d.page = d.by

\* A login that Keycloak has granted comes to its end, unless an answer to a login or
\* callback of another tab changed the flow cookie under it, the cookie grew too old,
\* or the callback was loaded before: a login begun anew does not trip over an
\* abandoned one (login, callback: one flow cookie for all tabs).
FailsOnlyCrossed ==
    \A t \in Tab : tab[t].out \in {"missing", "mismatch", "spent"} => tab[t].crossed

\* When the answer of a logout has arrived, the browser no longer sends the session that
\* was left (logout, clear_session).  The code breaks this: the cookie has another path.
LogoutEnds == \A t \in Tab : tab[t].at = "out" => jar.session # tab[t].session
=============================================================================
