---------------------------- MODULE LoginProofs ----------------------------
(***************************************************************************)
(* A form is carried out in the session its page was made for, for any     *)
(* number of tabs, people, logins and faults.  The argument: two sessions  *)
(* that are held anywhere, in a tab or in the jar, with the same token are *)
(* the same session, because a new one takes a token none of them has.     *)
(***************************************************************************)
EXTENDS Login, TLAPS

\* The tokens tell the sessions apart, and none is ahead of the count.
Tells(a, b) == a # None /\ b # None /\ a.csrf = b.csrf => a = b
Counted(a) == a # None => a.csrf <= ids

TokensTell ==
    /\ \A t, x \in Tab : Tells(tab[t].session, tab[x].session)
    /\ \A t \in Tab : Tells(tab[t].session, jar.session)
    /\ \A t \in Tab : Counted(tab[t].session)
    /\ Counted(jar.session)

Inv == TypeOK /\ TokensTell /\ FormsOfTheirSession

-----------------------------------------------------------------------------
LEMMA NewSessionType ==
    ASSUME NEW p \in Person, ids \in Nat
    PROVE  /\ NewSession(p) \in Session
           /\ NewSession(p) # None
           /\ NewSession(p).csrf = ids + 1
BY NoneAssumption DEF NewSession, Session

LEMMA RemovedType ==
    ASSUME NEW S, NEW c \in S \cup {None}
    PROVE  Removed(c) \in S \cup {None} /\ Removed(c) \in {c, None}
BY DEF Removed, RemovalPath, SetPath

\* What a tab becomes keeps its type.
LEMMA BlankType == Blank \in TabState /\ Blank.session = None
BY DEF Blank, TabState, At, Out

(***************************************************************************)
(* The steps in which no session is new: the tabs hold what they held, or  *)
(* what the jar held.                                                      *)
(***************************************************************************)
LEMMA HeldKeeps ==
    ASSUME TokensTell, ids' = ids,
           \A t \in Tab : tab'[t].session \in {tab[t].session, jar.session, None},
           \/ jar'.session \in {jar.session, None}
           \/ \E t \in Tab : jar'.session = tab[t].session
    PROVE  TokensTell'
<1> DEFINE Old(s) == s = None \/ s = jar.session \/ \E t \in Tab : s = tab[t].session
<1>1. \A a, b : Old(a) /\ Old(b) => Tells(a, b)
  BY DEF TokensTell, Tells
<1>2. \A a : Old(a) => Counted(a)
  BY DEF TokensTell, Counted
<1>3. Old(jar'.session) /\ \A t \in Tab : Old(tab'[t].session)
  OBVIOUS
<1> QED
  BY <1>1, <1>2, <1>3 DEF TokensTell, Tells, Counted

\* A tab that becomes s, where s holds what the tab held, what the jar holds, or nothing.
TabOK(s) == s \in TabState /\ (s.at \in {"answer", "page", "bye"} => s.session # None)

LEMMA BecomeKeeps ==
    ASSUME TypeOK, TokensTell, NEW t \in Tab, NEW s, TabOK(s), Become(t, s),
           s.session \in {tab[t].session, jar.session, None}, ids' = ids, jar' = jar
    PROVE  /\ tab' \in [Tab -> TabState] /\ \A x \in Tab : TabOK(tab'[x])
           /\ TokensTell'
<1>1. tab' = [tab EXCEPT ![t] = s] /\ tab \in [Tab -> TabState]
  BY DEF Become, TypeOK
<1>2. \A x \in Tab : tab'[x] = IF x = t THEN s ELSE tab[x]
  BY <1>1
<1>3. \A x \in Tab : TabOK(tab[x])
  BY DEF TypeOK, TabOK
<1>4. tab' \in [Tab -> TabState] /\ \A x \in Tab : TabOK(tab'[x])
  BY <1>1, <1>2, <1>3 DEF TabOK
<1>5. TokensTell'
  BY <1>2, HeldKeeps
<1> QED
  BY <1>4, <1>5

\* The same for an answer, which changes what the others remember but not what they hold.
LEMMA ArrivesKeeps ==
    ASSUME TypeOK, NEW t \in Tab, NEW s, TabOK(s), Arrives(t, s)
    PROVE  /\ tab' \in [Tab -> TabState] /\ \A x \in Tab : TabOK(tab'[x])
           /\ \A x \in Tab : tab'[x].session = IF x = t THEN s.session ELSE tab[x].session
<1> DEFINE Other(x) == [tab[x] EXCEPT !.crossed = @ \/ jar'.flow # jar.flow]
<1>1. tab' = [x \in Tab |-> IF x = t THEN s ELSE Other(x)]
  BY DEF Arrives
<1>2. ASSUME NEW x \in Tab PROVE TabOK(Other(x)) /\ Other(x).session = tab[x].session
  BY DEF TypeOK, TabOK, TabState
<1>3. tab' \in [Tab -> TabState] /\ \A x \in Tab : TabOK(tab'[x])
  BY <1>1, <1>2 DEF TabOK
<1>4. \A x \in Tab : tab'[x].session = IF x = t THEN s.session ELSE tab[x].session
  BY <1>1, <1>2
<1> QED
  BY <1>3, <1>4

-----------------------------------------------------------------------------
(***************************************************************************)
(* The actions.                                                            *)
(***************************************************************************)
LEMMA AskLoginKeeps ==
    ASSUME Inv, NEW t \in Tab, AskLogin(t)
    PROVE  Inv'
<1> DEFINE s == [Blank EXCEPT !.at = "login", !.flow = flows']
<1>1. TabOK(s) /\ s.session = None
  <2>1. flows' \in Nat
    BY DEF Inv, TypeOK, AskLogin
  <2> QED
    BY <2>1 DEF TabOK, Blank, TabState, At, Out
<1>2. Become(t, s) /\ ids' = ids /\ jar' = jar
  BY DEF AskLogin
<1> HIDE DEF s
<1>3. tab' \in [Tab -> TabState] /\ (\A x \in Tab : TabOK(tab'[x])) /\ TokensTell'
  BY <1>1, <1>2, BecomeKeeps DEF Inv
<1> QED
  BY <1>2, <1>3 DEF Inv, TypeOK, TabOK, FormsOfTheirSession, AskLogin

\* A tab that fails keeps what it held.
LEMMA FailsOK ==
    ASSUME NEW t \in Tab, NEW o \in Out, tab[t] \in TabState, Fails(t, o)
    PROVE  \E s : Become(t, s) /\ TabOK(s) /\ s.session = tab[t].session
<1> DEFINE s == [tab[t] EXCEPT !.at = "error", !.out = o]
<1>1. TabOK(s) /\ s.session = tab[t].session
  BY DEF TabOK, TabState, At
<1>2. Become(t, s)
  BY DEF Fails
<1> HIDE DEF s
<1> QED
  BY <1>1, <1>2

LEMMA ReceiveLoginKeeps ==
    ASSUME Inv, NEW t \in Tab, ReceiveLogin(t)
    PROVE  Inv'
<1> DEFINE s == [tab[t] EXCEPT !.at = "keycloak", !.crossed = FALSE]
<1>1. TabOK(s) /\ s.session = tab[t].session
  BY DEF Inv, TypeOK, TabOK, TabState, At
<1>2. Arrives(t, s) /\ ids' = ids /\ jar' = [jar EXCEPT !.flow = FlowCookie(tab[t].flow)]
  BY DEF ReceiveLogin
<1> HIDE DEF s
<1>3. /\ tab' \in [Tab -> TabState] /\ (\A x \in Tab : TabOK(tab'[x]))
      /\ \A x \in Tab : tab'[x].session = tab[x].session
  BY <1>1, <1>2, ArrivesKeeps DEF Inv
<1>4. jar' \in [flow : Nat \cup {None}, session : Session \cup {None}] /\ jar'.session = jar.session
  BY <1>2 DEF Inv, TypeOK, TabState, FlowCookie
<1>5. TokensTell'
  BY <1>2, <1>3, <1>4, HeldKeeps DEF Inv
<1> QED
  BY <1>3, <1>4, <1>5 DEF Inv, TypeOK, TabOK, FormsOfTheirSession, ReceiveLogin

LEMMA AuthenticateKeeps ==
    ASSUME Inv, NEW t \in Tab, Authenticate(t)
    PROVE  Inv'
<1>1. tab[t] \in TabState
  BY DEF Inv, TypeOK
<1>2. PICK s : Become(t, s) /\ TabOK(s) /\ s.session = tab[t].session
  <2>1. CASE \E p \in Person : Become(t, [tab[t] EXCEPT !.at = "return", !.person = p])
    <3>1. PICK p \in Person : Become(t, [tab[t] EXCEPT !.at = "return", !.person = p])
      BY <2>1
    <3>2. [tab[t] EXCEPT !.at = "return", !.person = p] \in TabState
      BY <1>1 DEF TabState, At
    <3> QED
      BY <1>1, <3>1, <3>2 DEF TabOK, TabState
  <2>2. CASE Fails(t, "denied")
    BY <1>1, <2>2, FailsOK DEF Out
  <2> QED
    BY <2>1, <2>2 DEF Authenticate
<1>3. tab' \in [Tab -> TabState] /\ (\A x \in Tab : TabOK(tab'[x])) /\ TokensTell'
  BY <1>2, BecomeKeeps DEF Inv, Authenticate
<1> QED
  BY <1>3 DEF Inv, TypeOK, TabOK, FormsOfTheirSession, Authenticate

LEMMA CallbackKeeps ==
    ASSUME Inv, NEW t \in Tab, Callback(t)
    PROVE  Inv'
<1>1. tab[t] \in TabState
  BY DEF Inv, TypeOK
<1>2. PICK s : Become(t, s) /\ TabOK(s) /\ s.session = tab[t].session
  <2>1. CASE \E o \in Out : Fails(t, o)
    <3>1. PICK o \in Out : Fails(t, o)
      BY <2>1
    <3> QED
      BY <1>1, <3>1, FailsOK
  <2>2. CASE Become(t, [tab[t] EXCEPT !.at = "exchange"])
    BY <1>1, <2>2 DEF TabOK, TabState, At
  <2> QED
    BY <2>1, <2>2 DEF Callback, Out
<1>3. tab' \in [Tab -> TabState] /\ (\A x \in Tab : TabOK(tab'[x])) /\ TokensTell'
  BY <1>2, BecomeKeeps DEF Inv, Callback
<1> QED
  BY <1>3 DEF Inv, TypeOK, TabOK, FormsOfTheirSession, Callback

\* The exchange is the one step that makes a session, with a token of its own.
LEMMA ExchangeKeeps ==
    ASSUME Inv, NEW t \in Tab, Exchange(t)
    PROVE  Inv'
<1>1. /\ tab[t] \in TabState /\ ids \in Nat /\ spent \subseteq Nat /\ tab[t].flow \in Nat
      /\ faults \in Nat
  BY DEF Inv, TypeOK, TabState
<1>2. CASE ids' = ids /\ \E o \in Out : Fails(t, o)
  <2>1. PICK o \in Out : Fails(t, o)
    BY <1>2
  <2>2. PICK s : Become(t, s) /\ TabOK(s) /\ s.session = tab[t].session
    BY <1>1, <2>1, FailsOK
  <2>3. tab' \in [Tab -> TabState] /\ (\A x \in Tab : TabOK(tab'[x])) /\ TokensTell'
    BY <1>2, <2>2, BecomeKeeps DEF Inv, Exchange
  <2> QED
    BY <1>1, <1>2, <2>3 DEF Inv, TypeOK, TabOK, FormsOfTheirSession, Exchange
<1>3. CASE /\ ids' = ids + 1 /\ UNCHANGED faults /\ tab[t].person \in Admins
           /\ Become(t, [tab[t] EXCEPT !.at = "answer",
                                       !.session = NewSession(tab[t].person)])
  <2> DEFINE n == NewSession(tab[t].person)
  <2>1. n \in Session /\ n # None /\ n.csrf = ids + 1
    BY <1>1, <1>3, NewSessionType, AdminsAssumption
  <2> HIDE DEF n
  <2> DEFINE s == [tab[t] EXCEPT !.at = "answer", !.session = n]
  <2>2. s \in TabState /\ s.session = n
    BY <1>1, <2>1 DEF TabState, At
  <2>3. TabOK(s)
    BY <2>1, <2>2 DEF TabOK
  <2>4. tab' = [tab EXCEPT ![t] = s] /\ jar' = jar
    BY <1>3 DEF Become, Exchange, n
  <2> HIDE DEF s
  <2>5. tab' \in [Tab -> TabState] /\ \A x \in Tab : tab'[x] = IF x = t THEN s ELSE tab[x]
    BY <2>2, <2>4 DEF Inv, TypeOK
  <2>6. \A x \in Tab : TabOK(tab'[x])
    BY <2>3, <2>5 DEF Inv, TypeOK, TabOK
  <2>7. \A x \in Tab : tab'[x].session = IF x = t THEN n ELSE tab[x].session
    BY <2>2, <2>5
  <2>8. /\ \A x \in Tab : tab[x].session # None
              => tab[x].session.csrf \in Nat /\ tab[x].session.csrf <= ids
        /\ jar.session # None => jar.session.csrf \in Nat /\ jar.session.csrf <= ids
    BY DEF Inv, TypeOK, TabState, Session, TokensTell, Counted
  <2>9. TokensTell'
    BY <1>1, <1>3, <2>1, <2>4, <2>7, <2>8 DEF Inv, TokensTell, Tells, Counted
  <2> QED
    BY <1>1, <1>3, <2>5, <2>6, <2>9 DEF Inv, TypeOK, TabOK, FormsOfTheirSession, Exchange
<1> QED
  BY <1>2, <1>3 DEF Exchange, Out

LEMMA ReceiveSessionKeeps ==
    ASSUME Inv, NEW t \in Tab, ReceiveSession(t)
    PROVE  Inv'
<1> DEFINE s == [tab[t] EXCEPT !.at = "page"]
<1>1. TabOK(s) /\ s.session = tab[t].session
  BY DEF Inv, TypeOK, ReceiveSession, TabOK, TabState, At
<1>2. /\ Arrives(t, s) /\ ids' = ids
      /\ jar' = [flow |-> Removed(jar.flow), session |-> tab[t].session]
  BY DEF ReceiveSession
<1> HIDE DEF s
<1>3. /\ tab' \in [Tab -> TabState] /\ (\A x \in Tab : TabOK(tab'[x]))
      /\ \A x \in Tab : tab'[x].session = tab[x].session
  BY <1>1, <1>2, ArrivesKeeps DEF Inv
<1>4. Removed(jar.flow) \in Nat \cup {None}
  BY RemovedType DEF Inv, TypeOK
<1>5. jar' \in [flow : Nat \cup {None}, session : Session \cup {None}]
  BY <1>2, <1>4 DEF Inv, TypeOK, TabState
<1>6. TokensTell'
  BY <1>2, <1>3, HeldKeeps DEF Inv
<1> QED
  BY <1>3, <1>5, <1>6 DEF Inv, TypeOK, TabOK, FormsOfTheirSession, ReceiveSession

LEMMA AgainKeeps ==
    ASSUME Inv, NEW t \in Tab, Again(t)
    PROVE  Inv'
<1> DEFINE s == [tab[t] EXCEPT !.at = "return", !.out = "none", !.crossed = TRUE]
<1>1. TabOK(s) /\ s.session = tab[t].session
  BY ZenonT(60) DEF Inv, TypeOK, TabOK, TabState, At, Out
<1>2. Become(t, s) /\ ids' = ids /\ jar' = jar
  BY DEF Again
<1> HIDE DEF s
<1>3. tab' \in [Tab -> TabState] /\ (\A x \in Tab : TabOK(tab'[x])) /\ TokensTell'
  BY <1>1, <1>2, BecomeKeeps DEF Inv
<1> QED
  BY <1>3 DEF Inv, TypeOK, TabOK, FormsOfTheirSession, Again

LEMMA ExpireKeeps ==
    ASSUME Inv, Expire
    PROVE  Inv'
<1>1. jar' \in [flow : Nat \cup {None}, session : Session \cup {None}]
      /\ jar'.session \in {jar.session, None}
  BY DEF Inv, TypeOK, Expire
<1>2. /\ tab' \in [Tab -> TabState] /\ (\A x \in Tab : TabOK(tab'[x]))
      /\ \A x \in Tab : tab'[x].session = tab[x].session
  <2> DEFINE Other(x) == [tab[x] EXCEPT !.crossed = TRUE]
  <2>1. ASSUME NEW x \in Tab PROVE TabOK(Other(x)) /\ Other(x).session = tab[x].session
    BY DEF Inv, TypeOK, TabOK, TabState
  <2>2. CASE tab' = [x \in Tab |-> Other(x)]
    BY <2>1, <2>2 DEF TabOK
  <2>3. CASE tab' = tab
    BY <2>3 DEF Inv, TypeOK, TabOK
  <2> QED
    BY <2>2, <2>3 DEF Expire
<1>3. TokensTell'
  BY <1>1, <1>2, HeldKeeps DEF Inv, Expire
<1> QED
  BY <1>1, <1>2, <1>3 DEF Inv, TypeOK, TabOK, FormsOfTheirSession, Expire

LEMMA OpenPageKeeps ==
    ASSUME Inv, NEW t \in Tab, OpenPage(t)
    PROVE  Inv'
<1> DEFINE s == [Blank EXCEPT !.at = "page", !.session = jar.session]
<1>1. TabOK(s) /\ s.session = jar.session
  BY DEF Inv, TypeOK, OpenPage, TabOK, Blank, TabState, At, Out
<1>2. Become(t, s) /\ ids' = ids /\ jar' = jar
  BY DEF OpenPage
<1> HIDE DEF s
<1>3. tab' \in [Tab -> TabState] /\ (\A x \in Tab : TabOK(tab'[x])) /\ TokensTell'
  BY <1>1, <1>2, BecomeKeeps DEF Inv
<1> QED
  BY <1>3 DEF Inv, TypeOK, TabOK, FormsOfTheirSession, OpenPage

\* A form is carried out only with the token of the request's session.
LEMMA SubmitKeeps ==
    ASSUME Inv, NEW t \in Tab, Submit(t)
    PROVE  Inv'
<1>1. tab[t] \in TabState /\ ids' = ids /\ jar' = jar /\ TabOK(tab[t])
  BY DEF Inv, TypeOK, Submit, TabOK
<1>2. PICK s : Become(t, s) /\ TabOK(s) /\ s.session \in {tab[t].session, None}
  <2>1. CASE Become(t, Blank)
    BY <2>1, BlankType DEF TabOK, Blank
  <2>2. CASE Fails(t, "refused")
    BY <1>1, <2>2, FailsOK DEF Out
  <2>3. CASE tab' = tab
    <3>1. Become(t, tab[t])
      BY <2>3 DEF Become, Inv, TypeOK
    <3> QED
      BY <1>1, <3>1
  <2>4. CASE Become(t, [tab[t] EXCEPT !.at = "bye"]) /\ tab[t].at = "page"
    BY <1>1, <2>4 DEF TabOK, TabState, At
  <2> QED
    BY <2>1, <2>2, <2>3, <2>4 DEF Submit
<1>3. tab' \in [Tab -> TabState] /\ (\A x \in Tab : TabOK(tab'[x])) /\ TokensTell'
  BY <1>1, <1>2, BecomeKeeps DEF Inv
<1>4. FormsOfTheirSession' /\ done' \subseteq [page : Session, by : Session]
  <2>1. CASE done' = done
    BY <2>1 DEF Inv, TypeOK, FormsOfTheirSession
  <2>2. CASE /\ tab[t].at = "page" /\ jar.session # None /\ Valid(t)
             /\ done' = done \cup {[page |-> tab[t].session, by |-> jar.session]}
    <3>1. tab[t].session \in Session /\ jar.session \in Session /\ tab[t].session # None
      BY <1>1, <2>2 DEF Inv, TypeOK, TabState, TabOK
    <3>2. tab[t].session = jar.session
      BY <2>2, <3>1 DEF Inv, TokensTell, Tells, Valid
    <3> QED
      BY <2>2, <3>1, <3>2 DEF Inv, TypeOK, FormsOfTheirSession
  <2> QED
    BY <2>1, <2>2 DEF Submit
<1> QED
  BY <1>1, <1>3, <1>4 DEF Inv, TypeOK, TabOK, Submit

LEMMA ReceiveByeKeeps ==
    ASSUME Inv, NEW t \in Tab, ReceiveBye(t)
    PROVE  Inv'
<1> DEFINE s == [tab[t] EXCEPT !.at = "out"]
<1>1. TabOK(s) /\ s.session = tab[t].session /\ tab' = [tab EXCEPT ![t] = s]
  BY DEF Inv, TypeOK, TabOK, TabState, At, ReceiveBye, Become
<1> HIDE DEF s
<1>2. \A x \in Tab : tab'[x] = IF x = t THEN s ELSE tab[x]
  BY <1>1 DEF Inv, TypeOK
<1>3. tab' \in [Tab -> TabState] /\ \A x \in Tab : TabOK(tab'[x])
  BY <1>1, <1>2 DEF Inv, TypeOK, TabOK
<1>4. /\ jar' \in [flow : Nat \cup {None}, session : Session \cup {None}]
      /\ jar'.session \in {jar.session, None}
  BY RemovedType DEF Inv, TypeOK, ReceiveBye
<1>5. TokensTell'
  BY <1>1, <1>2, <1>4, HeldKeeps DEF Inv, ReceiveBye
<1> QED
  BY <1>3, <1>4, <1>5 DEF Inv, TypeOK, TabOK, FormsOfTheirSession, ReceiveBye

-----------------------------------------------------------------------------
LEMMA InitHolds ==
    ASSUME Init
    PROVE  Inv
<1>1. \A t \in Tab : tab[t] = Blank
  BY DEF Init
<1>2. TypeOK
  BY <1>1, BlankType DEF Init, TypeOK, Blank
<1>3. TokensTell
  BY <1>1, BlankType DEF Init, TokensTell, Tells, Counted
<1> QED
  BY <1>2, <1>3 DEF Init, Inv, FormsOfTheirSession

LEMMA StepKeeps == Inv /\ [Next]_vars => Inv'
<1> SUFFICES ASSUME Inv, [Next]_vars
             PROVE  Inv'
  OBVIOUS
<1>1. CASE Expire
  BY <1>1, ExpireKeeps
<1>2. ASSUME NEW t \in Tab,
             \/ AskLogin(t) \/ ReceiveLogin(t) \/ Authenticate(t) \/ Callback(t)
             \/ Exchange(t) \/ ReceiveSession(t) \/ Again(t) \/ OpenPage(t)
             \/ Submit(t) \/ ReceiveBye(t)
      PROVE  Inv'
  BY <1>2, AskLoginKeeps, ReceiveLoginKeeps, AuthenticateKeeps, CallbackKeeps,
     ExchangeKeeps, ReceiveSessionKeeps, AgainKeeps, OpenPageKeeps, SubmitKeeps,
     ReceiveByeKeeps
<1>3. CASE UNCHANGED vars
  BY <1>3 DEF vars, Inv, TypeOK, TokensTell, Tells, Counted, FormsOfTheirSession
<1> QED
  BY <1>1, <1>2, <1>3 DEF Next

\* The variables keep their types (all of Login).
THEOREM TypeCorrect == Spec => []TypeOK
<1>1. Init => Inv
  BY InitHolds
<1>2. Inv /\ [Next]_vars => Inv'
  BY StepKeeps
<1>3. Inv => TypeOK
  BY DEF Inv
<1> QED
  BY <1>1, <1>2, <1>3, PTL DEF Spec

\* A form is carried out in the session its page was made for (csrf::validate).
THEOREM FormsStayInTheirSession == Spec => []FormsOfTheirSession
<1>1. Init => Inv
  BY InitHolds
<1>2. Inv /\ [Next]_vars => Inv'
  BY StepKeeps
<1>3. Inv => FormsOfTheirSession
  BY DEF Inv
<1> QED
  BY <1>1, <1>2, <1>3, PTL DEF Spec

-----------------------------------------------------------------------------
(***************************************************************************)
(* A login trips over no other unless the flow cookie was changed under    *)
(* it.  The argument: no two tabs have begun the same login, and that of a *)
(* tab nobody crossed is in the jar until its callback comes, and unspent  *)
(* until its exchange.                                                     *)
(***************************************************************************)
Waits == {"login", "keycloak", "return", "exchange"}

\* Of a tab s, with the flow cookie c and the spent flows f.
Ready(s, c, f) ==
    /\ s.at \in Waits \/ s.person # None => s.flow # 0
    /\ s.at = "login" => s.out = "none" /\ s.flow \notin f
    /\ ~s.crossed /\ s.at \in {"keycloak", "return"} => c = s.flow
    /\ ~s.crossed /\ s.at \in Waits => s.flow \notin f
    /\ s.out \in {"missing", "mismatch", "spent"} => s.crossed

FlowsTell ==
    /\ \A t, x \in Tab : tab[t].flow = tab[x].flow /\ tab[t].flow # 0 => t = x
    /\ \A t \in Tab : tab[t].flow <= flows
    /\ \A f \in spent : f <= flows

FlowInv == FlowsTell /\ \A t \in Tab : Ready(tab[t], jar.flow, spent)

LEMMA BecomeReady ==
    ASSUME TypeOK, FlowInv, NEW t \in Tab, NEW s, Become(t, s), Ready(s, jar.flow, spent),
           s.flow \in {tab[t].flow, 0}, UNCHANGED <<flows, spent>>, jar'.flow = jar.flow
    PROVE  FlowInv'
<1>1. \A x \in Tab : tab'[x] = IF x = t THEN s ELSE tab[x]
  BY DEF Become, TypeOK
<1>2. flows \in Nat /\ \A x \in Tab : tab[x].flow \in Nat
  BY DEF TypeOK, TabState
<1>3. FlowsTell'
  BY <1>1, <1>2 DEF FlowInv, FlowsTell
<1>4. \A x \in Tab : Ready(tab'[x], jar'.flow, spent')
  BY <1>1 DEF FlowInv
<1> QED
  BY <1>3, <1>4 DEF FlowInv

LEMMA ArrivesReady ==
    ASSUME TypeOK, FlowInv, NEW t \in Tab, NEW s, Arrives(t, s), Ready(s, jar'.flow, spent),
           s.flow = tab[t].flow, UNCHANGED <<flows, spent>>
    PROVE  FlowInv'
<1>0. \A x \in Tab : tab[x] \in TabState
  BY DEF TypeOK
<1>1. ASSUME NEW x \in Tab
      PROVE  tab'[x].flow = tab[x].flow /\ Ready(tab'[x], jar'.flow, spent)
  <2>1. CASE x = t
    BY <2>1 DEF Arrives
  <2>2. CASE x # t
    <3>1. tab'[x] = [tab[x] EXCEPT !.crossed = @ \/ jar'.flow # jar.flow]
      BY <2>2 DEF Arrives
    <3>2. /\ tab'[x].at = tab[x].at /\ tab'[x].person = tab[x].person /\ tab'[x].out = tab[x].out
          /\ tab'[x].flow = tab[x].flow
          /\ tab[x].crossed => tab'[x].crossed
          /\ jar'.flow # jar.flow => tab'[x].crossed
      BY <1>0, <3>1 DEF TabState
    <3>3. Ready(tab[x], jar.flow, spent)
      BY DEF FlowInv
    <3> QED
      BY <3>2, <3>3 DEF Ready
  <2> QED
    BY <2>1, <2>2
<1>2. FlowsTell'
  BY <1>1 DEF FlowInv, FlowsTell
<1> QED
  BY <1>1, <1>2 DEF FlowInv

\* A tab that fails for want of what a crossed login lacks was crossed.
LEMMA FailsReady ==
    ASSUME TypeOK, FlowInv, NEW t \in Tab, NEW o \in Out, Fails(t, o),
           o \in {"missing", "mismatch", "spent"} => tab[t].crossed,
           UNCHANGED <<flows, spent>>, jar'.flow = jar.flow
    PROVE  FlowInv'
<1> DEFINE s == [tab[t] EXCEPT !.at = "error", !.out = o]
<1>1. /\ s.at = "error" /\ s.out = o /\ s.flow = tab[t].flow /\ s.person = tab[t].person
      /\ s.crossed = tab[t].crossed
  BY DEF TypeOK, TabState
<1>2. Become(t, s)
  BY DEF Fails
<1> HIDE DEF s
<1>3. Ready(s, jar.flow, spent)
  BY <1>1 DEF FlowInv, Ready, Waits
<1> QED
  BY <1>1, <1>2, <1>3, BecomeReady

\* A tab that goes from one place to another, with nothing failed.
LEMMA GoesReady ==
    ASSUME TypeOK, FlowInv, NEW t \in Tab, NEW s, Become(t, s),
           s.flow = tab[t].flow, s.person = tab[t].person \/ s.flow # 0,
           s.out = tab[t].out, s.crossed = tab[t].crossed,
           \/ s.at \notin Waits
           \/ /\ tab[t].at \in Waits \ {"exchange"} /\ s.at \in {"return", "exchange"}
              /\ s.at = "return" => tab[t].at = "keycloak",
           UNCHANGED <<flows, spent>>, jar'.flow = jar.flow
    PROVE  FlowInv'
<1>1. Ready(s, jar.flow, spent)
  BY DEF FlowInv, Ready, Waits
<1> QED
  BY <1>1, BecomeReady

LEMMA BlankReady ==
    ASSUME TypeOK, FlowInv, NEW t \in Tab, NEW s, Become(t, s),
           s.at \in {"blank", "page"}, s.flow = 0, s.person = None, s.out = "none",
           UNCHANGED <<flows, spent>>, jar'.flow = jar.flow
    PROVE  FlowInv'
<1>1. Ready(s, jar.flow, spent)
  BY DEF Ready, Waits
<1> QED
  BY <1>1, BecomeReady

\* A login takes a flow that no tab has and that is not spent.
LEMMA AskLoginReady ==
    ASSUME TypeOK, FlowInv, NEW t \in Tab, AskLogin(t)
    PROVE  FlowInv'
<1> DEFINE s == [Blank EXCEPT !.at = "login", !.flow = flows']
<1>1. flows \in Nat /\ flows' = flows + 1 /\ \A x \in Tab : tab[x].flow \in Nat
  BY DEF TypeOK, TabState, AskLogin
<1>2. s.at = "login" /\ s.flow = flows' /\ s.out = "none" /\ s.person = None
  BY DEF Blank
<1>3. UNCHANGED <<jar, spent>> /\ tab' = [tab EXCEPT ![t] = s]
  BY DEF AskLogin, Become
<1> HIDE DEF s
<1>4. \A x \in Tab : tab'[x] = IF x = t THEN s ELSE tab[x]
  BY <1>3 DEF TypeOK
<1>5. flows' \notin spent /\ spent \subseteq Nat
  BY <1>1 DEF FlowInv, FlowsTell, TypeOK
<1>6. FlowsTell'
  BY <1>1, <1>2, <1>3, <1>4, <1>5 DEF FlowInv, FlowsTell
<1>7. Ready(s, jar'.flow, spent')
  BY <1>1, <1>2, <1>3, <1>5 DEF Ready
<1> QED
  BY <1>3, <1>4, <1>6, <1>7 DEF FlowInv

LEMMA ReceiveLoginReady ==
    ASSUME TypeOK, FlowInv, NEW t \in Tab, ReceiveLogin(t)
    PROVE  FlowInv'
<1> DEFINE s == [tab[t] EXCEPT !.at = "keycloak", !.crossed = FALSE]
<1>1. /\ s.at = "keycloak" /\ s.out = tab[t].out /\ s.flow = tab[t].flow
      /\ s.person = tab[t].person
  BY DEF TypeOK, TabState
<1>2. Arrives(t, s) /\ UNCHANGED <<flows, spent>> /\ jar'.flow = tab[t].flow /\ tab[t].at = "login"
  BY DEF ReceiveLogin, FlowCookie, TypeOK
<1> HIDE DEF s
<1>3. Ready(s, jar'.flow, spent)
  BY <1>1, <1>2 DEF FlowInv, Ready, Waits
<1> QED
  BY <1>1, <1>2, <1>3, ArrivesReady

LEMMA AuthenticateReady ==
    ASSUME TypeOK, FlowInv, NEW t \in Tab, Authenticate(t)
    PROVE  FlowInv'
<1>1. UNCHANGED <<jar, flows, spent>> /\ tab[t].at = "keycloak" /\ tab[t] \in TabState
  BY DEF Authenticate, TypeOK
<1>2. CASE Fails(t, "denied")
  BY <1>1, <1>2, FailsReady DEF Out
<1>3. ASSUME NEW p \in Person, Become(t, [tab[t] EXCEPT !.at = "return", !.person = p])
      PROVE  FlowInv'
  <2> DEFINE s == [tab[t] EXCEPT !.at = "return", !.person = p]
  <2>1. s.at = "return" /\ s.out = tab[t].out /\ s.flow = tab[t].flow /\ s.crossed = tab[t].crossed
    BY <1>1 DEF TabState
  <2>2. Become(t, s)
    BY <1>3
  <2> HIDE DEF s
  <2>3. s.flow # 0
    BY <1>1, <2>1 DEF FlowInv, Ready, Waits
  <2> QED
    BY <1>1, <2>1, <2>2, <2>3, GoesReady DEF Waits
<1> QED
  BY <1>2, <1>3 DEF Authenticate

LEMMA CallbackReady ==
    ASSUME TypeOK, FlowInv, NEW t \in Tab, Callback(t)
    PROVE  FlowInv'
<1>1. /\ UNCHANGED <<jar, flows, spent>> /\ tab[t].at = "return" /\ tab[t] \in TabState
      /\ Ready(tab[t], jar.flow, spent)
  BY DEF Callback, TypeOK, FlowInv
<1>2. CASE jar.flow # tab[t].flow
  <2>1. tab[t].crossed
    BY <1>1, <1>2 DEF Ready
  <2>2. CASE Fails(t, "missing")
    BY <1>1, <2>1, <2>2, FailsReady DEF Out
  <2>3. CASE Fails(t, "mismatch")
    BY <1>1, <2>1, <2>3, FailsReady DEF Out
  <2> QED
    BY <1>2, <2>2, <2>3 DEF Callback
<1>3. CASE Become(t, [tab[t] EXCEPT !.at = "exchange"])
  <2> DEFINE s == [tab[t] EXCEPT !.at = "exchange"]
  <2>1. /\ s.at = "exchange" /\ s.out = tab[t].out /\ s.flow = tab[t].flow
        /\ s.person = tab[t].person /\ s.crossed = tab[t].crossed
    BY <1>1 DEF TabState
  <2>2. Become(t, s)
    BY <1>3
  <2> HIDE DEF s
  <2> QED
    BY <1>1, <2>1, <2>2, GoesReady DEF Waits
<1>4. tab[t].flow # None
  BY <1>1, NoneAssumption DEF TabState
<1> QED
  BY <1>2, <1>3, <1>4 DEF Callback

\* The flow is spent by the exchange of the one tab that has it.
LEMMA ExchangeReady ==
    ASSUME TypeOK, FlowInv, NEW t \in Tab, Exchange(t)
    PROVE  FlowInv'
<1>1. /\ UNCHANGED <<jar, flows>> /\ tab[t].at = "exchange" /\ tab[t] \in TabState
      /\ Ready(tab[t], jar.flow, spent) /\ tab[t].flow # 0
  BY DEF Exchange, TypeOK, FlowInv, Ready, Waits
<1>2. CASE tab[t].flow \in spent /\ Fails(t, "spent") /\ UNCHANGED spent
  <2>1. tab[t].crossed
    BY <1>1, <1>2 DEF Ready, Waits
  <2> QED
    BY <1>1, <1>2, <2>1, FailsReady DEF Out
<1>3. ASSUME NEW s, tab' = [tab EXCEPT ![t] = s], s.at \notin Waits, s.flow = tab[t].flow,
             s.out \in {"none", "denied", "fault"} \/ s.out = tab[t].out,
             s.crossed = tab[t].crossed,
             spent' \in {spent, spent \cup {tab[t].flow}}
      PROVE  FlowInv'
  <2>1. \A x \in Tab : tab'[x] = IF x = t THEN s ELSE tab[x]
    BY <1>3 DEF TypeOK
  <2>2. FlowsTell'
    BY <1>1, <1>3, <2>1 DEF FlowInv, FlowsTell
  <2>3. Ready(s, jar.flow, spent')
    BY <1>1, <1>3 DEF Ready, Waits
  <2>4. ASSUME NEW x \in Tab, x # t PROVE Ready(tab[x], jar.flow, spent')
    <3>1. Ready(tab[x], jar.flow, spent) /\ (tab[x].at \in Waits => tab[x].flow # tab[t].flow)
      BY <1>1, <2>4 DEF FlowInv, FlowsTell
    <3> QED
      BY <1>3, <3>1 DEF Ready, Waits
  <2> QED
    BY <1>1, <2>1, <2>2, <2>3, <2>4 DEF FlowInv
<1>4. ASSUME NEW o \in {"denied", "fault"}, Fails(t, o),
             spent' \in {spent, spent \cup {tab[t].flow}}
      PROVE  FlowInv'
  <2> DEFINE s == [tab[t] EXCEPT !.at = "error", !.out = o]
  <2>1. s.at = "error" /\ s.out = o /\ s.flow = tab[t].flow /\ s.crossed = tab[t].crossed
    BY <1>1 DEF TabState
  <2>2. tab' = [tab EXCEPT ![t] = s]
    BY <1>4 DEF Fails, Become
  <2> HIDE DEF s
  <2> QED
    BY <1>3, <1>4, <2>1, <2>2 DEF Waits
<1>5. CASE /\ spent' = spent \cup {tab[t].flow}
           /\ Become(t, [tab[t] EXCEPT !.at = "answer", !.session = NewSession(tab[t].person)])
  <2> DEFINE s == [tab[t] EXCEPT !.at = "answer", !.session = NewSession(tab[t].person)]
  <2>1. s.at = "answer" /\ s.out = tab[t].out /\ s.flow = tab[t].flow /\ s.crossed = tab[t].crossed
    BY <1>1 DEF TabState
  <2>2. tab' = [tab EXCEPT ![t] = s]
    BY <1>5 DEF Become
  <2> HIDE DEF s
  <2> QED
    BY <1>3, <1>5, <2>1, <2>2 DEF Waits
<1> QED
  BY <1>2, <1>4, <1>5 DEF Exchange

LEMMA ReceiveSessionReady ==
    ASSUME TypeOK, FlowInv, NEW t \in Tab, ReceiveSession(t)
    PROVE  FlowInv'
<1> DEFINE s == [tab[t] EXCEPT !.at = "page"]
<1>1. /\ s.at = "page" /\ s.out = tab[t].out /\ s.flow = tab[t].flow
      /\ s.person = tab[t].person /\ s.crossed = tab[t].crossed
  BY DEF TypeOK, TabState
<1>2. Arrives(t, s) /\ UNCHANGED <<flows, spent>>
  BY DEF ReceiveSession
<1> HIDE DEF s
<1>3. Ready(s, jar'.flow, spent)
  BY <1>1 DEF FlowInv, Ready, Waits
<1> QED
  BY <1>1, <1>2, <1>3, ArrivesReady

LEMMA AgainReady ==
    ASSUME TypeOK, FlowInv, NEW t \in Tab, Again(t)
    PROVE  FlowInv'
<1> DEFINE s == [tab[t] EXCEPT !.at = "return", !.out = "none", !.crossed = TRUE]
<1>1. /\ s.at = "return" /\ s.out = "none" /\ s.flow = tab[t].flow
      /\ s.person = tab[t].person /\ s.crossed
  BY DEF TypeOK, TabState
<1>2. Become(t, s) /\ UNCHANGED <<jar, flows, spent>> /\ tab[t].person # None
  BY DEF Again
<1> HIDE DEF s
<1>3. Ready(s, jar.flow, spent)
  BY <1>1, <1>2 DEF FlowInv, Ready, Waits
<1> QED
  BY <1>1, <1>2, <1>3, BecomeReady

LEMMA ExpireReady ==
    ASSUME TypeOK, FlowInv, Expire
    PROVE  FlowInv'
<1>1. CASE jar' = [jar EXCEPT !.session = None] /\ UNCHANGED tab
  <2>1. jar'.flow = jar.flow /\ UNCHANGED <<tab, flows, spent>>
    BY <1>1 DEF TypeOK, Expire
  <2> QED
    BY <2>1 DEF FlowInv, FlowsTell
<1>2. CASE tab' = [x \in Tab |-> [tab[x] EXCEPT !.crossed = TRUE]]
  <2>1. UNCHANGED <<flows, spent>>
    BY DEF Expire
  <2>2. \A x \in Tab : /\ tab'[x].at = tab[x].at /\ tab'[x].person = tab[x].person
                       /\ tab'[x].out = tab[x].out /\ tab'[x].flow = tab[x].flow
                       /\ tab'[x].crossed
    BY <1>2 DEF TypeOK, TabState
  <2>3. \A x \in Tab : Ready(tab'[x], jar'.flow, spent)
    BY <2>2 DEF FlowInv, Ready
  <2>4. FlowsTell'
    BY <2>1, <2>2 DEF FlowInv, FlowsTell
  <2> QED
    BY <2>1, <2>3, <2>4 DEF FlowInv
<1> QED
  BY <1>1, <1>2 DEF Expire

LEMMA OpenPageReady ==
    ASSUME TypeOK, FlowInv, NEW t \in Tab, OpenPage(t)
    PROVE  FlowInv'
<1> DEFINE s == [Blank EXCEPT !.at = "page", !.session = jar.session]
<1>1. s.at = "page" /\ s.flow = 0 /\ s.person = None /\ s.out = "none"
  BY DEF Blank
<1>2. Become(t, s) /\ UNCHANGED <<jar, flows, spent>>
  BY DEF OpenPage
<1> HIDE DEF s
<1> QED
  BY <1>1, <1>2, BlankReady

LEMMA SubmitReady ==
    ASSUME TypeOK, FlowInv, NEW t \in Tab, Submit(t)
    PROVE  FlowInv'
<1>1. UNCHANGED <<jar, flows, spent>> /\ tab[t] \in TabState
  BY DEF Submit, TypeOK
<1>2. CASE Become(t, Blank)
  BY <1>1, <1>2, BlankReady DEF Blank
<1>3. CASE Fails(t, "refused")
  BY <1>1, <1>3, FailsReady DEF Out
<1>4. CASE UNCHANGED tab
  BY <1>1, <1>4 DEF FlowInv, FlowsTell
<1>5. CASE Become(t, [tab[t] EXCEPT !.at = "bye"])
  <2> DEFINE s == [tab[t] EXCEPT !.at = "bye"]
  <2>1. /\ s.at = "bye" /\ s.out = tab[t].out /\ s.flow = tab[t].flow
        /\ s.person = tab[t].person /\ s.crossed = tab[t].crossed
    BY <1>1 DEF TabState
  <2>2. Become(t, s)
    BY <1>5
  <2> HIDE DEF s
  <2> QED
    BY <1>1, <2>1, <2>2, GoesReady DEF Waits
<1> QED
  BY <1>2, <1>3, <1>4, <1>5 DEF Submit

LEMMA ReceiveByeReady ==
    ASSUME TypeOK, FlowInv, NEW t \in Tab, ReceiveBye(t)
    PROVE  FlowInv'
<1> DEFINE s == [tab[t] EXCEPT !.at = "out"]
<1>1. /\ s.at = "out" /\ s.out = tab[t].out /\ s.flow = tab[t].flow
      /\ s.person = tab[t].person /\ s.crossed = tab[t].crossed
  BY DEF TypeOK, TabState
<1>2. Become(t, s) /\ UNCHANGED <<flows, spent>> /\ jar'.flow = jar.flow
  BY DEF ReceiveBye, TypeOK
<1> HIDE DEF s
<1> QED
  BY <1>1, <1>2, GoesReady DEF Waits

LEMMA ReadyInit ==
    ASSUME Init
    PROVE  FlowInv
<1>1. \A t \in Tab : tab[t] = Blank
  BY DEF Init
<1> QED
  BY <1>1 DEF Init, FlowInv, FlowsTell, Ready, Waits, Blank

LEMMA ReadyKeeps == TypeOK /\ FlowInv /\ [Next]_vars => FlowInv'
<1> SUFFICES ASSUME TypeOK, FlowInv, [Next]_vars
             PROVE  FlowInv'
  OBVIOUS
<1>1. CASE Expire
  BY <1>1, ExpireReady
<1>2. ASSUME NEW t \in Tab,
             \/ AskLogin(t) \/ ReceiveLogin(t) \/ Authenticate(t) \/ Callback(t)
             \/ Exchange(t) \/ ReceiveSession(t) \/ Again(t) \/ OpenPage(t)
             \/ Submit(t) \/ ReceiveBye(t)
      PROVE  FlowInv'
  BY <1>2, AskLoginReady, ReceiveLoginReady, AuthenticateReady, CallbackReady,
     ExchangeReady, ReceiveSessionReady, AgainReady, OpenPageReady, SubmitReady,
     ReceiveByeReady
<1>3. CASE UNCHANGED vars
  BY <1>3 DEF vars, FlowInv, FlowsTell
<1> QED
  BY <1>1, <1>2, <1>3 DEF Next

\* A login that Keycloak has granted fails for its cookie or its code only when the
\* flow cookie was changed under it, or its callback was loaded before.
THEOREM FailuresAreCrossed == Spec => []FailsOnlyCrossed
<1>1. Init => Inv /\ FlowInv
  BY InitHolds, ReadyInit
<1>2. Inv /\ FlowInv /\ [Next]_vars => (Inv /\ FlowInv)'
  BY StepKeeps, ReadyKeeps DEF Inv
<1>3. FlowInv => FailsOnlyCrossed
  BY DEF FlowInv, Ready, FailsOnlyCrossed
<1> QED
  BY <1>1, <1>2, <1>3, PTL DEF Spec
=============================================================================
