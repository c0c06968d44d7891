----------------------------- MODULE AdminCalls -----------------------------
(***************************************************************************)
(* What an admin API client promises its callers, without a word on how it *)
(* keeps its token: a call takes effect at most once, it is tried again    *)
(* only after a refusal and never with a token that was refused, and it    *)
(* reports a refusal only when every try it has was refused.               *)
(***************************************************************************)
EXTENDS Naturals, FiniteSets

CONSTANTS
    Req,      \* calls, each made once
    Token,    \* access tokens of the service account
    Attempts  \* tries a call has

VARIABLE call  \* how far each call has come, and what befell it

Outcome == {"ok", "refused", "err", "cut"}

Call == [out : {"idle", "open"} \cup Outcome, refused : SUBSET Token, effects : Nat]

Init == call = [r \in Req |-> [out |-> "idle", refused |-> {}, effects |-> 0]]

Begin(r) ==
    /\ call[r].out = "idle"
    /\ call' = [call EXCEPT ![r].out = "open"]

Refuse(r, t) ==
    /\ call[r].out = "open" /\ call[r].effects = 0
    /\ t \notin call[r].refused
    /\ call' = [call EXCEPT ![r].refused = @ \cup {t}]

Do(r) ==
    /\ call[r].out = "open" /\ call[r].effects = 0
    /\ call' = [call EXCEPT ![r].effects = 1]

\* An error and a dropped call leave open whether it took effect.
Finish(r, o) ==
    /\ call[r].out = "open"
    /\ o = "ok" => call[r].effects = 1
    /\ o = "refused" => call[r].effects = 0 /\ Cardinality(call[r].refused) = Attempts
    /\ call' = [call EXCEPT ![r].out = o]

Next ==
    \E r \in Req :
        \/ Begin(r) \/ Do(r)
        \/ \E t \in Token : Refuse(r, t)
        \/ \E o \in Outcome : Finish(r, o)

Spec == Init /\ [][Next]_call
=============================================================================
