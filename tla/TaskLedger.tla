----------------------------- MODULE TaskLedger -----------------------------
(***************************************************************************)
(* What task authorization promises, with nothing said about brokers,      *)
(* challenges or sessions: a decision of the user gives at most one        *)
(* authorization, an authorization is taken by at most one session and is  *)
(* never taken after it is over, and what is over stays over.              *)
(***************************************************************************)
CONSTANTS Authorizations, Decisions, Holders, Nobody

VARIABLES
    given,   \* given[a]: the decision behind a, or Nobody
    holder,  \* holder[a]: the session that took a, or Nobody
    over     \* the authorizations that have ended

lvars == <<given, holder, over>>

LInit ==
    /\ given = [a \in Authorizations |-> Nobody]
    /\ holder = [a \in Authorizations |-> Nobody]
    /\ over = {}

Give(a, d) ==
    /\ given[a] = Nobody /\ a \notin over
    /\ \A b \in Authorizations : given[b] # d
    /\ given' = [given EXCEPT ![a] = d]
    /\ UNCHANGED <<holder, over>>

Take(a, h) ==
    /\ given[a] # Nobody /\ holder[a] = Nobody /\ a \notin over
    /\ holder' = [holder EXCEPT ![a] = h]
    /\ UNCHANGED <<given, over>>

End(A) ==
    /\ over' = over \union A
    /\ UNCHANGED <<given, holder>>

LNext ==
    \/ \E a \in Authorizations, d \in Decisions : Give(a, d)
    \/ \E a \in Authorizations, h \in Holders : Take(a, h)
    \/ \E A \in SUBSET Authorizations : End(A)

LSpec == LInit /\ [][LNext]_lvars
=============================================================================
