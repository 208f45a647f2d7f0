------------------------------- MODULE RoleList -------------------------------
(***************************************************************************)
(* What the sync jobs promise of a link's list, the members who have the   *)
(* role, with no awaits, tokens, errors, queue or mirror                   *)
(* (services/sync.rs:4-7, services/auth_gateway.rs:8-11, 71-73).  A job    *)
(* may go by anything that was true at some moment since it began: by then *)
(* a member had opted out or not, and met or failed a rule that is in      *)
(* force or was earlier in the job, for a job keeps the rule it has read.  *)
(* The list never exceeds the limit of the link, and who is left out of a  *)
(* list that is replaced was not entitled, or comes after a full list.     *)
(***************************************************************************)
EXTENDS Integers, FiniteSets

CONSTANTS
    Member,  \* numbers, in the order of discord_id
    Rule,    \* what may decide who is entitled
    Worker,
    Limit    \* user_limit of the link

None == "none"

VARIABLES
    list,     \* who has the role
    link,     \* whether RoleLogic has the link
    rule,     \* the rule in force, or None
    admits,   \* members who have not opted out
    meets,    \* meets[m]: the rules the member meets
    running,  \* workers with a job under way
    rules,    \* rules[w]: what was in force at some moment of the job
    admitted, \* admitted[w]: who was in admits at some moment of the job
    passing,  \* passing[w]: who met, at some moment of the job, a rule in force
              \*   then or earlier in the job
    lapsed    \* lapsed[w]: who was not in admits at some moment of the job, or
              \*   did not meet a rule in force then or earlier in the job

worldVars == <<link, rule, admits, meets>>
jobVars   == <<running, rules, admitted, passing, lapsed>>
vars == <<list, worldVars, jobVars>>

MeetsOne(R) == {m \in Member : \E r \in R : r \in meets[m]}
MeetsAll(R) == {m \in Member : \A r \in R : r \in meets[m]}

Entitled == admits \cap MeetsAll({rule})

Init ==
    /\ link = TRUE /\ rule \in Rule \cup {None}
    /\ admits \in SUBSET Member /\ meets \in [Member -> SUBSET Rule]
    /\ list \in SUBSET Entitled /\ Cardinality(list) <= Limit
    /\ running = {}
    /\ rules    = [w \in Worker |-> {}]
    /\ admitted = [w \in Worker |-> {}]
    /\ passing  = [w \in Worker |-> {}]
    /\ lapsed   = [w \in Worker |-> {}]

-----------------------------------------------------------------------------
(* The world, as the jobs under way may come to see it.                    *)

Seen ==
    LET With(h, w, S) == IF w \in running THEN h[w] \cup S ELSE {} IN
    /\ rules'    = [w \in Worker |-> With(rules, w, {rule'})]
    /\ admitted' = [w \in Worker |-> With(admitted, w, admits')]
    /\ passing'  = [w \in Worker |-> With(passing, w, MeetsOne(rules[w])')]
    /\ lapsed'   = [w \in Worker |-> With(lapsed, w, Member \ (MeetsAll(rules[w])' \cap admits'))]
    /\ UNCHANGED running

Turn ==
    /\ rule' \in Rule \cup {None} /\ admits' \in SUBSET Member
    /\ meets' \in [Member -> SUBSET Rule]
    /\ link' \in {link, TRUE}
    /\ Seen
    /\ UNCHANGED list

(* The owner deletes the link; its row goes with it or stays.              *)
Delete ==
    /\ link /\ link' = FALSE
    /\ list' = {}
    /\ rule' \in {rule, None}
    /\ Seen
    /\ UNCHANGED <<admits, meets>>

-----------------------------------------------------------------------------
(* The jobs.                                                               *)

Window(w, r, a, p, l) ==
    /\ rules'    = [rules EXCEPT ![w] = r]
    /\ admitted' = [admitted EXCEPT ![w] = a]
    /\ passing'  = [passing EXCEPT ![w] = p]
    /\ lapsed'   = [lapsed EXCEPT ![w] = l]

Begin(w) ==
    /\ w \notin running
    /\ running' = running \cup {w}
    /\ Window(w, {rule}, admits, MeetsOne({rule}), Member \ Entitled)
    /\ UNCHANGED <<list, worldVars>>

Ends(w) == running' = running \ {w} /\ Window(w, {}, {}, {}, {})

(* A job that is told that its link is gone deletes the row.               *)
End(w) ==
    /\ w \in running
    /\ Ends(w)
    /\ rule' \in {rule, None}
    /\ UNCHANGED <<list, link, admits, meets>>

(* A call changes the list of a link that is there; it may be the last     *)
(* thing the job does.                                                     *)
Call(w) ==
    /\ w \in running /\ link
    /\ Ends(w) \/ UNCHANGED jobVars
    /\ UNCHANGED worldVars

Grant(w) ==
    /\ Call(w)
    /\ \E m \in admitted[w] \cap passing[w] : list' = list \cup {m}
    /\ Cardinality(list') <= Limit

Revoke(w) ==
    /\ Call(w)
    /\ \E m \in lapsed[w] : list' = list \ {m}

(* The members of S leave no room for m.                                   *)
Crowded(m, S) == Cardinality(S) = Limit /\ \A n \in S : n < m

Replace(w) ==
    /\ Call(w)
    /\ list' \in SUBSET (admitted[w] \cap passing[w])
    /\ Cardinality(list') <= Limit
    /\ \A m \in Member \ list' : m \in lapsed[w] \/ Crowded(m, list')

-----------------------------------------------------------------------------
Next ==
    \/ Turn \/ Delete
    \/ \E w \in Worker : Begin(w) \/ End(w) \/ Grant(w) \/ Revoke(w) \/ Replace(w)

Spec == Init /\ [][Next]_vars
=============================================================================
