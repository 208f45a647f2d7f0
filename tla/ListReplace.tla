------------------------------ MODULE ListReplace ------------------------------
(***************************************************************************)
(* What upload_users promises of a role link's user list at RoleLogic: a   *)
(* call replaces the list by the one it was given as a whole and at most   *)
(* once, and returns Ok only after it has.  A call that fails may have     *)
(* replaced it, may never do so, or may do so later, when the request the  *)
(* caller has given up on arrives after all.                               *)
(***************************************************************************)

CONSTANTS Member, \* Discord users
          Call    \* calls of upload_users for this link

VARIABLES
    list,  \* the list at RoleLogic
    want,  \* want[c]: the list call c was given
    call,  \* call[c]: "none", "open", "ok", "failed"
    taken  \* calls whose list has been taken over

vars == <<list, want, call, taken>>

Init ==
    /\ list \in SUBSET Member
    /\ want = [c \in Call |-> {}]
    /\ call = [c \in Call |-> "none"]
    /\ taken = {}

Begin(c) ==
    /\ call[c] = "none"
    /\ \E users \in SUBSET Member : want' = [want EXCEPT ![c] = users]
    /\ call' = [call EXCEPT ![c] = "open"]
    /\ UNCHANGED <<list, taken>>

TakeOver(c) ==
    /\ call[c] \in {"open", "failed"} /\ c \notin taken
    /\ list' = want[c]
    /\ taken' = taken \cup {c}
    /\ UNCHANGED <<want, call>>

Return(c) ==
    /\ call[c] = "open"
    /\ \/ c \in taken /\ call' = [call EXCEPT ![c] = "ok"]
       \/ call' = [call EXCEPT ![c] = "failed"]
    /\ UNCHANGED <<list, want, taken>>

Next == \E c \in Call : Begin(c) \/ TakeOver(c) \/ Return(c)

Spec == Init /\ [][Next]_vars
=============================================================================
