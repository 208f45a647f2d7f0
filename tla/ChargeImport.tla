------------------------------ MODULE ChargeImport ------------------------------
(***************************************************************************)
(* The charge pass of import_account (tasks/reconcile.rs) against the      *)
(* charge.succeeded webhooks and against other imports of the account: an  *)
(* import pages through every charge (aggregate_charges of                 *)
(* services/stripe.rs), sets all sums to zero and then each customer's to  *)
(* what it has added up, while webhooks add single charges to the same     *)
(* columns and Stripe makes new ones.  The reconcile task of every replica *)
(* and the account_backfill jobs import with no lock between them.         *)
(*                                                                         *)
(* A charge is its number in the order of creation; lists are newest       *)
(* first.  The stored sums are kept as what they are sums of: counted[i]   *)
(* says how often charge i is in those of its customer.                    *)
(* The lists of subscriptions and customers are paged by the same loop.    *)
(***************************************************************************)
EXTENDS Integers, FiniteSets

CONSTANTS
    Customer,  \* customers of the account, each with its row
    Importer,  \* reconcile tasks and backfill jobs that may run at once
    PageLimit, \* PAGE_LIMIT
    MaxPages,  \* MAX_PAGES
    MaxCharges, \* bound: charges made
    Paying     \* bound: who may pay them

ASSUME ImportAssumption ==
    /\ {PageLimit, MaxPages} \subseteq Nat \ {0} /\ MaxCharges \in Nat
    /\ Paying \subseteq [1..MaxCharges -> Customer]

VARIABLES
    made,    \* at Stripe: charges 1..made
    payer,   \* payer[i]: the customer of charge i
    good,    \* charges that are paid, succeeded and not refunded
    refunded,
    events,  \* charges whose charge.succeeded is still to be applied
    counted, \* lifetime_spend_cents and successful_payments
    pc,      \* pc[p]: where import p is: "idle", "list", "reset", "set"
    cursor,  \* cursor[p]: starting_after; 0 for the first page
    pages,   \* pages[p]: pages read
    listed,  \* listed[p][i]: how often the sums in the making contain i
    left,    \* left[p]: customers whose sum is still to be set
    calm,    \* history: calm[p]: charges nothing has happened to since import
             \* p started and whose event was over by then
    settled  \* history: charges that were calm for the import that wrote their
             \* customer's sum last, and to which nothing has happened since

stripe   == <<made, payer, good, refunded, events>>
import   == <<pc, cursor, pages, listed, left>>
history  == <<calm, settled>>
vars     == <<stripe, counted, import, history>>

Charge == 1..made
Num    == 1..MaxCharges
NoSums == [i \in Num |-> 0]

Init ==
    /\ made = 0 /\ payer \in Paying /\ good = {} /\ refunded = {} /\ events = {}
    /\ counted = NoSums
    /\ pc     = [p \in Importer |-> "idle"]
    /\ cursor = [p \in Importer |-> 0]
    /\ pages  = [p \in Importer |-> 0]
    /\ listed = [p \in Importer |-> NoSums]
    /\ left   = [p \in Importer |-> {}]
    /\ calm   = [p \in Importer |-> {}]
    /\ settled = {}

-----------------------------------------------------------------------------
(* Stripe.                                                                 *)

(* A charge is made, and has succeeded at once or not yet.                 *)
Make(ok) ==
    /\ made < MaxCharges
    /\ made' = made + 1
    /\ IF ok THEN good' = good \cup {made + 1} /\ events' = events \cup {made + 1}
             ELSE UNCHANGED <<good, events>>
    /\ UNCHANGED <<payer, refunded, counted, import, history>>

Touch(i) ==
    /\ calm' = [p \in Importer |-> calm[p] \ {i}]
    /\ settled' = settled \ {i}

(* A pending charge succeeds: that is when its event is sent.              *)
Succeed(i) ==
    /\ i \notin good \cup refunded
    /\ good' = good \cup {i} /\ events' = events \cup {i}
    /\ Touch(i)
    /\ UNCHANGED <<made, payer, refunded, counted, import>>

(* A refund sends no event that the webhook handles.                       *)
Refund(i) ==
    /\ i \in good /\ good' = good \ {i} /\ refunded' = refunded \cup {i}
    /\ Touch(i)
    /\ UNCHANGED <<made, payer, events, counted, import>>

LoseEvent(i) ==
    /\ i \in events /\ events' = events \ {i}
    /\ UNCHANGED <<made, payer, good, refunded, counted, import, history>>

-----------------------------------------------------------------------------
(* The webhook: apply_successful_charge.                                   *)

ApplyCharge(i) ==
    /\ i \in events /\ events' = events \ {i}
    /\ counted' = [counted EXCEPT ![i] = @ + 1]
    /\ UNCHANGED <<made, payer, good, refunded, import, history>>

-----------------------------------------------------------------------------
(* An import.                                                              *)

Start(p) ==
    /\ pc[p] = "idle" /\ pc' = [pc EXCEPT ![p] = "list"]
    /\ calm' = [calm EXCEPT ![p] = Charge \ events]
    /\ UNCHANGED <<stripe, counted, cursor, pages, listed, left, settled>>

(* What lies behind the cursor, and the first page of it.                  *)
Behind(p) == IF cursor[p] = 0 THEN Charge ELSE 1..(cursor[p] - 1)
IsPage(p, page) ==
    /\ \A i \in Behind(p) \ page, j \in page : i < j
    /\ page = Behind(p) \/ Cardinality(page) = PageLimit
    /\ Cardinality(page) <= PageLimit

(* One page of aggregate_charges: the paid charges are added up, and the   *)
(* last id of the page becomes the cursor.  After MAX_PAGES the loop ends  *)
(* whatever has_more says.                                                 *)
Page(p) ==
    /\ pc[p] = "list"
    /\ \E page \in SUBSET Behind(p) :
         /\ IsPage(p, page)
         /\ listed' = [listed EXCEPT ![p] =
                         [i \in Num |-> @[i] + IF i \in page \cap good THEN 1 ELSE 0]]
         /\ pages' = [pages EXCEPT ![p] = @ + 1]
         /\ IF page # Behind(p) /\ pages[p] + 1 < MaxPages
              THEN \E i \in page : /\ \A j \in page : i <= j
                                   /\ cursor' = [cursor EXCEPT ![p] = i]
                                   /\ UNCHANGED pc
              ELSE pc' = [pc EXCEPT ![p] = "reset"] /\ UNCHANGED cursor
    /\ UNCHANGED <<stripe, counted, left, history>>

Listed(p) == {payer[i] : i \in {j \in Num : listed[p][j] > 0}}

(* Mutant: a customer without a charge in the list keeps the old sum.      *)
ResetNothing(p) ==
    /\ pc[p] = "reset" /\ pc' = [pc EXCEPT ![p] = "set"]
    /\ left' = [left EXCEPT ![p] = Listed(p)]
    /\ settled' = {i \in calm[p] : payer[i] \notin Listed(p)}
    /\ UNCHANGED <<stripe, counted, cursor, pages, listed, calm>>

(* Every customer's sum to zero ...                                        *)
Reset(p) ==
    /\ pc[p] = "reset" /\ pc' = [pc EXCEPT ![p] = "set"]
    /\ counted' = NoSums
    /\ left' = [left EXCEPT ![p] = Listed(p)]
    /\ settled' = {i \in calm[p] : payer[i] \notin Listed(p)}
    /\ UNCHANGED <<stripe, cursor, pages, listed, calm>>

(* ... and, one after another, to what was added up.                       *)
SetSpend(p, c) ==
    /\ pc[p] = "set" /\ c \in left[p] /\ left' = [left EXCEPT ![p] = @ \ {c}]
    /\ counted' = [i \in Num |-> IF payer[i] = c THEN listed[p][i] ELSE counted[i]]
    /\ settled' = {i \in Charge : i \in IF payer[i] = c THEN calm[p] ELSE settled}
    /\ UNCHANGED <<stripe, pc, cursor, pages, listed, calm>>

End(p) ==
    /\ pc'     = [pc EXCEPT ![p] = "idle"]
    /\ cursor' = [cursor EXCEPT ![p] = 0]
    /\ pages'  = [pages EXCEPT ![p] = 0]
    /\ listed' = [listed EXCEPT ![p] = NoSums]
    /\ left'   = [left EXCEPT ![p] = {}]
    /\ calm'   = [calm EXCEPT ![p] = {}]
    /\ UNCHANGED <<stripe, counted, settled>>

Finish(p) == pc[p] = "set" /\ left[p] = {} /\ End(p)

(* A page or a statement fails, or the process dies: nothing is undone.    *)
Fail(p) == pc[p] # "idle" /\ End(p)

-----------------------------------------------------------------------------
Outside == \/ \E ok \in BOOLEAN : Make(ok)
           \/ \E i \in Charge : Succeed(i) \/ Refund(i) \/ LoseEvent(i)
Import(p) == \/ Start(p) \/ Page(p) \/ Reset(p) \/ (\E c \in Customer : SetSpend(p, c))
             \/ Finish(p) \/ Fail(p)
Next == Outside \/ (\E p \in Importer : Import(p)) \/ \E i \in Charge : ApplyCharge(i)

Spec == Init /\ [][Next]_vars

-----------------------------------------------------------------------------
(* Properties.                                                             *)

(* Types; and no charge is added up twice in one pass over the pages.      *)
TypeOK ==
    /\ made \in 0..MaxCharges /\ payer \in [Num -> Customer]
    /\ good \subseteq Charge /\ refunded \subseteq Charge \ good /\ events \subseteq Charge
    /\ counted \in [Num -> Nat] /\ listed \in [Importer -> [Num -> 0..1]]
    /\ pc \in [Importer -> {"idle", "list", "reset", "set"}]
    /\ cursor \in [Importer -> 0..made] /\ pages \in [Importer -> 0..MaxPages]
    /\ left \in [Importer -> SUBSET Customer] /\ calm \in [Importer -> SUBSET Charge]
    /\ settled \subseteq Charge

(* However the imports of an account overlap, end early or are cut off at  *)
(* MAX_PAGES: the sum of a customer contains a charge exactly once if it   *)
(* counts and not at all if it does not, when nothing has happened to the  *)
(* charge since the import began that wrote the sum last, its event was    *)
(* over by then, and it is among the newest that the pages can hold.  New  *)
(* charges that shift the pages, webhooks that add, refunds without an     *)
(* event and other imports, all in between, do not disturb it ("Reset then *)
(* set absolute values so refunds/voids converge correctly",               *)
(* tasks/reconcile.rs:123).                                                *)
SettledChargesAreExact ==
    \A i \in settled : i + PageLimit * MaxPages > made =>
        counted[i] = IF i \in good THEN 1 ELSE 0

=============================================================================
