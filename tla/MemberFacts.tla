------------------------------ MODULE MemberFacts ------------------------------
(***************************************************************************)
(* The facts of one member of one account: recompute_member_facts          *)
(* (services/sync.rs) reads the member's customer and subscription rows,   *)
(* in whatever order PostgreSQL has them, since neither SELECT has an      *)
(* ORDER BY and every upsert moves the row it writes, and folds them into  *)
(* the one row of stripe_member_facts that rules are evaluated on.         *)
(*                                                                         *)
(* What several processes at once do to the rows in between is modelled in *)
(* StripeIngest; here a recompute is one step, and the rows have data.     *)
(* Left out: country and email_domain, which go the way of email, prices,  *)
(* which go the way of products, and the dates but for the start of        *)
(* subscriptions.                                                          *)
(***************************************************************************)
EXTENDS Integers, Sequences, FiniteSets, FiniteSetsExt

CONSTANTS
    CustomerId,
    SubId,
    CustomerRow,  \* the rows of stripe_customers that occur
    Subscription, \* the subscriptions that Stripe sends
    None,         \* NULL
    Ratio         \* a multiple of every interval count: what a subscription
                  \* costs in a year is stated in fractions of a cent

Status == {"active", "trialing", "past_due", "unpaid", "paused", "incomplete",
           "canceled", "incomplete_expired"}

ASSUME MemberFactsAssumption ==
    /\ IsFiniteSet(CustomerId) /\ IsFiniteSet(SubId)
    /\ None \notin Status /\ None \notin Nat
    /\ \A r \in CustomerRow : r.spend \in Nat /\ r.delinquent \in BOOLEAN
    /\ \A o \in Subscription :
         /\ o.status \in Status /\ o.cancels \in BOOLEAN /\ o.start \in Nat
         /\ DOMAIN o.items = 1..Len(o.items) /\ Len(o.items) \in Nat
         /\ \A i \in DOMAIN o.items :
              o.items[i].amount \in Nat /\ o.items[i].every \in Nat /\ o.items[i].quantity \in Nat

VARIABLES
    customers, \* the member's rows of stripe_customers, by id
    subs,      \* the member's rows of stripe_subscriptions, by id
    facts,     \* the member's row of stripe_member_facts
    fresh      \* history: the facts were made from these rows

vars == <<customers, subs, facts, fresh>>

-----------------------------------------------------------------------------
(* From a Stripe subscription to its row (RawSubscription::into_fields):   *)
(* the price and the quantity are those of the first item.                 *)

NoItem == [product |-> None, amount |-> 0, currency |-> None, interval |-> None,
           every |-> 1, quantity |-> 1]

SubRow(o) ==
    LET item == IF o.items = <<>> THEN NoItem ELSE Head(o.items) IN
    [status |-> o.status, cancels |-> o.cancels, start |-> o.start,
     product |-> item.product, amount |-> item.amount, currency |-> item.currency,
     interval |-> item.interval, every |-> item.every, quantity |-> item.quantity]

-----------------------------------------------------------------------------
(* Folding rows.  A list of rows, or of a column of them, is a function on *)
(* their places.                                                           *)

AtLeast1(n) == IF n < 1 THEN 1 ELSE n

ASSUME RatioAssumption ==
    /\ Ratio \in Nat \ {0}
    /\ \A o \in Subscription : \A i \in DOMAIN o.items : Ratio % AtLeast1(o.items[i].every) = 0

(* find_map: the first value that is given.                                *)
FirstGiven(v) ==
    IF \A i \in DOMAIN v : v[i] = None THEN None
    ELSE v[Min({i \in DOMAIN v : v[i] # None})]

(* max_by_key: of several the last.                                        *)
LastMax(key) ==
    CHOOSE i \in DOMAIN key : \A j \in DOMAIN key : key[j] < key[i] \/ (key[j] = key[i] /\ j <= i)

Total(v) == MapThenSumSet(LAMBDA i : v[i], DOMAIN v)

IsActive(s) == s \in {"active", "trialing"}

(* status_rank.                                                            *)
Rank(s) ==
    CASE s = "active"     -> 7
      [] s = "trialing"   -> 6
      [] s = "past_due"   -> 5
      [] s = "unpaid"     -> 4
      [] s = "paused"     -> 3
      [] s = "incomplete" -> 2
      [] s = "canceled"   -> 1
      [] OTHER            -> 0

(* Mutant: a debt outranks a trial.                                        *)
StatusByDebt(ss) ==
    IF DOMAIN ss = {} THEN None
    ELSE ss[LastMax([i \in DOMAIN ss |-> IF ss[i].status = "trialing" THEN 4 ELSE Rank(ss[i].status)])].status

(* The most favourable status is the member's subscription_status.         *)
StatusOf(ss) ==
    IF DOMAIN ss = {} THEN None
    ELSE ss[LastMax([i \in DOMAIN ss |-> Rank(ss[i].status)])].status

(* unit_amount x quantity.                                                 *)
Charge(r) == r.amount * AtLeast1(r.quantity)

(* Mutant: a subscription's interval counts as one.                        *)
MonthlyOnce(r) ==
    CASE r.interval = "year" -> (Charge(r) + 6) \div 12
      [] r.interval = "week" -> (2 * Charge(r) * 52 + 12) \div 24
      [] r.interval = "day"  -> Charge(r) * 30
      [] OTHER               -> Charge(r)

(* monthly_value, of the charge: half a cent is rounded up.                *)
Monthly(r) ==
    LET n == AtLeast1(r.every)
        Rounded(num, den) == (2 * Charge(r) * num + den) \div (2 * den) IN
    CASE r.interval = "year" -> Rounded(1, 12 * n)
      [] r.interval = "week" -> Rounded(52, 12 * n)
      [] r.interval = "day"  -> Rounded(30, n)
      [] OTHER               -> Rounded(1, n)

Actives(ss) == {i \in DOMAIN ss : IsActive(ss[i].status)}

(* Mutant: the charge of the active subscription that comes first.         *)
PrimaryFirst(ss) == ss[Min(Actives(ss))]

(* The active subscription with the highest charge.                        *)
Primary(ss) == ss[LastMax([i \in Actives(ss) |-> Charge(ss[i])])]

NoFacts ==
    [row |-> FALSE, email |-> None, currency |-> None, delinquent |-> FALSE, spend |-> 0,
     active |-> FALSE, count |-> 0, status |-> None, trialing |-> FALSE, pastDue |-> FALSE,
     cancels |-> FALSE, plan |-> 0, interval |-> None, started |-> None, mrr |-> 0,
     products |-> {}]

Aggregate(cs, ss) ==
    LET act == Actives(ss)
        currency == FirstGiven([i \in DOMAIN cs |-> cs[i].currency]) IN
    [row        |-> TRUE,
     email      |-> FirstGiven([i \in DOMAIN cs |-> cs[i].email]),
     currency   |-> IF currency # None THEN currency
                    ELSE FirstGiven([i \in act |-> ss[i].currency]),
     delinquent |-> \E i \in DOMAIN cs : cs[i].delinquent,
     spend      |-> Total([i \in DOMAIN cs |-> cs[i].spend]),
     active     |-> act # {},
     count      |-> Cardinality(act),
     status     |-> StatusOf(ss),
     trialing   |-> \E i \in DOMAIN ss : ss[i].status = "trialing",
     pastDue    |-> \E i \in DOMAIN ss : ss[i].status = "past_due",
     cancels    |-> \E i \in act : ss[i].cancels,
     plan       |-> IF act = {} THEN 0 ELSE Charge(Primary(ss)),
     interval   |-> IF act = {} THEN None ELSE Primary(ss).interval,
     started    |-> IF act = {} THEN None ELSE Min({ss[i].start : i \in act}),
     mrr        |-> Total([i \in act |-> Monthly(ss[i])]),
     products   |-> {ss[i].product : i \in act} \ {None}]

-----------------------------------------------------------------------------
Init ==
    /\ customers = <<>> /\ subs = <<>>
    /\ facts = NoFacts /\ fresh = TRUE

With(t, id, row) == [x \in DOMAIN t \cup {id} |-> IF x = id THEN row ELSE t[x]]
Without(t, id)   == [x \in DOMAIN t \ {id} |-> t[x]]

(* upsert_customer, set_customer_spend or a charge.                        *)
WriteCustomer(id, row) ==
    /\ customers' = With(customers, id, row)
    /\ fresh' = FALSE /\ UNCHANGED <<subs, facts>>

(* customer.deleted, or the customer is linked to another member.          *)
LoseCustomer(id) ==
    /\ customers' = Without(customers, id)
    /\ fresh' = FALSE /\ UNCHANGED <<subs, facts>>

(* upsert_subscription.                                                    *)
WriteSub(id, o) ==
    /\ subs' = With(subs, id, SubRow(o))
    /\ fresh' = FALSE /\ UNCHANGED <<customers, facts>>

(* The subscription is linked to another member.                           *)
LoseSub(id) ==
    /\ subs' = Without(subs, id)
    /\ fresh' = FALSE /\ UNCHANGED <<customers, facts>>

(* What a SELECT of the rows may return.                                   *)
Listings(t) ==
    LET n == Cardinality(DOMAIN t)
        Orders == {p \in [1..n -> DOMAIN t] : \A i, j \in 1..n : p[i] = p[j] => i = j} IN
    {[i \in 1..n |-> t[p[i]]] : p \in Orders}

(* Mutant: a row is kept for a member that has none left.                  *)
RecomputeAlways ==
    /\ \E cs \in Listings(customers), ss \in Listings(subs) : facts' = Aggregate(cs, ss)
    /\ fresh' = TRUE /\ UNCHANGED <<customers, subs>>

Recompute ==
    /\ \E cs \in Listings(customers), ss \in Listings(subs) :
         facts' = IF cs = <<>> /\ ss = <<>> THEN NoFacts ELSE Aggregate(cs, ss)
    /\ fresh' = TRUE /\ UNCHANGED <<customers, subs>>

Next ==
    \/ \E id \in CustomerId, row \in CustomerRow : WriteCustomer(id, row)
    \/ \E id \in SubId, o \in Subscription : WriteSub(id, o)
    \/ \E id \in DOMAIN customers : LoseCustomer(id)
    \/ \E id \in DOMAIN subs : LoseSub(id)
    \/ Recompute

Spec == Init /\ [][Next]_vars

-----------------------------------------------------------------------------
(* Properties.                                                             *)

(* Type invariant: rows are those of Stripe's objects, a facts row has the *)
(* columns of the table, and it is there if and only if the member had a   *)
(* row when it was made ("as soon as they have any customer/subscription   *)
(* row", migrations/005_member_facts.sql).                                 *)
TypeOK ==
    /\ DOMAIN customers \subseteq CustomerId /\ \A c \in DOMAIN customers : customers[c] \in CustomerRow
    /\ DOMAIN subs \subseteq SubId
    /\ \A s \in DOMAIN subs : subs[s] \in {SubRow(o) : o \in Subscription}
    /\ DOMAIN facts = DOMAIN NoFacts
    /\ facts.row \in BOOLEAN /\ fresh \in BOOLEAN
    /\ ~facts.row => facts = NoFacts
    /\ fresh => (facts.row <=> DOMAIN customers # {} \/ DOMAIN subs # {})

(* What rules can test says one thing: the headline status is an active    *)
(* one exactly if the member has an active subscription, and so are the    *)
(* count, the flags, the plan, its interval, the products and the start    *)
(* (status_rank against is_active_status in services/sync.rs).             *)
TestsAgree ==
    /\ facts.active <=> facts.status # None /\ IsActive(facts.status)
    /\ facts.active <=> facts.count > 0
    /\ facts.trialing => facts.active
    /\ facts.status = "trialing" => facts.trialing
    /\ facts.status = "past_due" => facts.pastDue /\ ~facts.active
    /\ facts.pastDue /\ ~facts.active => facts.status = "past_due"
    /\ facts.cancels \/ facts.plan > 0 \/ facts.interval # None \/ facts.products # {} => facts.active
    /\ facts.active <=> facts.started # None

(* The monthly recurring revenue is, to half a cent for each subscription, *)
(* a twelfth of what the active subscriptions cost in a year of 12 months, *)
(* 52 weeks or 360 days (monthly_value).                                   *)
PeriodsAYear(interval) ==
    CASE interval = "year" -> 1 [] interval = "week" -> 52 [] interval = "day" -> 360 [] OTHER -> 12
Yearly(r) == Charge(r) * PeriodsAYear(r.interval) * (Ratio \div AtLeast1(r.every))
MrrIsAYearsTwelfth ==
    LET mine == {s \in DOMAIN subs : IsActive(subs[s].status)}
        off  == 12 * Ratio * facts.mrr - Total([s \in mine |-> Yearly(subs[s])]) IN
    fresh => off \in -(6 * Ratio * Cardinality(mine)) .. 6 * Ratio * Cardinality(mine)

(* The order of the rows decides nothing but between equals: a recompute   *)
(* of the same rows can change the email of a member whose customers have  *)
(* several, the currency of one whose customers, or whose active           *)
(* subscriptions, have several, and the billing interval only if two       *)
(* active subscriptions tie for the highest charge (find_map and           *)
(* max_by_key over rows in no order).                                      *)
Mine == {subs[s] : s \in {x \in DOMAIN subs : IsActive(subs[x].status)}}
Theirs == {customers[c] : c \in DOMAIN customers}
OrderDecidesTiesOnly ==
    [][fresh /\ fresh' =>
         /\ \A f \in DOMAIN facts \ {"email", "currency", "interval"} : facts'[f] = facts[f]
         /\ facts'.email # facts.email => \E a, b \in Theirs : None # a.email /\ a.email # b.email /\ b.email # None
         /\ facts'.currency # facts.currency =>
              \E R \in {Mine, Theirs} : \E a, b \in R :
                 None # a.currency /\ a.currency # b.currency /\ b.currency # None
         /\ facts'.interval # facts.interval =>
              \E a, b \in Mine : a.interval # b.interval /\ Charge(a) = facts.plan /\ Charge(b) = facts.plan
      ]_vars

=============================================================================
