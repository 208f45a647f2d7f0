----------------------------- MODULE StripeIngest -----------------------------
(***************************************************************************)
(* From Stripe to the member facts: the webhook ingestor                   *)
(* (routes/webhooks.rs), the account import that backfill and reconcile    *)
(* share (tasks/reconcile.rs), the mirror rows they write                  *)
(* (services/ingest.rs) and the facts rebuilt from them                    *)
(* (recompute_member_facts in services/sync.rs).                           *)
(*                                                                         *)
(* One connected account with one customer and one subscription.  Every    *)
(* request handler and every import runs a plan, a sequence of SQL         *)
(* statements and Stripe calls; a statement is one atomic step, and        *)
(* between two of them any other process may run, fail or die.  Nothing    *)
(* is transactional and nothing is locked.                                 *)
(***************************************************************************)
EXTENDS Integers, Sequences, FiniteSets

CONSTANTS
    Did,        \* Discord ids
    NoOne,      \* discord_id IS NULL, or no usable id in the metadata
    Handler,    \* concurrent webhook requests
    Importer,   \* concurrent imports (backfill jobs, reconcile of a replica)
    ClientRef,  \* client_reference_id of the checkout session
    Case        \* cases, of which a behaviour is one: what Stripe has when the
                \* account is connected, who imports, and the bounds

Process == Handler \cup Importer
Owner   == Did \cup {NoOne}

ASSUME StripeIngestAssumption ==
    /\ NoOne \notin Did
    /\ Handler \cap Importer = {}
    /\ ClientRef \in Owner
    /\ Case \subseteq [sub : {"none", "active"}, smeta : Owner, cmeta : Owner,
                      importers : SUBSET Importer, changes : Nat, stray : Nat, faults : Nat]

VARIABLES
    stripe,  \* what Stripe has: the subscription's status and metadata, the
             \* customer's metadata, whether there is one, and its charges
    log,     \* the events Stripe has made; an event's id is its place here
    open,    \* the events Stripe still wants to deliver
    seen,    \* webhook_deliveries
    sub,     \* the row of stripe_subscriptions; status "none": no row
    cust,    \* the row of stripe_customers, if here
    facts,   \* the rows of stripe_member_facts
    plan,    \* plan[p]: the statements process p has yet to run
    ev,      \* ev[h]: the event the request is about; 0: none
    obj,     \* obj[p]: the Stripe objects the process has in hand
    did,     \* did[p]: the Discord id the last upsert resolved
    view,    \* view[p]: the facts being aggregated
    touched, \* touched[p]: the members the import will rebuild
    importers, \* the imports that run
    changes, \* how many are left: subscriptions made and cancelled, charges,
             \* edits of the Discord id in the metadata, deletions of the customer
    stray,   \* events that Stripe gives up on, deliveries of an event acked or
             \* still being handled
    faults,  \* statements that fail without effect, processes that die or whose
             \* reopening fails
    acked,   \* history: events answered with 200
    applied, \* history: events that apply_event returned Ok for
    counted, \* history: charges added to the customer row
    twice,   \* history: charges added to it again
    edited,  \* history: whether a Discord id in the metadata was changed or the
             \* customer deleted
    undone,  \* history: charges whose request failed or died after adding them
    dropped, \* history: events whose request died, or that were answered as
             \* duplicates while another request was at them
    untold   \* history: members whose facts changed after the last sync job
             \* was enqueued for them

stripeVars  == <<stripe, log, open, edited>>
mirrorVars  == <<sub, cust>>
boundVars   == <<importers, changes, stray, faults>>
localVars   == <<ev, obj, did, view, touched>>
historyVars == <<acked, applied, counted, twice, undone, dropped>>
vars == <<stripeVars, seen, mirrorVars, facts, untold, plan, localVars, boundVars, historyVars>>

Kinds == {"sub", "checkout", "invoice", "customer", "deleted", "charge"}
NoFacts == [row |-> FALSE, active |-> FALSE, paid |-> 0]
Nothing == [sub |-> "none", smeta |-> NoOne, cmeta |-> NoOne, here |-> FALSE, charges |-> 0]

(* The statements of each kind of work, in order.                          *)
UpsertSub  == <<"resolve sub", "upsert sub", "spread sub">>
UpsertCust == <<"resolve cust", "upsert cust", "spread cust">>
Rebuild    == <<"customers", "subs", "write">>

(* apply_event, and then recompute and enqueue_player_sync.                *)
Apply(kind) ==
    CASE kind = "sub"      -> UpsertSub
      [] kind \in {"checkout", "invoice"} -> <<"fetch">> \o UpsertCust \o UpsertSub
      [] kind = "customer" -> UpsertCust
      [] kind = "deleted"  -> <<"owner", "erase">>
      [] kind = "charge"   -> <<"count", "owner">>
Plan(kind) == Apply(kind) \o <<"result">> \o Rebuild \o <<"enqueue">>

(* What happens before apply_event has returned; the rest cannot undo it.  *)
Applying == {"fetch", "resolve sub", "upsert sub", "spread sub",
             "resolve cust", "upsert cust", "spread cust", "owner", "erase", "count"}

Init ==
    /\ \E c \in Case :
         /\ stripe = [sub |-> c.sub, smeta |-> c.smeta, cmeta |-> c.cmeta,
                      here |-> TRUE, charges |-> 0]
         /\ importers = c.importers
         /\ changes = c.changes /\ stray = c.stray /\ faults = c.faults
    /\ log = <<>> /\ open = {} /\ seen = {}
    /\ sub = [status |-> "none", did |-> NoOne]
    /\ cust = [here |-> FALSE, did |-> NoOne, paid |-> 0]
    /\ facts = [d \in Did |-> NoFacts]
    /\ plan = [p \in Process |-> <<>>]
    /\ ev = [p \in Process |-> 0]
    /\ obj = [p \in Process |-> Nothing]
    /\ did = [p \in Process |-> NoOne]
    /\ view = [p \in Process |-> NoFacts]
    /\ touched = [p \in Process |-> {}]
    /\ edited = FALSE
    /\ acked = {} /\ applied = {} /\ counted = {} /\ twice = {} /\ undone = {}
    /\ dropped = {} /\ untold = {}

Change == changes > 0 /\ changes' = changes - 1 /\ UNCHANGED <<importers, stray, faults>>
Stray  == stray > 0 /\ stray' = stray - 1 /\ UNCHANGED <<importers, changes, faults>>
Fault  == faults > 0 /\ faults' = faults - 1 /\ UNCHANGED <<importers, changes, stray>>

-----------------------------------------------------------------------------
(* Stripe, as the webhooks and the API show it.                            *)

(* An event carries its objects as they are when it is made, but a         *)
(* checkout or invoice event only names a subscription.                    *)
Emit(kind) ==
    /\ log' = Append(log, [kind |-> kind, data |-> stripe'])
    /\ open' = open \cup {Len(log) + 1}

Unseen == UNCHANGED <<seen, mirrorVars, facts, untold, plan, localVars, historyVars>>

Subscribe ==
    /\ Change
    /\ stripe.here /\ stripe.sub = "none"
    /\ stripe' = [stripe EXCEPT !.sub = "active"]
    /\ Emit("sub") \/ Emit("checkout")
    /\ UNCHANGED edited /\ Unseen

Cancel ==
    /\ Change
    /\ stripe.sub = "active"
    /\ stripe' = [stripe EXCEPT !.sub = "canceled"]
    /\ Emit("sub") \/ Emit("invoice")
    /\ UNCHANGED edited /\ Unseen

Pay ==
    /\ Change
    /\ stripe.here
    /\ stripe' = [stripe EXCEPT !.charges = @ + 1]
    /\ Emit("charge")
    /\ UNCHANGED edited /\ Unseen

(* The Discord id in the metadata is corrected.                            *)
Relink ==
    /\ Change
    /\ \E d \in Did :
        \/ /\ stripe.sub # "none" /\ d # stripe.smeta
           /\ stripe' = [stripe EXCEPT !.smeta = d] /\ Emit("sub")
        \/ /\ stripe.here /\ d # stripe.cmeta
           /\ stripe' = [stripe EXCEPT !.cmeta = d] /\ Emit("customer")
    /\ edited' = TRUE /\ Unseen

(* The customer of a subscription that is over; the event has no metadata. *)
DeleteCustomer ==
    /\ Change
    /\ stripe.here /\ stripe.sub # "active"
    /\ stripe' = [stripe EXCEPT !.here = FALSE, !.cmeta = NoOne]
    /\ Emit("deleted")
    /\ edited' = TRUE /\ Unseen

(* A subscriber: Stripe cancels the subscription too, and makes an event   *)
(* of either.  Two events count as a change and as a stray one.            *)
DeleteSubscriber ==
    /\ changes > 0 /\ changes' = changes - 1
    /\ stray > 0 /\ stray' = stray - 1
    /\ UNCHANGED <<importers, faults>>
    /\ stripe.here /\ stripe.sub = "active"
    /\ stripe' = [stripe EXCEPT !.here = FALSE, !.cmeta = NoOne, !.sub = "canceled"]
    /\ log' = log \o <<[kind |-> "sub", data |-> stripe'], [kind |-> "deleted", data |-> stripe']>>
    /\ open' = open \cup {Len(log) + 1, Len(log) + 2}
    /\ edited' = TRUE /\ Unseen

(* Stripe stops retrying an event, or no webhook was ever set up.          *)
Lose(e) ==
    /\ Stray
    /\ open' = open \ {e}
    /\ UNCHANGED <<stripe, log, edited>> /\ Unseen

-----------------------------------------------------------------------------
(* Webhook requests.                                                       *)

At(p, s) == plan[p] # <<>> /\ Head(plan[p]) = s
Idle(p)  == plan[p] = <<>>
Handling(e) == {h \in Handler : ev[h] = e}

Forget(p) ==
    /\ plan' = [plan EXCEPT ![p] = <<>>]
    /\ ev' = [ev EXCEPT ![p] = 0]
    /\ obj' = [obj EXCEPT ![p] = Nothing]
    /\ did' = [did EXCEPT ![p] = NoOne]
    /\ view' = [view EXCEPT ![p] = NoFacts]
    /\ touched' = [touched EXCEPT ![p] = {}]

Ack(e) == acked' = acked \cup {e} /\ open' = open \ {e}

(* A request: the INSERT into webhook_deliveries decides.  Stripe delivers *)
(* an event until it is acked, one request at a time, and now and then     *)
(* once more, within the day that the delivery row is kept.                *)
Again(e) ==
    \/ e \in open /\ Handling(e) = {} /\ UNCHANGED boundVars
    \/ e \in open \cup seen /\ ~(e \in open /\ Handling(e) = {}) /\ Stray

(* Mutant: the INSERT's row count is not looked at.                        *)
AcceptAgain(h, e) ==
    /\ Idle(h) /\ e \in 1..Len(log) /\ Again(e)
    /\ seen' = seen \cup {e}
    /\ plan' = [plan EXCEPT ![h] = Plan(log[e].kind)]
    /\ ev' = [ev EXCEPT ![h] = e]
    /\ obj' = [obj EXCEPT ![h] = log[e].data]
    /\ UNCHANGED <<stripeVars, mirrorVars, facts, untold, did, view, touched, historyVars>>

Accept(h, e) ==
    /\ Idle(h) /\ e \in 1..Len(log) /\ Again(e)
    /\ e \notin seen
    /\ seen' = seen \cup {e}
    /\ plan' = [plan EXCEPT ![h] = Plan(log[e].kind)]
    /\ ev' = [ev EXCEPT ![h] = e]
    /\ obj' = [obj EXCEPT ![h] = log[e].data]
    /\ UNCHANGED <<stripeVars, mirrorVars, facts, untold, did, view, touched, historyVars>>

(* A request that finds the row is answered by that one statement, also    *)
(* while another request is at work on the event.                          *)
Duplicate(e) ==
    /\ e \in seen /\ Again(e)
    /\ Ack(e)
    /\ dropped' = IF Handling(e) # {} THEN dropped \cup {e} ELSE dropped
    /\ UNCHANGED <<stripe, log, edited, seen, mirrorVars, facts, untold, plan, localVars,
                   applied, counted, twice, undone>>

(* gc: rows a day old.  Stripe has no more copies of an event that it got  *)
(* an answer to, but may go on retrying one that it did not.               *)
Collect(e) ==
    /\ e \in seen /\ Handling(e) = {}
    /\ seen' = seen \ {e}
    /\ UNCHANGED <<stripeVars, mirrorVars, facts, untold, plan, localVars, boundVars, historyVars>>

-----------------------------------------------------------------------------
(* Statements.  Each is the head of its process's plan.                    *)

Next1(p) == plan' = [plan EXCEPT ![p] = Tail(@)]

(* An expression over the rows for the id that the objects do not have.    *)
Or(d, e) == IF d # NoOne THEN d ELSE e

Quietly == UNCHANGED <<stripeVars, seen, facts, untold, boundVars, historyVars, ev>>

(* retrieve_subscription, with its customer.                               *)
Fetch(p) ==
    /\ At(p, "fetch")
    /\ obj' = [obj EXCEPT ![p] = [stripe EXCEPT !.charges = 0]]
    /\ Next1(p)
    /\ UNCHANGED <<mirrorVars, did, view, touched>> /\ Quietly

(* upsert_customer: the metadata, or else the id of a subscription row.    *)
ResolveCust(p) ==
    /\ At(p, "resolve cust")
    /\ did' = [did EXCEPT ![p] = IF obj[p].here THEN Or(obj[p].cmeta, sub.did) ELSE NoOne]
    /\ Next1(p)
    /\ UNCHANGED <<mirrorVars, obj, view, touched>> /\ Quietly

UpsertCustRow(p) ==
    /\ At(p, "upsert cust")
    /\ cust' = IF obj[p].here
               THEN [cust EXCEPT !.here = TRUE, !.did = Or(did[p], @)]
               ELSE [here |-> FALSE, did |-> NoOne, paid |-> 0]
    /\ Next1(p)
    /\ UNCHANGED <<sub, obj, did, view, touched>> /\ Quietly

(* UPDATE ... WHERE discord_id IS NULL.                                    *)
SpreadCust(p) ==
    /\ At(p, "spread cust")
    /\ sub' = IF sub.status # "none" THEN [sub EXCEPT !.did = Or(@, did[p])] ELSE sub
    /\ Next1(p)
    /\ UNCHANGED <<cust, obj, did, view, touched>> /\ Quietly

(* upsert_subscription: its metadata, the customer's id, the checkout's    *)
(* client_reference_id, the customer row.                                  *)
ResolveSub(p) ==
    LET ref == IF ev[p] # 0 /\ log[ev[p]].kind = "checkout" THEN ClientRef ELSE NoOne IN
    /\ At(p, "resolve sub")
    /\ did' = [did EXCEPT ![p] = Or(obj[p].smeta, Or(@, Or(ref, cust.did)))]
    /\ Next1(p)
    /\ UNCHANGED <<mirrorVars, obj, view, touched>> /\ Quietly

UpsertSubRow(p) ==
    /\ At(p, "upsert sub")
    /\ sub' = [status |-> obj[p].sub, did |-> Or(did[p], sub.did)]
    /\ obj' = [obj EXCEPT ![p] = Nothing]
    /\ Next1(p)
    /\ UNCHANGED <<cust, did, view, touched>> /\ Quietly

SpreadSub(p) ==
    /\ At(p, "spread sub")
    /\ cust' = IF cust.here THEN [cust EXCEPT !.did = Or(@, did[p])] ELSE cust
    /\ Next1(p)
    /\ UNCHANGED <<sub, obj, did, view, touched>> /\ Quietly

(* The member of a charge, or of a customer about to be deleted.           *)
FindOwner(p) ==
    /\ At(p, "owner")
    /\ did' = [did EXCEPT ![p] = cust.did]
    /\ Next1(p)
    /\ UNCHANGED <<mirrorVars, obj, view, touched>> /\ Quietly

Erase(p) ==
    /\ At(p, "erase")
    /\ cust' = [here |-> FALSE, did |-> NoOne, paid |-> 0]
    /\ Next1(p)
    /\ UNCHANGED <<sub, obj, did, view, touched>> /\ Quietly

(* apply_successful_charge.                                                *)
Count(p) ==
    /\ At(p, "count")
    /\ cust' = [cust EXCEPT !.here = TRUE, !.paid = @ + 1]
    /\ counted' = counted \cup {ev[p]}
    /\ twice' = IF ev[p] \in counted THEN twice \cup {ev[p]} ELSE twice
    /\ Next1(p)
    /\ UNCHANGED <<stripeVars, seen, sub, facts, untold, localVars, boundVars,
                   acked, applied, undone, dropped>>

(* Mutant: the member is taken for granted.                                *)
ResultUnresolved(p) ==
    /\ At(p, "result")
    /\ applied' = applied \cup {ev[p]}
    /\ Next1(p)
    /\ UNCHANGED <<stripeVars, seen, mirrorVars, facts, untold, localVars, boundVars,
                   acked, counted, twice, undone, dropped>>

(* apply_event is done; without a member there is nothing to rebuild.      *)
Result(p) ==
    /\ At(p, "result")
    /\ applied' = applied \cup {ev[p]}
    /\ IF did[p] = NoOne
       THEN Ack(ev[p]) /\ Forget(p)
       ELSE /\ obj' = [obj EXCEPT ![p] = Nothing] /\ Next1(p)
            /\ UNCHANGED <<open, acked, ev, did, view, touched>>
    /\ UNCHANGED <<stripe, log, edited, seen, mirrorVars, facts, untold, boundVars,
                   counted, twice, undone, dropped>>

(* recompute_member_facts: two reads and a write.                          *)
ReadCustomers(p) ==
    /\ At(p, "customers")
    /\ view' = [view EXCEPT ![p] =
                  IF cust.here /\ cust.did = did[p]
                  THEN [row |-> TRUE, active |-> FALSE, paid |-> cust.paid] ELSE NoFacts]
    /\ Next1(p)
    /\ UNCHANGED <<mirrorVars, obj, did, touched>> /\ Quietly

ReadSubs(p) ==
    /\ At(p, "subs")
    /\ view' = [view EXCEPT ![p] =
                  IF sub.status # "none" /\ sub.did = did[p]
                  THEN [@ EXCEPT !.row = TRUE, !.active = sub.status = "active"] ELSE @]
    /\ Next1(p)
    /\ UNCHANGED <<mirrorVars, obj, did, touched>> /\ Quietly

WriteFacts(p) ==
    /\ At(p, "write")
    /\ facts' = [facts EXCEPT ![did[p]] = view[p]]
    /\ untold' = IF facts' = facts THEN untold ELSE untold \cup {did[p]}
    /\ view' = [view EXCEPT ![p] = NoFacts]
    /\ Next1(p)
    /\ UNCHANGED <<stripeVars, seen, mirrorVars, ev, obj, did, touched, boundVars, historyVars>>

(* enqueue_player_sync, whose failure is ignored, and the answer.          *)
Enqueue(p) ==
    /\ At(p, "enqueue")
    /\ \/ untold' = untold \ {did[p]} /\ UNCHANGED boundVars
       \/ Fault /\ UNCHANGED untold
    /\ Ack(ev[p]) /\ Forget(p)
    /\ UNCHANGED <<stripe, log, edited, seen, mirrorVars, facts, applied, counted, twice, undone, dropped>>

(* Mutant: the row of the failed event stays.                              *)
ReopenNothing(p) ==
    /\ At(p, "reopen")
    /\ Forget(p)
    /\ UNCHANGED <<stripeVars, seen, mirrorVars, facts, untold, boundVars, historyVars>>

(* apply_event failed: the row goes, and Stripe will deliver again.        *)
Reopen(p) ==
    /\ At(p, "reopen")
    /\ seen' = seen \ {ev[p]}
    /\ Forget(p)
    /\ UNCHANGED <<stripeVars, mirrorVars, facts, untold, boundVars, historyVars>>

-----------------------------------------------------------------------------
(* import_account, one list and one statement at a time.                   *)

Goto(p, statements) == plan' = [plan EXCEPT ![p] = statements]

StartImport(p) ==
    /\ p \in Importer /\ p \in importers /\ Idle(p)
    /\ Goto(p, <<"list">>)
    /\ UNCHANGED <<mirrorVars, obj, did, view, touched>> /\ Quietly

(* Subscriptions of every status, with their customers.                    *)
ListSubs(p) ==
    /\ At(p, "list")
    /\ obj' = [obj EXCEPT ![p] = [stripe EXCEPT !.charges = 0]]
    /\ Goto(p, IF stripe.sub = "none" THEN <<"customer list">>
               ELSE UpsertCust \o UpsertSub \o <<"touch", "customer list">>)
    /\ UNCHANGED <<mirrorVars, did, view, touched>> /\ Quietly

(* A deleted customer is not listed.                                       *)
ListCustomers(p) ==
    /\ At(p, "customer list")
    /\ obj' = [obj EXCEPT ![p] = [Nothing EXCEPT !.here = stripe.here, !.cmeta = stripe.cmeta]]
    /\ Goto(p, IF stripe.here THEN UpsertCust \o <<"touch", "sum">> ELSE <<"sum">>)
    /\ UNCHANGED <<mirrorVars, did, view, touched>> /\ Quietly

Touch(p) ==
    /\ At(p, "touch")
    /\ touched' = [touched EXCEPT ![p] = (@ \cup {did[p]}) \ {NoOne}]
    /\ obj' = [obj EXCEPT ![p] = Nothing] /\ did' = [did EXCEPT ![p] = NoOne]
    /\ Next1(p)
    /\ UNCHANGED <<mirrorVars, view>> /\ Quietly

(* aggregate_charges.                                                      *)
Sum(p) ==
    /\ At(p, "sum")
    /\ obj' = [obj EXCEPT ![p] = [Nothing EXCEPT !.charges = stripe.charges]]
    /\ Goto(p, IF stripe.charges = 0 THEN <<"reset", "next">> ELSE <<"reset", "set", "next">>)
    /\ UNCHANGED <<mirrorVars, did, view, touched>> /\ Quietly

Reset(p) ==
    /\ At(p, "reset")
    /\ cust' = [cust EXCEPT !.paid = 0]
    /\ Next1(p)
    /\ UNCHANGED <<sub, obj, did, view, touched>> /\ Quietly

(* set_customer_spend: only an existing row.                               *)
Set(p) ==
    /\ At(p, "set")
    /\ cust' = IF cust.here THEN [cust EXCEPT !.paid = obj[p].charges] ELSE cust
    /\ touched' = [touched EXCEPT ![p] = (@ \cup {cust.did}) \ {NoOne}]
    /\ obj' = [obj EXCEPT ![p] = Nothing]
    /\ Next1(p)
    /\ UNCHANGED <<sub, did, view>> /\ Quietly

(* The next member to rebuild, in no order.                                *)
PickMember(p) ==
    /\ At(p, "next")
    /\ \E d \in touched[p] :
        /\ did' = [did EXCEPT ![p] = d]
        /\ touched' = [touched EXCEPT ![p] = @ \ {d}]
    /\ Goto(p, Rebuild \o <<"next">>)
    /\ UNCHANGED <<mirrorVars, obj, view>> /\ Quietly

(* Mutant: the import tells nobody.                                        *)
FanOutToNobody(p) ==
    /\ At(p, "next") /\ touched[p] = {}
    /\ Forget(p)
    /\ UNCHANGED <<stripeVars, seen, mirrorVars, facts, untold, boundVars, historyVars>>

(* enqueue_account_sync: every member of the account will be re-synced.    *)
FanOut(p) ==
    /\ At(p, "next") /\ touched[p] = {}
    /\ untold' = {}
    /\ Forget(p)
    /\ UNCHANGED <<stripeVars, seen, mirrorVars, facts, boundVars, historyVars>>

-----------------------------------------------------------------------------
(* Failures.                                                               *)

(* A statement or a call to Stripe fails without effect.  Where the code   *)
(* goes from there: a request reopens its event, but gives up on a rebuild *)
(* and enqueues; an import stops, but gives up on the charges or on one    *)
(* rebuild and goes on.                                                    *)
Fail(p) ==
    /\ Fault
    /\ \/ /\ p \in Handler /\ ~Idle(p) /\ Head(plan[p]) \in Applying
          /\ Goto(p, <<"reopen">>)
          /\ undone' = undone \cup ({ev[p]} \cap counted)
          /\ UNCHANGED localVars
       \/ /\ p \in Handler /\ ~Idle(p) /\ Head(plan[p]) \in {"customers", "subs", "write"}
          /\ Goto(p, <<"enqueue">>)
          /\ UNCHANGED <<undone, localVars>>
       \/ /\ p \in Importer /\ ~Idle(p) /\ Head(plan[p]) \in {"customers", "subs", "write", "sum"}
          /\ Goto(p, <<"next">>)
          /\ UNCHANGED <<undone, localVars>>
       \/ /\ p \in Importer /\ ~Idle(p)
          /\ Head(plan[p]) \in Applying \cup {"list", "customer list", "reset", "set", "next"}
          /\ Forget(p)
          /\ UNCHANGED undone
    /\ UNCHANGED <<stripeVars, seen, mirrorVars, facts, untold,
                   acked, applied, counted, twice, dropped>>

(* The connection goes away and with it the request, the process aborts,   *)
(* or the DELETE that reopens an event fails: what is written stays.       *)
Die(p) ==
    /\ Fault
    /\ ~Idle(p)
    /\ Forget(p)
    /\ dropped' = dropped \cup ({ev[p]} \ {0})
    /\ undone' = undone \cup ({ev[p]} \cap counted)
    /\ UNCHANGED <<stripeVars, seen, mirrorVars, facts, untold, acked, applied, counted, twice>>

-----------------------------------------------------------------------------
Outside ==
    \/ Subscribe \/ Cancel \/ Pay \/ Relink \/ DeleteCustomer \/ DeleteSubscriber
    \/ \E e \in open : Lose(e)

Request(e) == Duplicate(e) \/ \E h \in Handler : Accept(h, e)

Work(p) ==
    \/ Fetch(p) \/ ResolveCust(p) \/ UpsertCustRow(p) \/ SpreadCust(p)
    \/ ResolveSub(p) \/ UpsertSubRow(p) \/ SpreadSub(p)
    \/ FindOwner(p) \/ Erase(p) \/ Count(p) \/ Result(p)
    \/ ReadCustomers(p) \/ ReadSubs(p) \/ WriteFacts(p) \/ Enqueue(p) \/ Reopen(p)
    \/ StartImport(p) \/ ListSubs(p) \/ ListCustomers(p) \/ Touch(p)
    \/ Sum(p) \/ Reset(p) \/ Set(p) \/ PickMember(p) \/ FanOut(p)

Next ==
    \/ Outside
    \/ \E e \in 1..Len(log) : Request(e)
    \/ \E e \in seen : Collect(e)
    \/ \E p \in Process : Work(p) \/ Fail(p) \/ Die(p)

Spec == Init /\ [][Next]_vars

(* Stripe retries until it gives up, a running statement ends, and the     *)
(* reconcile loop never tires.                                             *)
Deliver(e) ==
    /\ e \in open /\ Handling(e) = {}
    /\ Request(e)
MaxLog == UNION {1..(c.changes + c.stray) : c \in Case}
Fairness ==
    /\ \A p \in Process : WF_vars(Work(p))
    /\ \A e \in MaxLog : SF_vars(Deliver(e))
FairSpec == Init /\ [][Next]_vars /\ Fairness

-----------------------------------------------------------------------------
(* Properties.                                                             *)

Facts  == [row : BOOLEAN, active : BOOLEAN, paid : Nat]
Object == [sub : {"none", "active", "canceled"}, smeta : Owner, cmeta : Owner,
           here : BOOLEAN, charges : Nat]
Statement == Applying \cup {"result", "customers", "subs", "write", "enqueue", "reopen", "list",
                            "touch", "customer list", "sum", "reset", "set", "next"}

(* Type invariant: the rows, the objects and the plans are well formed.    *)
TypeOK ==
    /\ stripe \in Object
    /\ log \in Seq([kind : Kinds, data : Object])
    /\ open \cup seen \subseteq DOMAIN log
    /\ sub \in [status : {"none", "active", "canceled"}, did : Owner]
    /\ cust \in [here : BOOLEAN, did : Owner, paid : Nat]
    /\ ~cust.here => cust.did = NoOne /\ cust.paid = 0
    /\ facts \in [Did -> Facts] /\ untold \subseteq Did
    /\ plan \in [Process -> Seq(Statement)]
    /\ ev \in [Process -> 0..Len(log)] /\ obj \in [Process -> Object]
    /\ did \in [Process -> Owner] /\ view \in [Process -> Facts]
    /\ touched \in [Process -> SUBSET Did]
    /\ \A p \in Process : At(p, "write") => did[p] # NoOne
    /\ acked \cup applied \cup counted \cup twice \cup undone \cup dropped \subseteq DOMAIN log

(* A charge is added to a customer a second time only when the request     *)
(* that added it failed or died afterwards: neither Stripe's retries nor   *)
(* its duplicates nor two requests at once count one twice                 *)
(* (routes/webhooks.rs, the INSERT into webhook_deliveries).               *)
CountedOnce == twice \subseteq undone

(* An event that Stripe was told is done was applied, unless its request   *)
(* died or a duplicate of it was answered while the request was at work:   *)
(* a failed request really reopens its event (routes/webhooks.rs, the      *)
(* DELETE before the 500).                                                 *)
AckedIsApplied == acked \subseteq applied \cup dropped

(* What Stripe's objects say of a member.                                  *)
CustOwner == Or(stripe.cmeta, IF stripe.sub # "none" THEN stripe.smeta ELSE NoOne)
SubOwner  == Or(stripe.smeta, stripe.cmeta)
Truth == [d \in Did |->
    LET mine == stripe.here /\ CustOwner = d
        subs == stripe.sub # "none" /\ SubOwner = d IN
    [row |-> mine \/ subs, active |-> subs /\ stripe.sub = "active",
     paid |-> IF mine THEN stripe.charges ELSE 0]]

(* In the end the facts are what Stripe says, and no member's facts have   *)
(* changed since a sync was last queued for them: whatever was lost, sent  *)
(* twice, applied late or left half done, the periodic import repairs      *)
(* (tasks/reconcile.rs).  It does not go back to members whose id was      *)
(* taken out of the metadata or whose customer was deleted.  While imports *)
(* overlap, one may rebuild the facts from what another has just set to    *)
(* zero, so that the payments alone may be missing until imports of the    *)
(* account stop overlapping.                                               *)
Apart == \A p, q \in Importer : Idle(p) \/ Idle(q) \/ p = q
Unpaid(d) == [Truth[d] EXCEPT !.paid = 0]
SubscribersAreSynced ==
    /\ <>[](~edited => \A d \in Did : facts[d] \in {Truth[d], Unpaid(d)})
    /\ <>[]Apart => <>[](~edited => facts = Truth /\ untold = {})

=============================================================================
