------------------------------- MODULE Accounts -------------------------------
(***************************************************************************)
(* The connected accounts: rows of stripe_accounts as the admin routes     *)
(* make, re-make and delete them (routes/admin.rs), and what a webhook     *)
(* request and an import do that meet them at any moment                   *)
(* (routes/webhooks.rs, tasks/reconcile.rs).                               *)
(*                                                                         *)
(* There is one Stripe account, and several guilds may connect it: each    *)
(* gets a row of its own, and with it a webhook address of its own.  What  *)
(* an event says, and how it is applied, is left to StripeIngest: here the *)
(* mirror of a row is the set of events it reflects.  SESSION_SECRET does  *)
(* not change, so keys and secrets that were stored can be decrypted.      *)
(***************************************************************************)
EXTENDS Integers, FiniteSets

CONSTANTS
    Guild,
    Handler,     \* concurrent webhook requests
    MaxEvents,   \* bound: events that Stripe makes
    MaxConnects, \* bound: rows made, and rows connected again
    MaxSecrets,  \* bound: signing secrets that Stripe makes
    MaxErrors,   \* bound: statements that fail, and backfills not enqueued
    MaxDeaths    \* bound: requests that die

ASSUME AccountsAssumption ==
    {MaxEvents, MaxConnects, MaxSecrets, MaxErrors, MaxDeaths} \subseteq Nat

Ref    == 1..MaxConnects
Event  == 1..MaxEvents
Secret == 1..MaxSecrets
NoSecret == 0

VARIABLES
    accounts, \* the rows of stripe_accounts, by account_ref
    serial,   \* the last account_ref given
    connects, \* how often an account was connected
    backfill, \* account_refs with an account_backfill job
    mirror,   \* mirror[r]: events that the rows of account_ref r reflect
    endpoint, \* Stripe: the signing secret of each webhook address
    secrets,  \* Stripe: how many secrets it made
    events,   \* Stripe: how many events there were
    open,     \* Stripe: <<event, address>> still to be delivered
    seen,     \* webhook_deliveries
    request,  \* request[h]: the statement it is at, its event, its account_ref
    import,   \* the import under way: its account_ref (0: none), what it listed
    errors, deaths

stripeVars == <<endpoint, secrets, events>>
rowVars    == <<accounts, serial, connects, backfill>>
boundVars  == <<errors, deaths>>
vars == <<rowVars, mirror, stripeVars, open, seen, request, import, boundVars>>

NoRequest == [at |-> "idle", event |-> 0, ref |-> 0]
NoImport  == [ref |-> 0, got |-> {}]

Init ==
    /\ accounts = <<>> /\ serial = 0 /\ connects = 0 /\ backfill = {}
    /\ mirror = [r \in Ref |-> {}]
    /\ endpoint = <<>> /\ secrets = 0 /\ events = 0 /\ open = {}
    /\ seen = {} /\ request = [h \in Handler |-> NoRequest] /\ import = NoImport
    /\ errors = 0 /\ deaths = 0

Connected == DOMAIN accounts
With(f, x, y) == [z \in DOMAIN f \cup {x} |-> IF z = x THEN y ELSE f[z]]
Less(f, x)    == [z \in DOMAIN f \ {x} |-> f[z]]

Error == errors < MaxErrors /\ errors' = errors + 1

-----------------------------------------------------------------------------
(* The admin of a guild.                                                   *)

(* What may be pasted as a signing secret: any that Stripe has shown.      *)
Pasted == 1..secrets

(* The initial import is enqueued after the row is there.                  *)
Backfill(r) ==
    \/ backfill' = backfill \cup {r} /\ UNCHANGED errors
    \/ Error /\ UNCHANGED backfill

(* Mutant: no ON CONFLICT (guild_id, stripe_account_id).                   *)
ConnectAnew(g) ==
    /\ connects < MaxConnects /\ connects' = connects + 1
    /\ \E s \in Pasted \cup {NoSecret} :
         accounts' = With(accounts, serial + 1, [guild |-> g, secret |-> s])
    /\ serial' = serial + 1
    /\ Backfill(serial + 1)
    /\ UNCHANGED <<mirror, stripeVars, open, seen, request, import, deaths>>

(* account_connect: a guild has one row for the account; when it is there, *)
(* a secret that is not given stays.                                       *)
Connect(g) ==
    /\ connects < MaxConnects /\ connects' = connects + 1
    /\ \E s \in Pasted \cup {NoSecret} :
        \/ /\ \A r \in Connected : accounts[r].guild # g
           /\ serial' = serial + 1
           /\ accounts' = With(accounts, serial', [guild |-> g, secret |-> s])
           /\ Backfill(serial')
        \/ \E r \in Connected :
           /\ accounts[r].guild = g
           /\ accounts' = [accounts EXCEPT ![r].secret = IF s = NoSecret THEN @ ELSE s]
           /\ Backfill(r)
           /\ UNCHANGED serial
    /\ UNCHANGED <<mirror, stripeVars, open, seen, request, import, deaths>>

(* account_set_webhook_secret.                                             *)
SetSecret(r) ==
    /\ \E s \in Pasted : accounts' = [accounts EXCEPT ![r].secret = s]
    /\ UNCHANGED <<serial, connects, backfill, mirror, stripeVars, open, seen, request, import,
                   boundVars>>

(* account_disconnect: what is mirrored for the row cascades away.         *)
Disconnect(r) ==
    /\ accounts' = Less(accounts, r)
    /\ mirror' = [mirror EXCEPT ![r] = {}]
    /\ UNCHANGED <<serial, connects, backfill, stripeVars, open, seen, request, import,
                   boundVars>>

-----------------------------------------------------------------------------
(* Stripe.                                                                 *)

(* The admin sets up the webhook of an address, or rolls its secret.       *)
MakeSecret(r) ==
    /\ secrets < MaxSecrets /\ secrets' = secrets + 1
    /\ endpoint' = With(endpoint, r, secrets')
    /\ UNCHANGED <<rowVars, mirror, events, open, seen, request, import, boundVars>>

(* An event goes to every address there is.                                *)
Happen ==
    /\ events < MaxEvents /\ events' = events + 1
    /\ open' = open \cup ({events'} \X DOMAIN endpoint)
    /\ UNCHANGED <<rowVars, mirror, endpoint, secrets, seen, request, import, boundVars>>

(* Nobody answered 200 for days, as with a wrong secret.                   *)
GiveUp(e, r) ==
    /\ open' = open \ {<<e, r>>}
    /\ UNCHANGED <<rowVars, mirror, stripeVars, seen, request, import, boundVars>>

-----------------------------------------------------------------------------
(* Webhook requests.                                                       *)

Answer(h) == request' = [request EXCEPT ![h] = NoRequest]
Ack(h) == Answer(h) /\ open' = open \ {<<request[h].event, request[h].ref>>}
Goto(h, s) == request' = [request EXCEPT ![h].at = s]

(* The row of the address decides: "unknown account" is acked; no secret   *)
(* or another one is an error that changes nothing; otherwise it goes on.  *)
Receive(h, e, r) ==
    /\ request[h] = NoRequest /\ \A g \in Handler : <<request[g].event, request[g].ref>> # <<e, r>>
    /\ \/ r \notin Connected /\ open' = open \ {<<e, r>>} /\ UNCHANGED request
       \/ /\ r \in Connected /\ accounts[r].secret = endpoint[r]
          /\ request' = [request EXCEPT ![h] = [at |-> "insert", event |-> e, ref |-> r]]
          /\ UNCHANGED open
    /\ UNCHANGED <<rowVars, mirror, stripeVars, seen, import, boundVars>>

(* The INSERT into webhook_deliveries, by the event's id.                  *)
Insert(h) ==
    LET e == request[h].event IN
    /\ request[h].at = "insert"
    /\ \/ e \in seen /\ Ack(h) /\ UNCHANGED seen
       \/ e \notin seen /\ Goto(h, "apply") /\ seen' = seen \cup {e} /\ UNCHANGED open
    /\ UNCHANGED <<rowVars, mirror, stripeVars, import, boundVars>>

(* Mutant: the rows do not reference stripe_accounts.                      *)
ApplyUnchecked(h) ==
    /\ request[h].at = "apply"
    /\ mirror' = [mirror EXCEPT ![request[h].ref] = @ \cup {request[h].event}]
    /\ Ack(h)
    /\ UNCHANGED <<rowVars, stripeVars, seen, import, boundVars>>

(* apply_event: rows of an account that is gone break the foreign key.     *)
Apply(h) ==
    LET r == request[h].ref IN
    /\ request[h].at = "apply"
    /\ \/ /\ r \in Connected
          /\ mirror' = [mirror EXCEPT ![r] = @ \cup {request[h].event}]
          /\ Ack(h) /\ UNCHANGED errors
       \/ r \notin Connected /\ Goto(h, "reopen") /\ UNCHANGED <<mirror, open, errors>>
       \/ Error /\ Goto(h, "reopen") /\ UNCHANGED <<mirror, open>>
    /\ UNCHANGED <<rowVars, stripeVars, seen, import, deaths>>

Reopen(h) ==
    /\ request[h].at = "reopen"
    /\ seen' = seen \ {request[h].event}
    /\ Answer(h)
    /\ UNCHANGED <<rowVars, mirror, stripeVars, open, import, boundVars>>

Die(h) ==
    /\ request[h] # NoRequest
    /\ deaths < MaxDeaths /\ deaths' = deaths + 1
    /\ Answer(h)
    /\ UNCHANGED <<rowVars, mirror, stripeVars, open, seen, import, errors>>

(* gc: a day later, when Stripe has an answer from every address.          *)
Collect(e) ==
    /\ \A r \in Ref : <<e, r>> \notin open
    /\ seen' = seen \ {e}
    /\ UNCHANGED <<rowVars, mirror, stripeVars, open, request, import, boundVars>>

-----------------------------------------------------------------------------
(* import_account, for an account_backfill job and for the reconcile loop. *)

(* Mutant: only connecting imports.                                        *)
ListOnConnect(r) ==
    /\ import = NoImport
    /\ r \in backfill /\ backfill' = backfill \ {r}
    /\ import' = IF r \in Connected THEN [ref |-> r, got |-> 1..events] ELSE NoImport
    /\ UNCHANGED <<accounts, serial, connects, mirror, stripeVars, open, seen, request, boundVars>>

(* The row and its key are read and the lists fetched; an account that is  *)
(* gone has nothing to import.                                             *)
List(r) ==
    /\ import = NoImport
    /\ r \in backfill \cup Connected
    /\ backfill' = backfill \ {r}
    /\ import' = IF r \in Connected THEN [ref |-> r, got |-> 1..events] ELSE NoImport
    /\ UNCHANGED <<accounts, serial, connects, mirror, stripeVars, open, seen, request, boundVars>>

(* The upserts; the foreign key stops them too.                            *)
Store ==
    LET r == import.ref IN
    /\ import # NoImport
    /\ import' = NoImport
    /\ \/ /\ r \in Connected
          /\ mirror' = [mirror EXCEPT ![r] = @ \cup import.got]
          /\ UNCHANGED errors
       \/ r \notin Connected /\ UNCHANGED <<mirror, errors>>
       \/ Error /\ UNCHANGED mirror
    /\ UNCHANGED <<rowVars, stripeVars, open, seen, request, deaths>>

-----------------------------------------------------------------------------
Step(h) == Insert(h) \/ Apply(h) \/ Reopen(h)

Next ==
    \/ \E g \in Guild : Connect(g)
    \/ \E r \in Connected : SetSecret(r) \/ Disconnect(r)
    \/ \E r \in 1..serial : MakeSecret(r)
    \/ Happen
    \/ \E e \in Event, r \in Ref : <<e, r>> \in open /\ GiveUp(e, r)
    \/ \E h \in Handler, e \in Event, r \in Ref : <<e, r>> \in open /\ Receive(h, e, r)
    \/ \E h \in Handler : Step(h) \/ Die(h)
    \/ \E e \in seen : Collect(e)
    \/ \E r \in Ref : List(r)
    \/ Store

Spec == Init /\ [][Next]_vars

(* The reconcile loop visits every account again and again, and an import  *)
(* ends; of the webhooks nothing is asked.                                 *)
Fairness == (\A r \in Ref : SF_vars(List(r))) /\ WF_vars(Store)
FairSpec == Spec /\ Fairness

-----------------------------------------------------------------------------
(* Properties.                                                             *)

(* Type invariant; a guild has at most one row for the account             *)
(* (002_stripe_accounts.sql, "dedupe re-connects").                        *)
TypeOK ==
    /\ serial \in 0..MaxConnects /\ Connected \subseteq 1..serial
    /\ \A r \in Connected : accounts[r].guild \in Guild /\ accounts[r].secret \in 0..secrets
    /\ \A r, s \in Connected : accounts[r].guild = accounts[s].guild => r = s
    /\ DOMAIN endpoint \subseteq 1..serial /\ backfill \subseteq 1..serial
    /\ mirror \in [Ref -> SUBSET (1..events)] /\ import.got \subseteq 1..events
    /\ open \subseteq (1..events) \X (1..serial) /\ seen \subseteq 1..events
    /\ \A h \in Handler : request[h].at \in {"idle", "insert", "apply", "reopen"}

(* However late a request or an import writes, nothing is mirrored for an  *)
(* account that was disconnected meanwhile, so a member's data does not    *)
(* outlive it (account_disconnect, "CASCADE drops the account's").         *)
GoneAccountsStayEmpty == \A r \in Ref \ Connected : mirror[r] = {}

(* Whatever the webhooks miss, every connected account is up to date some  *)
(* day: with no webhook at all, a wrong secret, a backfill that was never  *)
(* enqueued, a request that died, an event that another guild's row of the *)
(* account was asked for first, an account connected anew                  *)
(* (tasks/reconcile.rs).                                                   *)
MirrorsCatchUp == <>[](\A r \in Connected : mirror[r] = 1..events)

=============================================================================
