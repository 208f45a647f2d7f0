# Formal models of Stripe-Subscriber-Role

The program gives a Discord role to the members of a guild whose Stripe
customer and subscriptions meet a rule.  Stripe's objects are mirrored into
Postgres by webhooks and by a periodic import; a denormalised row of facts is
kept per member; jobs in a Postgres queue compare those facts with the rule of
each role link and tell RoleLogic, the service that owns the Discord role, who
shall have it.  This directory holds TLA+ models of that chain, TLC
configurations that check them on small instances, and TLAPS proofs of the
properties that matter most for every instance.

Paths below are relative to the repository.

## 1. Inventory

| Component | State | Operations | Talks to |
|---|---|---|---|
| Job queue (`src/services/jobs.rs`, `migrations/007_jobs.sql`) | table `jobs`: status, attempts, `next_run_at`, `locked_at`, `locked_by` | enqueue, claim_batch, complete, fail_retry, fail_dead, reap_stuck | every producer inserts, workers claim |
| Workers and shutdown (`src/tasks/job_worker.rs`, `job_listener.rs`, `shutdown.rs`, `main.rs`) | the batch and position of each worker, the unread shutdown message | the polling loop, dispatch, release on shutdown, restart | queue; calls the role sync and the import |
| Role sync (`src/services/sync.rs`) | `role_links`, `role_assignments` (a mirror of RoleLogic's list) | sync_for_player, sync_for_role_link, drain_to_empty, sync_for_account, recheck_held, delete_orphan_role_link | RoleLogic, auth gateway, facts |
| Stripe ingest (`src/routes/webhooks.rs`, `src/services/ingest.rs`) | `webhook_deliveries`, `stripe_customers`, `stripe_subscriptions` | stripe_webhook, apply_event, upsert_*, apply_successful_charge, set_customer_spend | Stripe; facts; queue |
| Member facts (`recompute_member_facts` in `sync.rs`) | `stripe_member_facts` | recompute | read by both evaluators |
| Account import and reconcile (`src/tasks/reconcile.rs`) | none of its own | import_account every six hours and after a connect; gc of deliveries | Stripe's lists, ingest, queue |
| Rules (`src/models/*.rs`, `src/services/condition_eval.rs`, `rule_sql.rs`, `rule_validator.rs`) | the stored rule tree | validate and normalise, evaluate in Rust, translate to SQL | role sync, save, previews |
| Admin routes and role editor (`src/routes/admin.rs`, `templates/role_config.html`) | `stripe_accounts`, rule and account of a link with `rule_tree_version`; forms in browser tabs | connect, disconnect, load, save with optimistic lock | accounts, links, queue |
| Plugin routes (`src/routes/plugin.rs`) | `role_links` | register, get/post/delete config | called by RoleLogic |
| RoleLogic client (`src/services/rolelogic.rs`) | none | add, remove, replace list, chunked upload, info | external service |
| Auth gateway client (`src/services/auth_gateway.rs`) | none | guilds of a member, opt-outs of a guild | external service |
| Stripe client (`src/services/stripe.rs`) | none | list, retrieve, sum charges, verify signature | external service |
| Verification routes (`src/routes/verify.rs`) | none | refresh enqueues a player_sync | queue |
| Sessions, tokens, CSRF, crypto | none | stateless checks of one request | – |
| Start-up, configuration, HTTP plumbing | connection pool | – | – |

What is hard, by component, and what makes it correct:

* **Queue.** Replicas share one table.  A worker claims up to eight rows with
  one `locked_at` and runs them one after another, while every worker reaps
  rows older than 45 minutes; results are written by id alone; a process may
  die between any two statements.  Correct: one owner per job, no job lost, a
  finished row is backed by a run, attempts within the budget.
* **Role sync.** A job awaits the gateway, the database and RoleLogic up to
  ten times and holds no lock; two jobs on one link interleave at every await;
  the mirror is written after the call it records.  Correct: nobody gains or
  loses a role on stale or missing data; the mirror is what RoleLogic has; in
  the end those with the role are those entitled to it.
* **Ingest.** Stripe delivers events late, twice, out of order or never; a
  handler is a sequence of statements that may fail or die in the middle; the
  import runs next to it.  Correct: a charge is counted once, an acknowledged
  event was applied, the facts end up as Stripe says and the sync is told.
* **Rules.** One rule is evaluated by two programs in two languages, with SQL's
  NULL, two regex dialects and two ways to round days.  Correct: they agree;
  a stored rule survives the editor.
* **Facts.** Rows come in no order, ties are broken by it, amounts are rounded
  once per subscription.  Correct: what rules can test of a member agrees, and
  does not change unless the rows do.
* **List upload.** A list goes to RoleLogic in several requests, each of which
  may be lost or arrive after the client has given it up.  Correct: the list is
  replaced as a whole, at most once per call, and sessions do not stay open.
* **Requests for a sync.** Two of the enqueue helpers insert nothing when the
  same job is queued, a fan-out is not a transaction, and a held write
  goes on through the row its own run inserts.  Correct: no change is missed.
* **Shutdown.** One broadcast that every receiver reads once.  Correct: nothing
  is cut off, nothing new begins, and the process ends.
* **Configuration.** Several tabs, an account that is disconnected meanwhile,
  a link that is deleted and registered again.  Correct: a save replaces only
  what its tab has seen, a link is bound to an account that exists, what was
  saved reaches the roles.

## 2. Modules

| Module | Models | State and steps |
|---|---|---|
| `JobContract` | what the queue promises | a job is absent, open, completed, dead or forfeited; running or not |
| `JobQueue` | queue, workers, shutdown, crash | columns of `jobs`, the loop position and batch of each worker; one step per SQL statement, dispatch and return |
| `RoleList` | what the sync jobs promise of the list of members with the role | a job is under way or not, which rules were in force during it and what was true of the members by then; steps: the world turns, the link is deleted, a job begins, ends, grants, revokes, replaces |
| `RoleSync` | role sync of one link | the environment (account, the rules each member's facts meet, opt-outs, the row with its rule, RoleLogic's list), and per worker the await its job is at and the rule it has read; one step per await |
| `ListReplace` | what `upload_users` promises | a call is open, ok or failed; its list has been taken over or not |
| `ListUpload` | `upload_users` request by request | RoleLogic's list and upload session, requests under way, per call what is left to send and the answer it waits for |
| `SyncRequests` | enqueue helpers, fan-out, held re-check | rows of the queue by target and by what their run has read, requests of imports and saves, the last change each link was synced for |
| `StripeIngest` | webhooks, upserts, recompute, import | Stripe's objects and events, the mirror rows, the facts, and per process the *plan*: the statements it has yet to run |
| `Accounts` | connect, webhook secret, disconnect; requests and imports that meet them | the account rows by guild, Stripe's webhook addresses, deliveries, the statement each request is at |
| `ChargeImport` | the charge pass of the import, page by page | Stripe's charges, the stored sums, and per import the cursor, the sums in the making and the customers still to be set; any number of imports at once |
| `MemberFacts` | `recompute_member_facts` over several rows, `into_fields` | the member's customer and subscription rows, the facts; one step per upsert or recompute |
| `RuleEval` | validator and both evaluators | the stored tree and one row of facts; `Save`, `Refuse`, `Recompute` |
| `ConfigSave` | editor tabs, save, accounts, register and delete, the syncs that follow | per tab its form, its version and the statement its save is at, where it may end at any time |
| `Shutdown` | `main.rs`, the broadcast and every task's loop | where each task and main are, unread messages, requests in flight, ticks of the reconcile interval |
| `…Proofs` | theorems of `JobQueue` and `Shutdown`, `StripeIngest` and `ChargeImport`, `RoleSync`, `RuleEval`, `MemberFacts`, `ConfigSave` and `Accounts`, `ListUpload`, `SyncRequests` | |
| `MC…` | constants of the TLC instances | |

They compose as follows.  `JobQueue` implements `JobContract` under the
refinement `Contract`, `RoleSync` implements `RoleList` under `Promise`, and
`ListUpload` implements `ListReplace` under `Abstract`;
the last is the single call (`Put`) of `RoleSync`.  `SyncRequests` shows that
the queued `Bulk` job of `RoleSync`, and its `Reconcile`, are there when they
should be: a row that will see a change stays until a sync that saw it got
through.  `ChargeImport` takes the steps `Sum`, `Reset` and `Set` of
`StripeIngest` apart into pages and customers, `MemberFacts` its `ReadCustomers`,
`ReadSubs` and `WriteFacts` into rows and columns, and `Accounts` puts
several rows of one Stripe account around it.  `RoleSync` takes the contract for granted: its `queue`
is the set of jobs that will still run, and errors and deaths put a job back.
`RoleSync` and `StripeIngest` meet at the facts: `StripeIngest` shows that they
follow Stripe and that a sync is queued, `RoleSync` that a queued sync makes
the roles follow the facts.  `RuleEval` says that the two decisions `RoleSync`
takes as one (`r \in facts[m]`) are one; `ConfigSave` says what `SaveRule`
of `RoleSync` stands for.

### Correspondence with the code

`PROJECT.json` maps every definition to lines.  The principles:

* A statement of SQL is atomic, and so is a transaction; anything else may
  happen between two of them.  A call of another service is one step with all
  its outcomes.
* A handler's early returns are guards or branches of its steps.  In
  `JobQueue` a result is computed (`Return`) and written (`Report`) in two
  steps, and the write may fail.  In `RoleSync` a call and the record of it are
  two steps (`Put`, `Store`; `Add`/`Remove`, `Record`), and `Torn` is a death or
  a lost answer after the call.
* Time is what the code compares: a row is due or not, a lock is older than
  `STUCK_LOCK_SECS` or not.  `HeldLockAges` is the one step by which the lock
  of a live worker grows too old, an *overrun*; the contract forfeits the job.
* History variables never influence a step.  `overran`, `spare`, `ranOk` and
  `failed` (queue), `rules`, `admitted`, `passing`, `lapsed` (what a job under
  way may have seen), `acked`, `applied`, `counted`, `twice`, `undone`, `dropped`,
  `untold`, `edited` (ingest), `calm`, `settled` (charges), `basis`, `misread`,
  `late`, `unsent` (editor) are there for the properties.
* Definitions whose comment begins with "Mutant" are plausible mistakes in the
  operator below them.  No specification uses them; they document that the
  property named in `PROJECT.json` does depend on that piece of code.

### Abstractions

* `JobQueue`: payloads, kinds and backoff delays are left out; a retry is due
  at some later time.  The listener only wakes a worker early, which `Wake`
  already allows.
* `RoleSync`: one link, one account at a time.  A rule is a value, what a
  link can be bound to, and a member's facts are the set of rules they meet, so
  that changed facts (`ChangeFacts`) and a replaced rule (`SaveRule`) are two
  things: a job keeps the rule it has read with the row (`Links`, `Read`) and
  meets the facts of a later await (`Decide`, `Query`).  What justifies a call is
  therefore a rule in force during the job on the facts of that or a later moment
  of it.  An account that is disconnected takes its facts along for good, so a job
  that has read its id finds nobody (`rule` becomes `None`).  The fan-out of an import, an account_sync or the reconcile is the one step
  `Reconcile` that queues the config_sync (`SyncRequests` has its statements).
  The upload of a list in chunks is one call (`ListUpload` has its requests).
* `ListUpload`: one link; a request is processed once or lost, in any order
  with others, and an answer may come too late.  What the service does with a
  session is external and taken from the client's comments and tests.
* `SyncRequests`: one account; links only get bound (unbinding is in
  `RoleSync`), a link that is paused or gone counts as synced, a run reads all
  it reads when it begins, and backoff is some time.
* `ChargeImport`: a charge is a number and counts as one unit.  Only the
  settled ones are compared, those to which nothing has happened since the import
  began that wrote their customer's sum last, be it one that was overtaken, failed
  half-way or was cut off: of several imports at once the last to write may have
  listed before a refund that the others saw, and its sum stands until the
  next import.
* `MemberFacts`: country and domain go the way of the email, prices the way of
  products, and of the dates the start of subscriptions is there.  A recompute
  is one step; floating point is taken as exact, which it is at the half cents
  that decide the rounding.
* `Accounts`: one Stripe account; an event changes an object of its own, so a
  mirror is a set of events.  `SESSION_SECRET` does not change.
* `Shutdown`: what a job or an import does is one step or its waiting.
* `StripeIngest`: one account, one customer, one subscription, any number of
  requests and imports; an amount is a number of charges; a statement either
  happens or fails without effect.  A behaviour is one of the cases of `Case`:
  what Stripe has at first, which imports run, how much changes and goes wrong.
* `RuleEval`: texts are atoms, and what the standard library, the regex crate
  and Postgres make of them are tables (`BoolOf`, `IntOf`, `Parts`, `Matches`,
  `PgMatches`, …).  JSON objects are left out; lists are sets.  Both evaluators
  see the same `now`.  That Postgres may reject a pattern, and with it the
  query, is left out.
* `ConfigSave`: rules are opaque.  A form does not change while its save is in
  flight.  A request may end at any statement (`Break`), by an error or because
  the connection or the process went away; what it has committed stays.
  `SyncAccount` is the end of an import, whose statements are in
  `SyncRequests`.  A draft without account cannot be saved:
  `rule_validator.rs:19-21` says that it can, `role_config_save` refuses it
  (`admin.rs:759-769`).

## 3. Runs

All bounds are constants named in the modules.  They are as small as keeps
every named case reachable: each passing run was read for actions that never
fire, and for each property a mutant of the code that only the interesting
case can tell is found by the same run.  There is one run per component, and
one whose property fails.

| Run | Checks | Instance | What it shows |
|---|---|---|---|
| `queue_jobs` | `TypeOK`, `OwnedUnlessOverrun`, `AttemptBudget`, `FinishedJobsRan`, `ImplementsContract`, `EveryJobFinishes` | 2 jobs, 2 workers in 2 replicas, batches of 2, 2 attempts, 1 fault: a crash, a failed write, a failed claim, a shutdown or a lock that ages in a live worker's hands | A crash, failed write or reap never gives a job to two workers; only an aged lock does, and the contract forfeits that job alone.  Only reaps and releases exceed the attempts.  No job is lost. |
| `role_converge` | `TypeOK`, `MirrorIsExact`, `GrantsAreJustified`, `RevocationsAreJustified`, `LiveRowsFallToOldTokens`, `ImplementsRoleList`, `Converges` | 2 members, limit 1, 2 rules of which every customer meets one, 1 worker, 2 changes (so a rule can be replaced and the facts change within one job), 1 fault: an error, an unrecorded call, a hold or a link created anew | No error, hold or stale read gives or takes a role that no rule in force by then, on facts or opt-outs of the job, justifies; the mirror is exact between jobs, and in the end exactly the entitled members, up to the limit, have the role (both unless a call went unrecorded or the link was created anew); only a job with an outdated token drops the row of a link that is there; and RoleLogic's list changes only as `RoleList` allows, which adds that the list stays within the limit, leaves out only who comes last, and belongs to a link that is there. |
| `role_race` | `DriftHeals` (violated) | 2 workers, 1 member, 2 rules, 2 changes, no fault | See section 6. |
| `ingest_repair` | `TypeOK`, `CountedOnce`, `AckedIsApplied`, `SubscribersAreSynced` | 1 request, 1 Discord id and none, six cases: two changes, whose events may be applied in either order; a change, an event that is lost or sent twice and a fault (a failing statement or a death); a subscriber's change or deletion (two events, so it also uses up the stray event); the same with a fault; two imports with a change; two imports with a fault | A charge counts twice only if its request failed or died after counting it; an event is acknowledged unapplied only if its request died or a duplicate was answered meanwhile; whatever is lost, late or left half done, the import brings the facts to what Stripe says, and a sync is queued after the last change of a member's facts.  While imports overlap again and again, the payments of a member may be missing from the facts, and nothing else. |
| `accounts_catchup` | `TypeOK`, `GoneAccountsStayEmpty`, `MirrorsCatchUp` | 2 guilds, 2 requests, an event, 2 connects, 2 secrets, an error, a death | Late writes for a disconnected account have no effect; every connected account is brought up to date by the reconcile loop alone, also the second row of an account that two guilds share. |
| `charge_exact` | `SettledChargesAreExact` | 2 imports, 2 customers, 3 charges, pages of 1, at most 2 pages | Paging while charges come, succeed and are refunded and another import resets and sets the same sums: the settled ones are summed exactly once, of those the pages can hold. |
| `facts_agree` | `TypeOK`, `TestsAgree`, `MrrIsAYearsTwelfth`, `OrderDecidesTiesOnly` | 2 customers, 2 subscriptions out of 7: ties of the charge, all four intervals, counts of 0, 2 and 5, a quantity of 0, two items and none | A row is there when it must be; flags, count, headline status, plan and interval say one thing; the monthly revenue is a twelfth of the yearly cost to half a cent for each; only emails, currencies and, between equal charges, the interval depend on the order of rows. |
| `requests_served` | `TypeOK`, `NoRequestIsSwallowed`, `HeldIsLookedAtAgain` | 2 links, 2 rows, 2 requests, 2 attempts, 2 changes | No look for a queued row swallows a request, and a held write is tried until it gets through or the row is dead. |
| `upload_whole` | `TypeOK`, `SessionsAreCleanedUp`, `ImplementsListReplace` | 2 calls, 3 members, chunks of 1 | However requests are lost or late, the list is replaced as a whole and once per call; a session stays open only if its call died, its cancel was lost or refused, or its commit was. |
| `rule_agree` | `TypeOK`, `EvaluatorsAgree`, `ResaveKeepsRule` | one target of each kind and two kinds of date, every operator, 23 raw values; up to 3 groups and 3 conditions against limits of 2; 24 rows of facts with NULLs and past and future dates | The stored tree is well typed, and the evaluators agree but for three cases: a date less than a whole number of days on the wrong side of now, `not_in` over a list without strings against NULL, and a pattern the dialects read differently.  Each of the three does differ. |
| `config_lock` | `TypeOK`, `BoundOrLate`, `SavesReplaceWhatTheySaw`, `SavedIsSynced` | 2 tabs, 1 account id, 2 rules, saves from versions below 4, a deletion, a failing statement, dropped request or lost answer | A save overwrites only what its tab has seen, but for a tab that was answered with a later save's version and a link registered anew; the link is bound to a connected account unless the account was disconnected after the save's check; the last save reaches a config_sync unless it was cut off or its enqueue failed, and the periodic import makes up for that too. |
| `shutdown_ends` | `NothingInFlightAtExit`, `EndsUnlessMissed` | 1 worker, batches of 2, 2 accounts, 2 requests, a tick | Whenever the signal comes, nothing is running when the process ends, and it ends unless a receiver came too late or spent its message. |

Two workers, tabs or imports are enough for every pairwise interleaving; where a run has
one (`role_converge`, for its liveness), the proofs of section 5 lift the safety
properties to any number.  Two members with a limit of one are the smallest case
in which the limit matters.  One customer is enough for the ingest because no
statement relates two customers of one account; a second webhook request is
there as the duplicate that is answered while the first is at work.  The six
cases of `ingest_repair` pair the hazards, since all of them at once are too
many states; the proofs have no such bound.

`CHECK_DEADLOCK FALSE` is set where the system really may stop: the accounts,
when Stripe has made its last event and nothing is connected; the requests, when
the last change is synced; the uploads, whose calls are finite; the shutdown,
whose purpose is to stop.

## 4. Fairness

* `JobQueue`: clocks advance (`Mature`, `AbandonedLockAges`); a runnable task
  is scheduled by tokio and a dispatch returns, since every upstream call has a
  timeout (`Progress`); a dead or stopped process is started again by its
  orchestrator (`Restart`).  The reap is strongly fair: it is enabled each time
  the loop passes its top, at most two seconds apart when idle.  Faults,
  shutdowns and new jobs are never promised.
* `RoleSync`: a job under way ends; a queued job is taken in the end, which is
  what `EveryJobFinishes` shows of the queue (strong, as one worker alternates
  between jobs); the reconcile, an interval timer, comes again and again.
* `StripeIngest`: a running statement ends; Stripe retries an event until it
  gives up (`Deliver`, strong, because a request may be occupied); the
  import runs again and again.  That imports stop overlapping is not promised:
  it is the premise `<>[]Apart` of the half of `SubscribersAreSynced` that needs
  it.
* `SyncRequests`: a row becomes due, is claimed, and its run ends; that nothing
  takes a row away for good is what `EveryJobFinishes` shows of the queue.
* `Shutdown`: tokio schedules every task, a request and a job end, and what is
  sent is received.  Neither a signal nor a tick is promised.
* `Accounts`: the reconcile loop visits each account again and again (`List`,
  strong, because one import runs at a time) and an import ends.  Of webhooks
  nothing is asked.
* `ConfigSave`: a request ends, by its answer or otherwise (`SaveStep`); the
  workers run the queued config_sync; an import of each connected account
  succeeds again and again and ends in `sync_for_account` (`Reconcile`), as its
  timer does not stop.  That a save gets as far as its enqueue is not promised.

## 5. Proofs

The theorems hold for every value of the constants; the only assumptions are
the `ASSUME`s of the modules, which TLC evaluates for each instance, and one
named hypothesis (`OneAtATime`, below).

Three components are proved about beside the one they adjoin, through an
instance: `Accounts` as `Rows!` in `ConfigSaveProofs`, since the accounts a
save checks are the rows that connecting and disconnecting write; `Shutdown` as
`Life!` in `JobQueueProofs`, since what main waits for is the queue's workers;
`ChargeImport` as `Pass!` in `StripeIngestProofs`, since it is a part of the
import there.  Only variables are renamed.  An instance's assumption is not
a fact of the module that instantiates it, so `Rows!AccountsAssumption` and
`Pass!ImportAssumption` stand as hypotheses of those theorems; the runs of
the two components evaluate them.

* **`JobQueueProofs`.** `TypeCorrect` needs `LoopInv` (a worker has a current
  job exactly while it dispatches or reports).  `Ownership` needs `OwnInv`: the
  row of a job in a batch names the worker and its lock is not old, unless it
  overran; both the claim and the reap then pass it by.  `Finality` follows
  from ownership: the only statement that touches a row in a batch is its
  owner's.  `Tokens` rests on a claim handing out `attempts + 1`, `Budget` on
  counting unguarded returns, `Results` on the outcome being recorded before it
  is written.  `QueueImplementsContract` proves, for any faults, that
  initial states map to initial states and every step to a step of
  `JobContract` or a stutter: a job that is not forfeited is in one batch at
  most (`OwnInv`), so its phase is that of one worker, and a forfeited one is
  there (`OverranInv`).
* **`RoleSyncProofs`.** `TypeCorrect`; `Grants` from `SightInv`: what a job
  has read of opt-outs was true at some moment since it was taken, its rule is one
  of those in force since (`rules`), and whom it wants met such a rule then or
  later; `Revocations` from `LapseInv`, the same for
  members that had opted out or met no such rule, with `FirstInOrder`: who is cut from the list
  is cut because `Limit` members come before.  `JobsImplementRoleList`
  proves `ImplementsRoleList` from these and `TokenInv`: an await that makes no
  call, or one that fails without effect, is a stutter or the end of a job; an add, a
  remove and a PUT that take effect are `Grant`, `Revoke` and `Replace`, whose
  guards are what `SightInv` and `LapseInv` say at `add`, `remove` and `put`; and
  the token that RoleLogic has accepted is that of a link it has.  `OldTokens` from `TokenInv`:
  RoleLogic accepts the latest token or none, nobody holds a later one, and a job
  past its read of the row holds one; so a job that is refused while the row is
  live (`StepTokens`) holds an earlier one.  `MirrorOfOneWorker` is
  `MirrorIsExact` under `OneAtATime` (`WORKER_CONCURRENCY=1`, one replica; for two workers
  it is false, see `role_race`): as long as no call went unrecorded and the link is
  the first, the lists are equal unless the job is at `record` or `store`, and
  there they differ by the one call it has made (`MirrorInv`).  This needs what
  `want` says at each await (`WantInv`), so that the record undoes exactly that
  difference, and `TokenInv`, as a job that drops the row would clear the mirror
  and not the list.
* **`StripeIngestProofs`.** `TypeCorrect`, `ChargesCountOnce` and
  `AnswersAreTrue`, for any number of requests and imports.  `DataInv` types the
  rows, `Control` the rest.  A plan is a chain in which each statement may follow
  the one before it, and a rebuild has found its member (`PlanInv`).  A request
  holds an event exactly while it has statements to go; the event is in
  `webhook_deliveries` and no other request holds it (`RequestInv`).  Behind the
  result of its plan an event is applied (`AppliedInv`), and one that is counted
  and not undone is held or is not delivered again (`CountInv`); whoever still
  has to count, or reopens, has not counted.  That the same event is in two plans
  is what all of these have to exclude, and `RequestInv` does.
* **`RuleEvalProofs`.** `TypeCorrect`, `Resave`, `Agreement`, from one
  invariant: a stored tree consists of conditions that are the stored form of
  some raw condition.  The lemmas: normalisation is idempotent
  (`NormalizeTwice`), truncated and floored days agree unless `Differs`
  (`DaysAgree`), a condition is true in SQL exactly when it holds in Rust unless
  `Differs` (`ConditionsAgree`), and SQL's ternary AND and OR are true exactly
  when the two-valued ones are.
* **`ConfigSaveProofs`.** `TypeCorrect`; `Binding`, which is inductive as it
  stands; `OptimisticLock` from `LockInv`: a tab sends the version of the row it
  has seen, unless its answer is still to come, it was answered with another
  version, or that row is gone; and the row it has seen is never younger than
  the link.  The last part is what rules out an old version that matches a
  new row by chance without being one of the named exceptions.  `SavesAreSent` is
  the invariant half of `SavedIsSynced`, from `SentInv`: whatever changes the
  configuration of a link leaves a config_sync pending, a save at its end,
  `unsent`, or a link bound to no connected account, and a new account is never
  one that a link or a form names already (`PickInv`).

* **`ListUploadProofs`.** From one invariant, in which `OneRequest` says that a
  call has at most one request that RoleLogic may still answer: `TypeCorrect`,
  `CleanUp`, and `UploadImplementsListReplace`, that every step of the upload is
  a step of `ListReplace` or a stutter, for any users and chunk size.
* **`SyncRequestsProofs`.** `TypeCorrect` and `RequestsAreServed`: for every
  change that was asked for and is not synced there is a row, pending or not yet
  begun, or a run that has seen it, or a request or fan-out still to insert one.
* **`MemberFactsProofs`.** `FactsTypeCorrect`; `RulesSeeOneMember`
  (`TestsAgree`): a row that `max_by_key` finds is outranked by none
  (`LastMaxIs`: of finitely many rows the one with the fewest rows above it has
  none), ranks of 6 and more are the active statuses (`RankIs`), hence
  `AggregateAgrees` for any list of rows in any order.  `OrderDecidesTies`
  (`OrderDecidesTiesOnly`): a fresh row was made of a listing of the rows that
  are there (`MadeInv`), a listing is a bijection, two listings of one table have
  the same rows (`ListingsAreAlike`), and each fold finds the same, or one of the
  tied, in both.  `MrrIsRight` (`MrrIsAYearsTwelfth`): `monthly_value` rounds by
  half a divisor at most (`RoundedIs`), which multiplied out is half a cent
  (`MonthlyIsATwelfth`).  Its constant `Ratio`, a common multiple of the interval
  counts, only makes the yearly charges whole numbers.
  The last two rest on what the library's fold adds up.  The induction it
  takes is over subsets of a finite set, in a form without an operator
  parameter: of the subsets that break a claim one contains no other
  (`LeastSubset`).  From it: the recursion has a solution (`SumExists`, set size
  by set size) and its values are numbers (`SumIs`); any element may be taken
  out first, not only the one `CHOOSE` picks (`SumWithout`); the same numbers
  under other names have the same sum (`SumRenamed`), which makes the sums
  independent of the listing; and what holds to within d of each number
  holds to within d times their number of the sums (`SumWithin`).
* **`Pass!`** (`StripeIngestProofs`). `PassTypeCorrect` (the types, which no run
  needs to check) and `ImportIsExact`
  (`SettledChargesAreExact`), for any number of imports at once.  Of each import:
  what its cursor has passed is listed, as it counts, as long as it is calm,
  unless the pages have run out first, and nothing is listed twice.  Of the stored
  sums: a charge that is settled was calm for the import that wrote them last,
  with the value that import had listed, and neither an event nor anything else at
  Stripe has touched it since; what another import sets takes that import's
  calm charges with it.
* **`Rows!`** (`ConfigSaveProofs`). `RowsTypeCorrect`; `NothingOutlivesARow`
  (`GoneAccountsStayEmpty`): a statement that writes for an account whose row is
  gone is refused by the foreign key, the cascade empties what there was, and a
  new row gets a new number.  `RowInv` adds that requests, imports and backfills
  name only numbers that were given out, as many as connects.
* **`Life!`** (`JobQueueProofs`). `JoinedTasksAreDone`
  (`NothingInFlightAtExit`), from `JoinInv`: main is past a join only if the task
  has ended, and a task that has ended holds no job.

Model-checked only: everything under fairness (`EveryJobFinishes`, `Converges`,
`SubscribersAreSynced`, `SavedIsSynced`, `HeldIsLookedAtAgain`,
`MirrorsCatchUp`, `EndsUnlessMissed`), because liveness and ENABLED are outside
what the prover does; the invariant half of `SavedIsSynced` is proved.  Every other
property of the runs, invariant, action property or refinement, is a theorem.

## 6. Disagreements between the code and its documentation

`role_race` shows one by a counterexample: while a config_sync is between its
PUT and the transaction that stores the list, a player_sync changes RoleLogic
and `role_assignments`; the transaction then overwrites the mirror with a list
RoleLogic no longer has.  Later jobs compare with the mirror and find nothing to
do, so the difference stays as long as the wanted set does
(`001_initial_schema.sql:37`).

The others were met while modelling and have no run of their own; each is an
exception that the property in brackets names, or a behaviour the models have.

* A death or lost answer between a RoleLogic call and the mirror write leaves
  the same lasting difference (`sync.rs:628`), and so does a link that is created
  anew while `DELETE /config` was missed: the assignments of the old list stay
  (`plugin.rs:41`) [`MirrorIsExact`, `Converges`].
* A job whose call is refused because the link was created anew deletes the row
  that has been registered since (`sync.rs:725`) [`LiveRowsFallToOldTokens`].
* Disconnecting an account unbinds its links and queues nothing; their members
  keep the role (`admin.rs:222`, against `sync.rs:538`) [`Converges`].
* A player_sync whose add or remove fails is completed (`sync.rs:466`).
* After an overrun two workers run one job, and the later result overwrites a
  finished row (`jobs.rs:117-168`) [`OwnedUnlessOverrun`, `ImplementsContract`].
* A charge event whose request fails after the increment is reopened, and
  Stripe's retry counts the charge again until the next import
  (`webhooks.rs:134`, against `006_webhooks.sql:2-3`) [`CountedOnce`].
* A duplicate is acknowledged while the first request is at work; if that one
  fails, Stripe has stopped retrying (`webhooks.rs:87`) [`AckedIsApplied`].
* Deliveries are keyed by the event id alone: when two guilds connect one Stripe
  account, an event to the second one's address is ignored as a duplicate
  (`webhooks.rs:81`), and only the reconcile serves it [`MirrorsCatchUp`].
* A subscription event after `customer.deleted` does not find the Discord id in
  the subscription's own row, and the member stays active until the next import
  (`ingest.rs:147`).
* A corrected Discord id leaves facts of the former owner that nobody rebuilds
  (`ingest.rs:186`); a lost `customer.deleted` of a customer who has facts and no
  subscription is not made up for by the import (`reconcile.rs:107`)
  [`SubscribersAreSynced`].
* Between the import's reset and its sums a payer shows nothing paid
  (`reconcile.rs:124`); a charge whose event comes after the import that has
  listed it counts twice until the next one; and with more pages than `MAX_PAGES`
  the oldest charges drop out of the sums (`stripe.rs:552`)
  [`SettledChargesAreExact`].
* Importing the same objects again can change the billing interval, the email or
  the currency of a member, as the rows are read in no order (`sync.rs:158`,
  against `reconcile.rs:75`) [`OrderDecidesTiesOnly`]; spend in several
  currencies is added up (`sync.rs:130`, against `facts.rs:5`).
* Imports of one account overlap without a lock (`reconcile.rs:42`, other
  replicas, the backfill): the slower one writes sums from before a refund over
  newer ones, and one may rebuild facts from sums another has just reset
  (`reconcile.rs:124`); both stay until an import runs alone
  [`SettledChargesAreExact`, `SubscribersAreSynced`].
* A job that has read a rule decides by it on facts of later: a member who never
  met the old rule while it was in force may get the role, or another lose it,
  until the next sync of the link (`sync.rs:382-421`, `524-598`)
  [`GrantsAreJustified`, `RevocationsAreJustified`].
* A save whose version cannot be read back after the commit answers 500 and
  enqueues nothing (`admin.rs:804-810`); a dropped request and a failed enqueue
  (`admin.rs:812`) do the same, and only the next import sends the roles
  [`SavedIsSynced`].
* A refused commit leaves the upload session open (`rolelogic.rs:305`)
  [`SessionsAreCleanedUp`].
* Every save of a burst gets a run of its own, though `jobs.rs:63-64` says that
  they are debounced into one (`jobs.rs:205`).
* A worker that reads the shutdown message between two jobs releases one and
  starts the next (`job_worker.rs:63`), a reconcile loop that reads it between
  two accounts never ends, and a signal before the server has subscribed is not
  seen by it (`main.rs:279`) [`EndsUnlessMissed`].
* The second reconcile follows the first at once, since an interval's first tick
  is immediate (`reconcile.rs:52`).
* A delivery whose API key cannot be decrypted, after `SESSION_SECRET` changed, is
  recorded and never reopened (`webhooks.rs:96-99`).

## 7. Not modelled, and why

* Sessions, tokens, CSRF, encryption, signature checks: stateless functions of
  one request.
* Start-up, configuration, HTTP plumbing, errors as responses, page templates
  other than the role editor, member-facing pages, previews and catalogs: no
  state beyond the pool, or formatting.
* The lists of subscriptions and customers are paged by the loop that
  `ChargeImport` has for the charges; objects of theirs that are cut off are
  merely not refreshed.

## 8. Plan

1. *Done.*  Queue and its contract; requests for a sync; role sync of one link
   and the list upload; ingest with import, its charge pass, the accounts around
   it and the facts; rules; the save and its lock; shutdown.
2. *Done.*  Proofs of every invariant and action property of the runs and of the
   three refinements (`JobQueue`, `RoleSync`, `ListUpload`).
3. `Pipeline`: the composition event, facts, job, role over the abstract queue,
   with the end-to-end promise as its property; today it is the sum of
   `SubscribersAreSynced`, `NoRequestIsSwallowed` and `Converges`.
