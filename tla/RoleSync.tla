------------------------------- MODULE RoleSync -------------------------------
(***************************************************************************)
(* Role synchronisation of one role link (services/sync.rs): workers run   *)
(* sync_for_player and sync_for_role_link jobs that read the gateway, the  *)
(* link, the facts and the mirror, call RoleLogic, and then write          *)
(* role_assignments, the mirror that later jobs diff against.  Nothing     *)
(* locks the link: every await is a step of its own, jobs interleave       *)
(* between any two, and a job can die between the RoleLogic call and the   *)
(* mirror write.                                                           *)
(*                                                                         *)
(* RoleLogic and the auth gateway are external: they are what              *)
(* services/rolelogic.rs and services/auth_gateway.rs expect of them.      *)
(* The queue is the set of jobs that will still run (JobQueue shows that   *)
(* none is lost); an error or a death puts the job back into it.           *)
(***************************************************************************)
EXTENDS Integers, FiniteSets

CONSTANTS
    MaxMembers,  \* members are 1..MaxMembers, in the order of discord_id
    SignedIn,    \* members the gateway knows to be in the guild
    Worker,
    Rule,        \* what a link can be bound to: an account and a rule tree
    AnyRelation, \* the rule every customer meets (grant_on_any_relation)
    Limit,       \* user_limit of the link
    MaxChanges,  \* bound: what users, owners and Stripe change
    MaxFaults    \* bound: awaits that fail, and deaths, without effect; RoleLogic
                 \* calls that are not recorded; list writes held by the shrink
                 \* gate; deletions of the link at RoleLogic

Member == 1..MaxMembers

None == "none"

ASSUME RoleSyncAssumption ==
    /\ MaxMembers \in Nat /\ Limit \in Nat /\ SignedIn \subseteq Member
    /\ AnyRelation \in Rule /\ Rule \cap {"unbound", "empty", None} = {}
    /\ MaxChanges \in Nat /\ MaxFaults \in Nat

VARIABLES
    account,  \* the guild's Stripe account is connected
    facts,    \* facts[m]: the rules m's facts meet; {} when m has no facts row
    optout,   \* members the gateway lists as opted out
    config,   \* the link row: "unbound", bound with an "empty" rule, or a Rule
    token,    \* api_token of the link row; 0 when there is no row
    upToken,  \* the token RoleLogic accepts; 0 when it has no such link
    paused,   \* RoleLogic answers "disabled" or "paused"
    roles,    \* RoleLogic's list: who really has the role
    mirror,   \* role_assignments
    queue,    \* jobs to run: a member (player_sync) or Bulk (config_sync)
    job,      \* job[w]
    pc,       \* pc[w]: the await the job is at
    tok,      \* tok[w]: the api_token the job read
    rule,     \* rule[w]: the rule the job read with it; None without one, or
              \*   when its account has been disconnected since
    seen,     \* seen[w]: the opt-outs the job read
    want,     \* want[w]: the members the job wants to have the role
    changes, errors, torn, holds, relinks,  \* how much of each bound is used
    rules,    \* history: rules[w]: what was in force at a moment of the job
    admitted, \* history: admitted[w]: not opted out at a moment of the job
    passing,  \* history: passing[w]: met, at a moment of the job, a rule in
              \*   force then or earlier in the job
    lapsed    \* history: lapsed[w]: opted out at a moment of the job, or did
              \*   not meet a rule in force then or earlier in the job

envVars     == <<account, facts, optout, config, token, upToken, paused>>
listVars    == <<roles, mirror>>
jobVars     == <<queue, job, tok, rule, seen, want>>
boundVars   == <<changes, errors, torn, holds, relinks>>
historyVars == <<rules, admitted, passing, lapsed>>
vars == <<envVars, listVars, jobVars, pc, boundVars, historyVars>>

Bulk      == 0
Jobs      == Member \cup {Bulk}
Idle      == "idle"
PlayerPC  == {"guilds", "customer", "vet", "links", "assigned", "strip", "facts",
              "add", "remove", "record"}
BulkPC    == {"link", "optouts", "info", "query", "compare", "put", "store"}

(* The rule that decides now; None when there is no row, account or rule.  *)
InForce    == IF token # 0 /\ config \in Rule THEN config ELSE None
Passing(r) == {m \in Member : r \in facts[m]}
Entitled   == Passing(InForce) \ optout

(* ORDER BY discord_id LIMIT user_limit.                                   *)
First(S) == {m \in S : Cardinality({n \in S : n < m}) < Limit}

(* What the jobs under way may have seen: the window of a job opens when   *)
(* it is taken, grows with every change of the world, and closes with it.  *)
(* A job keeps the rule it has read and meets the facts later, so that a   *)
(* rule of the window counts on the facts of any later moment.             *)
MeetsOne(R) == {m \in Member : \E r \in R : r \in facts[m]}
MeetsAll(R) == {m \in Member : \A r \in R : r \in facts[m]}

WindowOpens(w) ==
    /\ rules'    = [rules EXCEPT ![w] = {InForce}]
    /\ admitted' = [admitted EXCEPT ![w] = Member \ optout]
    /\ passing'  = [passing EXCEPT ![w] = Passing(InForce)]
    /\ lapsed'   = [lapsed EXCEPT ![w] = Member \ Entitled]

WindowsGrow ==
    LET Grown(h, w, S) == IF pc[w] = Idle THEN {} ELSE h[w] \cup S IN
    /\ rules'    = [w \in Worker |-> Grown(rules, w, {InForce'})]
    /\ admitted' = [w \in Worker |-> Grown(admitted, w, Member \ optout')]
    /\ passing'  = [w \in Worker |-> Grown(passing, w, MeetsOne(rules[w])')]
    /\ lapsed'   = [w \in Worker |-> Grown(lapsed, w, Member \ (MeetsAll(rules[w])' \ optout'))]

WindowCloses(w) ==
    /\ rules'    = [rules EXCEPT ![w] = {}]
    /\ admitted' = [admitted EXCEPT ![w] = {}]
    /\ passing'  = [passing EXCEPT ![w] = {}]
    /\ lapsed'   = [lapsed EXCEPT ![w] = {}]

Init ==
    /\ account = TRUE /\ \E f \in {{}, Rule} : facts = [m \in Member |-> f]
    /\ optout = {} /\ config \in Rule \ {AnyRelation} /\ token = 1 /\ upToken = 1 /\ paused = FALSE
    /\ roles = First(Entitled) /\ mirror = roles
    /\ queue = {}
    /\ job  = [w \in Worker |-> Bulk]
    /\ pc   = [w \in Worker |-> Idle]
    /\ tok  = [w \in Worker |-> 0]
    /\ rule = [w \in Worker |-> None]
    /\ seen = [w \in Worker |-> {}]
    /\ want = [w \in Worker |-> {}]
    /\ changes = 0 /\ errors = 0 /\ torn = 0 /\ holds = 0 /\ relinks = 0
    /\ rules    = [w \in Worker |-> {}]
    /\ admitted = [w \in Worker |-> {}]
    /\ passing  = [w \in Worker |-> {}]
    /\ lapsed   = [w \in Worker |-> {}]

-----------------------------------------------------------------------------
(* The world outside the workers.                                          *)

Change ==
    /\ changes < MaxChanges /\ changes' = changes + 1
    /\ UNCHANGED <<errors, torn, holds, relinks>>

MayFault == errors + torn + holds + relinks < MaxFaults

(* Nothing of the running jobs changes but what they may have seen.        *)
Outside == WindowsGrow /\ UNCHANGED <<listVars, job, pc, tok, seen, want>>

(* Facts are recomputed and the member's player_sync is enqueued.          *)
ChangeFacts(m) ==
    /\ Change
    /\ account
    /\ \E f \in {S \in SUBSET Rule : S # {} => AnyRelation \in S} \ {facts[m]} :
         facts' = [facts EXCEPT ![m] = f]
    /\ queue' = queue \cup {m}
    /\ UNCHANGED <<account, optout, config, token, upToken, paused, rule>>
    /\ Outside

(* verify_refresh, or a Stripe event that changes nothing for the member.  *)
Refresh(m) ==
    /\ m \notin queue
    /\ queue' = queue \cup {m}
    /\ UNCHANGED <<envVars, listVars, job, pc, tok, rule, seen, want, boundVars, historyVars>>

(* The member opts out or in at the gateway: this program is not told.     *)
ChangeOptout(m) ==
    /\ Change
    /\ optout' = IF m \in optout THEN optout \ {m} ELSE optout \cup {m}
    /\ UNCHANGED <<account, facts, config, token, upToken, paused, queue, rule>>
    /\ Outside

(* role_config_save: account and rule are saved, over any other, and a     *)
(* config_sync enqueued; jobs under way keep the rule they have read.      *)
SaveRule ==
    /\ Change
    /\ token # 0
    /\ config' \in {"unbound"} \cup (IF account THEN {"empty"} \cup Rule ELSE {})
    /\ config' # config
    /\ queue' = queue \cup {Bulk}
    /\ UNCHANGED <<account, facts, optout, token, upToken, paused, rule>>
    /\ Outside

(* account_disconnect: the link is unbound and the facts cascade away for  *)
(* good: a job that has read the account's id finds none for it, whatever  *)
(* account is connected next.  No job is enqueued.                         *)
Disconnect ==
    /\ Change
    /\ account
    /\ account' = FALSE
    /\ config' = "unbound"
    /\ facts' = [m \in Member |-> {}]
    /\ rule' = [w \in Worker |-> None]
    /\ UNCHANGED <<optout, token, upToken, paused, queue>>
    /\ Outside

(* account_connect; the import brings the facts back one by one.           *)
Connect ==
    /\ Change
    /\ ~account
    /\ account' = TRUE
    /\ UNCHANGED <<facts, optout, config, token, upToken, paused, queue, rule>>
    /\ Outside

(* The owner pauses or resumes the link at RoleLogic.                      *)
Pause ==
    /\ Change
    /\ paused' = ~paused
    /\ UNCHANGED <<account, facts, optout, config, token, upToken, queue, rule>>
    /\ Outside

(* reconcile, every 6 h: the account_sync job fans out to the links bound  *)
(* to the account (sync_for_account).                                      *)
Reconcile ==
    /\ token # 0 /\ config # "unbound" /\ Bulk \notin queue
    /\ queue' = queue \cup {Bulk}
    /\ UNCHANGED <<envVars, listVars, job, pc, tok, rule, seen, want, boundVars, historyVars>>

(* DELETE FROM role_links; role_assignments cascade.                       *)
DropRow == token' = 0 /\ config' = "unbound" /\ mirror' = {}

(* The link is deleted at RoleLogic; DELETE /config reaches us or not.     *)
DeleteUpstream ==
    /\ MayFault /\ relinks' = relinks + 1
    /\ upToken # 0
    /\ upToken' = 0 /\ roles' = {}
    /\ DropRow \/ UNCHANGED <<token, config, mirror>>
    /\ UNCHANGED <<account, facts, optout, paused, jobVars, pc, changes, errors, torn, holds>>
    /\ WindowsGrow

(* The link is created again and POST /register stores its new token: the  *)
(* row, if it is still there, keeps its rule, account and assignments.     *)
Register ==
    /\ upToken = 0
    /\ upToken' = relinks + 1 /\ token' = relinks + 1
    /\ UNCHANGED <<account, facts, optout, config, paused, queue, rule, boundVars>>
    /\ Outside

-----------------------------------------------------------------------------
(* Running a job.                                                          *)

(* Mutant: a player_sync starts like a config_sync.                       *)
TakeMixed(w, j) ==
    /\ pc[w] = Idle /\ j \in queue
    /\ queue' = queue \ {j}
    /\ job' = [job EXCEPT ![w] = j]
    /\ pc' = [pc EXCEPT ![w] = "link"]
    /\ WindowOpens(w)
    /\ UNCHANGED <<envVars, listVars, tok, rule, seen, want, boundVars>>

Take(w, j) ==
    /\ pc[w] = Idle /\ j \in queue
    /\ queue' = queue \ {j}
    /\ job' = [job EXCEPT ![w] = j]
    /\ pc' = [pc EXCEPT ![w] = IF j = Bulk THEN "link" ELSE "guilds"]
    /\ WindowOpens(w)
    /\ UNCHANGED <<envVars, listVars, tok, rule, seen, want, boundVars>>

(* The job goes on with its next await.                                    *)
Await(w, l) ==
    /\ pc' = [pc EXCEPT ![w] = l]
    /\ UNCHANGED <<queue, job, boundVars, historyVars>>

Leave(w) ==
    /\ pc'   = [pc EXCEPT ![w] = Idle]
    /\ job'  = [job EXCEPT ![w] = Bulk]
    /\ tok'  = [tok EXCEPT ![w] = 0]
    /\ rule' = [rule EXCEPT ![w] = None]
    /\ seen' = [seen EXCEPT ![w] = {}]
    /\ want' = [want EXCEPT ![w] = {}]
    /\ WindowCloses(w)

(* The job returns Ok; or it returns an error, or dies with its worker.    *)
Finish(w) == Leave(w) /\ UNCHANGED queue
Retry(w)  == Leave(w) /\ queue' = queue \cup {job[w]}

Error == MayFault /\ errors' = errors + 1 /\ UNCHANGED <<changes, torn, holds, relinks>>
Torn  == MayFault /\ torn' = torn + 1 /\ UNCHANGED <<changes, errors, holds, relinks>>

(* Any await of a job may fail, or its process die, before it has effect;  *)
(* a job that has called RoleLogic leaves the mirror behind.               *)
Fail(w) ==
    /\ pc[w] # Idle
    /\ IF pc[w] \in {"record", "store"} THEN Torn ELSE Error
    /\ Retry(w)
    /\ UNCHANGED <<envVars, listVars>>

(* Mutant: a paused link is taken for one that is gone.                   *)
GoneOrPaused(w) == tok[w] # upToken \/ paused

(* "Invalid or revoked token": the job deletes the row, by guild and role. *)
Gone(w) == tok[w] # upToken

(* delete_orphan_role_link: best effort, an error is logged.               *)
DeleteOrphan(w) ==
    /\ Gone(w)
    /\ \/ DropRow /\ UNCHANGED boundVars
       \/ Error /\ UNCHANGED <<token, config, mirror>>
    /\ Finish(w)
    /\ UNCHANGED <<account, facts, optout, upToken, paused, roles>>

-----------------------------------------------------------------------------
(* sync_for_player.                                                        *)

(* The guilds the gateway knows the member to be in, without opt-outs.     *)
Guilds(w) ==
    /\ pc[w] = "guilds"
    /\ Await(w, IF job[w] \in SignedIn \ optout THEN "links" ELSE "customer")
    /\ UNCHANGED <<envVars, listVars, tok, rule, seen, want>>

(* Or the guild of an account that has facts about the member ...          *)
Customer(w) ==
    /\ pc[w] = "customer"
    /\ \/ facts[job[w]] # {} /\ Await(w, "vet") /\ UNCHANGED <<tok, rule, seen, want>>
       \/ facts[job[w]] = {} /\ Finish(w) /\ UNCHANGED boundVars
    /\ UNCHANGED <<envVars, listVars>>

(* ... unless the member has opted out there.                              *)
Vet(w) ==
    /\ pc[w] = "vet"
    /\ \/ job[w] \notin optout /\ Await(w, "links") /\ UNCHANGED <<tok, rule, seen, want>>
       \/ job[w] \in optout /\ Finish(w) /\ UNCHANGED boundVars
    /\ UNCHANGED <<envVars, listVars>>

(* The link row: a link without a rule qualifies nobody.                   *)
Links(w) ==
    /\ pc[w] = "links"
    /\ \/ token = 0 /\ Finish(w) /\ UNCHANGED boundVars
       \/ /\ token # 0
          /\ Await(w, IF config \in Rule THEN "assigned" ELSE "strip")
          /\ tok' = [tok EXCEPT ![w] = token]
          /\ rule' = [rule EXCEPT ![w] = InForce]
          /\ UNCHANGED <<seen, want>>
    /\ UNCHANGED <<envVars, listVars>>

(* Whether the mirror has the member.                                      *)
Assigned(w) ==
    LET held == mirror \cap {job[w]} IN
    /\ \/ /\ pc[w] = "assigned"
          /\ Await(w, "facts")
          /\ want' = [want EXCEPT ![w] = held]
          /\ UNCHANGED <<tok, rule, seen>>
       \/ pc[w] = "strip" /\ held # {} /\ Await(w, "remove") /\ UNCHANGED <<tok, rule, seen, want>>
       \/ pc[w] = "strip" /\ held = {} /\ Finish(w) /\ UNCHANGED boundVars
    /\ UNCHANGED <<envVars, listVars>>

(* Mutant: a database error is taken for "not a customer".                *)
DecideOrRefuse(w) ==
    LET now == Passing(rule[w]) \cap {job[w]} IN
    /\ pc[w] = "facts"
    /\ \/ /\ now # want[w]
          /\ Await(w, IF now = {} THEN "remove" ELSE "add")
          /\ want' = [want EXCEPT ![w] = now]
          /\ UNCHANGED <<tok, rule, seen>>
       \/ /\ want[w] # {} /\ Error
          /\ pc' = [pc EXCEPT ![w] = "remove"]
          /\ want' = [want EXCEPT ![w] = {}]
          /\ UNCHANGED <<queue, job, tok, rule, seen, historyVars>>
       \/ now = want[w] /\ Finish(w) /\ UNCHANGED boundVars
    /\ UNCHANGED <<envVars, listVars>>

(* The facts of now decide, by the rule that Links has read; want[w] is    *)
(* what the mirror had.                                                    *)
Decide(w) ==
    LET now == Passing(rule[w]) \cap {job[w]} IN
    /\ pc[w] = "facts"
    /\ \/ /\ now # want[w]
          /\ Await(w, IF now = {} THEN "remove" ELSE "add")
          /\ want' = [want EXCEPT ![w] = now]
          /\ UNCHANGED <<tok, rule, seen>>
       \/ now = want[w] /\ Finish(w) /\ UNCHANGED boundVars
    /\ UNCHANGED <<envVars, listVars>>

(* A member call that RoleLogic accepts; its answer may be lost.           *)
Accepted(w) ==
    \/ Await(w, "record") /\ UNCHANGED <<tok, rule, seen, want>>
    \/ Torn /\ Finish(w)

(* add_user and remove_user: any error but "gone" is logged, and the job   *)
(* returns Ok.                                                             *)
Add(w) ==
    LET full == Cardinality(roles \cup {job[w]}) > Limit IN
    /\ pc[w] = "add"
    /\ \/ DeleteOrphan(w)
       \/ /\ ~Gone(w)
          /\ \/ (paused \/ full) /\ Finish(w) /\ UNCHANGED <<roles, boundVars>>
             \/ Error /\ Finish(w) /\ UNCHANGED roles
             \/ ~paused /\ ~full /\ roles' = roles \cup {job[w]} /\ Accepted(w)
          /\ UNCHANGED <<envVars, mirror>>

Remove(w) ==
    /\ pc[w] = "remove"
    /\ \/ DeleteOrphan(w)
       \/ /\ ~Gone(w)
          /\ \/ paused /\ Finish(w) /\ UNCHANGED <<roles, boundVars>>
             \/ Error /\ Finish(w) /\ UNCHANGED roles
             \/ ~paused /\ roles' = roles \ {job[w]} /\ Accepted(w)
          /\ UNCHANGED <<envVars, mirror>>

(* INSERT or DELETE in role_assignments; an error, also the foreign key's  *)
(* when the row is gone, is dropped.                                       *)
Record(w) ==
    /\ pc[w] = "record"
    /\ \/ /\ mirror' = IF want[w] = {} THEN mirror \ {job[w]}
                       ELSE IF token # 0 THEN mirror \cup {job[w]} ELSE mirror
          /\ UNCHANGED boundVars
       \/ Torn /\ UNCHANGED mirror
    /\ Finish(w)
    /\ UNCHANGED <<envVars, roles>>

-----------------------------------------------------------------------------
(* sync_for_role_link; drain_to_empty wants nobody and skips to "compare". *)

Read(w) ==
    /\ pc[w] = "link"
    /\ \/ token = 0 /\ Finish(w) /\ UNCHANGED boundVars
       \/ /\ token # 0
          /\ Await(w, IF config \in Rule THEN "optouts" ELSE "compare")
          /\ tok' = [tok EXCEPT ![w] = token]
          /\ rule' = [rule EXCEPT ![w] = InForce]
          /\ UNCHANGED <<seen, want>>
    /\ UNCHANGED <<envVars, listVars>>

(* Mutant: a gateway error is taken for "nobody opted out".               *)
OptoutsOrNone(w) ==
    /\ pc[w] = "optouts"
    /\ pc' = [pc EXCEPT ![w] = "info"]
    /\ \/ seen' = [seen EXCEPT ![w] = optout] /\ UNCHANGED boundVars
       \/ Error /\ UNCHANGED seen
    /\ UNCHANGED <<envVars, listVars, queue, job, tok, rule, want, historyVars>>

Optouts(w) ==
    /\ pc[w] = "optouts"
    /\ Await(w, "info")
    /\ seen' = [seen EXCEPT ![w] = optout]
    /\ UNCHANGED <<envVars, listVars, tok, rule, want>>

(* get_user_info: is the link there and active?                            *)
Info(w) ==
    /\ pc[w] = "info"
    /\ \/ DeleteOrphan(w)
       \/ /\ ~Gone(w)
          /\ \/ paused /\ Finish(w) /\ UNCHANGED boundVars
             \/ ~paused /\ Await(w, "query") /\ UNCHANGED <<tok, rule, seen, want>>
          /\ UNCHANGED <<envVars, listVars>>

(* Mutant: a LIMIT without ORDER BY.                                      *)
QueryAnyOrder(w) ==
    /\ pc[w] = "query"
    /\ Await(w, "compare")
    /\ \E S \in SUBSET (Passing(rule[w]) \ seen[w]) :
         /\ Cardinality(S) = Cardinality(First(Passing(rule[w]) \ seen[w]))
         /\ want' = [want EXCEPT ![w] = S]
    /\ UNCHANGED <<envVars, listVars, tok, rule, seen>>

(* The facts of now, by the rule that Read has read.                       *)
Query(w) ==
    /\ pc[w] = "query"
    /\ Await(w, "compare")
    /\ want' = [want EXCEPT ![w] = First(Passing(rule[w]) \ seen[w])]
    /\ UNCHANGED <<envVars, listVars, tok, rule, seen>>

(* Mutant: nothing to add is taken for nothing to do.                     *)
CompareMissing(w) ==
    /\ pc[w] = "compare"
    /\ \/ want[w] \subseteq mirror /\ Finish(w) /\ UNCHANGED boundVars
       \/ ~(want[w] \subseteq mirror) /\ Await(w, "put") /\ UNCHANGED <<tok, rule, seen, want>>
    /\ UNCHANGED <<envVars, listVars>>

Compare(w) ==
    /\ pc[w] = "compare"
    /\ \/ mirror = want[w] /\ Finish(w) /\ UNCHANGED boundVars
       \/ mirror # want[w] /\ Await(w, "put") /\ UNCHANGED <<tok, rule, seen, want>>
    /\ UNCHANGED <<envVars, listVars>>

(* recheck_held: a delayed config_sync unless one is pending.              *)
Held(w) ==
    /\ MayFault /\ holds' = holds + 1
    /\ roles \ want[w] # {}
    /\ Leave(w) /\ queue' = queue \cup {Bulk}
    /\ UNCHANGED <<roles, changes, errors, torn, relinks>>

(* upload_users replaces the whole list; its answer may be lost.           *)
Replaced(w) ==
    /\ roles' = want[w]
    /\ \/ Await(w, "store") /\ UNCHANGED <<tok, rule, seen, want>>
       \/ Torn /\ Retry(w)

Put(w) ==
    /\ pc[w] = "put"
    /\ \/ DeleteOrphan(w)
       \/ /\ ~Gone(w)
          /\ \/ paused /\ Finish(w) /\ UNCHANGED <<roles, boundVars>>
             \/ ~paused /\ (Held(w) \/ Replaced(w))
          /\ UNCHANGED <<envVars, mirror>>

(* Mutant: the transaction forgets to delete the old assignments.         *)
StoreAppending(w) ==
    LET orphaned == token = 0 /\ want[w] # {} IN
    /\ pc[w] = "store"
    /\ \/ ~orphaned /\ mirror' = mirror \cup want[w] /\ Finish(w)
       \/ orphaned /\ Retry(w) /\ UNCHANGED mirror
    /\ UNCHANGED <<envVars, roles, boundVars>>

(* The transaction that replaces role_assignments; an insert for a link    *)
(* row that is gone breaks the foreign key.                                *)
Store(w) ==
    LET orphaned == token = 0 /\ want[w] # {} IN
    /\ pc[w] = "store"
    /\ \/ ~orphaned /\ mirror' = want[w] /\ Finish(w)
       \/ orphaned /\ Retry(w) /\ UNCHANGED mirror
    /\ UNCHANGED <<envVars, roles, boundVars>>

-----------------------------------------------------------------------------

Step(w) ==
    \/ Guilds(w) \/ Customer(w) \/ Vet(w) \/ Links(w) \/ Assigned(w) \/ Decide(w)
    \/ Add(w) \/ Remove(w) \/ Record(w)
    \/ Read(w) \/ Optouts(w) \/ Info(w) \/ Query(w) \/ Compare(w) \/ Put(w) \/ Store(w)

World ==
    \/ \E m \in Member : ChangeFacts(m) \/ Refresh(m) \/ ChangeOptout(m)
    \/ SaveRule \/ Disconnect \/ Connect \/ Pause \/ Reconcile \/ DeleteUpstream \/ Register

Next ==
    \/ World
    \/ \E w \in Worker : Step(w) \/ Fail(w) \/ \E j \in Jobs : Take(w, j)

Spec == Init /\ [][Next]_vars

(* Workers keep polling and every await returns (each call has a timeout); *)
(* reconcile fires every six hours.  A queued job is not starved: claims   *)
(* take the oldest row first (JobQueue).                                   *)
Fairness ==
    /\ \A w \in Worker : WF_vars(Step(w))
    /\ \A j \in Jobs : SF_vars(\E w \in Worker : Take(w, j))
    /\ WF_vars(Reconcile)

FairSpec == Spec /\ Fairness

-----------------------------------------------------------------------------
(* Properties.                                                             *)

(* Every variable has its type; a worker is at an await of its kind of     *)
(* job, and an idle one has kept nothing of its last job.                  *)
TypeOK ==
    /\ account \in BOOLEAN /\ paused \in BOOLEAN
    /\ facts \in [Member -> SUBSET Rule]
    /\ optout \subseteq Member /\ config \in {"unbound", "empty"} \cup Rule
    /\ token \in Nat /\ upToken \in Nat
    /\ roles \subseteq Member /\ mirror \subseteq Member /\ queue \subseteq Jobs
    /\ job \in [Worker -> Jobs] /\ pc \in [Worker -> PlayerPC \cup BulkPC \cup {Idle}]
    /\ tok \in [Worker -> Nat] /\ rule \in [Worker -> Rule \cup {None}]
    /\ seen \in [Worker -> SUBSET Member] /\ want \in [Worker -> SUBSET Member]
    /\ changes \in Nat /\ errors \in Nat /\ torn \in Nat /\ holds \in Nat /\ relinks \in Nat
    /\ rules \in [Worker -> SUBSET (Rule \cup {None})]
    /\ admitted \in [Worker -> SUBSET Member]
    /\ passing \in [Worker -> SUBSET Member]
    /\ lapsed \in [Worker -> SUBSET Member]
    /\ \A w \in Worker :
         /\ pc[w] \in PlayerPC <=> job[w] \in Member
         /\ pc[w] = Idle => tok[w] = 0 /\ rule[w] = None /\ seen[w] = {} /\ want[w] = {}

(* A member gets the role only from a job during which the member had not  *)
(* opted out, and met a rule that was in force at that moment or earlier   *)
(* in the job: a job decides by the rule it has read, on later facts       *)
(* (services/sync.rs:382-421, 524-598), but no stale list, gateway error,  *)
(* retry or new token grants to anybody else (auth_gateway.rs:71-73).      *)
GrantsAreJustified ==
    [][\A m \in roles' \ roles :
         \E w \in Worker : pc'[w] # pc[w] /\ m \in admitted[w] \cap passing[w]]_vars

(* A member loses the role only to a job during which the member had opted *)
(* out, the link had no rule, or the member did not meet a rule in force   *)
(* at that moment or earlier in the job; or to a full list: no gateway or  *)
(* database error clears anybody's role (auth_gateway.rs:8-11).  Deleting  *)
(* the link at RoleLogic takes all of them.                                *)
RevocationsAreJustified ==
    [][upToken' = upToken =>
         \A m \in roles \ roles' :
            \/ \E w \in Worker : pc'[w] # pc[w] /\ m \in lapsed[w]
            \/ Cardinality(roles') >= Limit]_vars

(* However the awaits of any jobs interleave and fail, each changes the    *)
(* list at RoleLogic only by calls that what it has seen since it began    *)
(* justifies, on a link that is there, within the limit and in the order   *)
(* of the members (services/sync.rs:4-7, auth_gateway.rs:8-11).            *)
Promise == INSTANCE RoleList WITH
    list <- roles, link <- upToken # 0, rule <- InForce,
    admits <- Member \ optout, meets <- facts,
    running <- {w \in Worker : pc[w] # Idle}
ImplementsRoleList == Promise!Spec

Quiet == \A w \in Worker : pc[w] = Idle

(* Between jobs the mirror is exactly what RoleLogic has, when one worker  *)
(* runs the jobs, no call goes unrecorded and the link is not re-created.  *)
MirrorIsExact == Quiet /\ torn = 0 /\ relinks = 0 => mirror = roles

Live == token # 0 /\ token = upToken /\ config # "unbound" /\ ~paused

(* Once the world stops changing, the members with the role are exactly    *)
(* the entitled ones, as many as the limit allows: retries and reconcile   *)
(* make up for opt-outs nobody told us of, failed calls, holds and pauses  *)
(* (but not for a call that went unrecorded, or a list lost unnoticed).    *)
Converges == <>[](Live /\ torn = 0 /\ relinks = 0 => roles = First(Entitled))

(* The row of a link whose token RoleLogic accepts is deleted by a job     *)
(* only if that job has read an earlier token, before POST /register       *)
(* replaced it (services/sync.rs:725 "Delete a role_link the RoleLogic API *)
(* reports as gone"): neither a pause nor an error nor a hold drops a row. *)
LiveRowsFallToOldTokens ==
    [][token # 0 /\ token = upToken /\ token' = 0 /\ upToken' = upToken =>
         \E w \in Worker : pc'[w] # pc[w] /\ tok[w] \in 1..(token - 1)]_vars

(* 001_initial_schema.sql:37 "local mirror of who currently has which      *)
(* Discord role": a mirror that has gone wrong is right again some day.    *)
DriftHeals == <>[](Live => mirror = roles)

=============================================================================
