------------------------------ MODULE SyncRequests ------------------------------
(***************************************************************************)
(* How a change becomes a run of config_sync: the enqueue helpers of       *)
(* services/jobs.rs with their NOT EXISTS checks, the fan-out of           *)
(* sync_for_account and the re-check of a write that RoleLogic holds       *)
(* (services/sync.rs), and the rows they share.  An import asks for an     *)
(* account_sync, a saved rule for a config_sync of its link.               *)
(*                                                                         *)
(* Changes of one account's data and of its links' rules are numbered by   *)
(* one stamp.  What a run sends is in RoleSync, how rows are claimed and   *)
(* written back in JobQueue: here a run is what it has read, and all that  *)
(* can happen to its row.  A row that is finished is free.                 *)
(***************************************************************************)
EXTENDS Integers, FiniteSets

CONSTANTS
    Link,        \* role links of the account
    Account,     \* target of an account_sync row, and of an import's request
    None,        \* no target
    Row,         \* bound: rows that are not finished
    Requester,   \* requests of imports and saves at work at the same time
    MaxAttempts, \* max_attempts
    MaxStamp     \* bound: changes

ASSUME RequestsAssumption ==
    /\ Account \notin Link /\ None \notin Link \cup {Account}
    /\ MaxAttempts \in Nat \ {0} /\ MaxStamp \in Nat

VARIABLES
    stamp,    \* the last change that is committed
    bound,    \* links bound to the account
    asker,    \* asker[r]: what a request wants, for which change, and where it is
    target,   \* target[j]: kind and payload of row j
    status,   \* status[j], the column; in progress: what its run has done so far
    due,      \* due[j]: next_run_at <= now(), while the row is pending
    attempts, \* attempts[j], the column, counted up to MaxAttempts
    todo,     \* todo[j]: links the fan-out has read and still has to enqueue
    read,     \* read[j]: the changes that config_sync run has seen
    asked,    \* history: asked[l]: the last change a sync of l was asked for
    synced    \* history: synced[l]: the last change a sync of l got through

rowVars == <<target, status, due, attempts, todo, read>>
vars    == <<stamp, bound, asker, rowVars, asked, synced>>

(* "free": no row; "claimed": in a worker's batch; "begun": the run has    *)
(* read what it works on; "held": RoleLogic holds the write; "over": the   *)
(* run has returned Ok and its result is not written.                      *)
InProgress == {"claimed", "begun", "held", "over"}
Status     == {"free", "pending"} \cup InProgress
Later(a, b) == IF a < b THEN b ELSE a

Idle == [target |-> None, change |-> 0, pc |-> "idle"]

Init ==
    /\ stamp = 0 /\ bound \in SUBSET Link
    /\ asker = [r \in Requester |-> Idle]
    /\ target = [j \in Row |-> None] /\ status = [j \in Row |-> "free"]
    /\ due = [j \in Row |-> FALSE] /\ attempts = [j \in Row |-> 0]
    /\ todo = [j \in Row |-> {}] /\ read = [j \in Row |-> 0]
    /\ asked = [l \in Link |-> 0] /\ synced = [l \in Link |-> 0]

-----------------------------------------------------------------------------
(* enqueue: the INSERT of a row.                                           *)
Insert(j, t, now) ==
    /\ status[j] = "free"
    /\ target' = [target EXCEPT ![j] = t]
    /\ status' = [status EXCEPT ![j] = "pending"]
    /\ due' = [due EXCEPT ![j] = now]
    /\ attempts' = [attempts EXCEPT ![j] = 0]

(* Mutant: a row that a worker has taken still counts as queued.           *)
QueuedOrRunning(t) == \E j \in Row : target[j] = t /\ status[j] # "free"

(* What the NOT EXISTS of the helpers looks for.                           *)
Queued(t) == \E j \in Row : target[j] = t /\ status[j] = "pending"

-----------------------------------------------------------------------------
(* Requests: a change is committed, then a job is asked for; the import's  *)
(* helper looks first, and two of them may look before either inserts.     *)
Change(r, t) ==
    /\ asker[r].pc = "idle" /\ stamp < MaxStamp
    /\ stamp' = stamp + 1
    /\ asker' = [asker EXCEPT ![r] = [target |-> t, change |-> stamp + 1,
                                      pc |-> IF t = Account THEN "look" ELSE "insert"]]
    /\ UNCHANGED <<rowVars, asked, synced>>

Import(r)  == Change(r, Account) /\ UNCHANGED bound
Save(r, l) == Change(r, l) /\ bound' = bound \cup {l}

(* The request has returned Ok: who waits for which change.                *)
Ask(r) ==
    /\ asked' = [l \in Link |-> IF asker[r].target = l \/ (asker[r].target = Account /\ l \in bound)
                                  THEN Later(asked[l], asker[r].change) ELSE asked[l]]
    /\ asker' = [asker EXCEPT ![r] = Idle]

Look(r) ==
    /\ asker[r].pc = "look"
    /\ IF Queued(Account)
         THEN Ask(r)
         ELSE asker' = [asker EXCEPT ![r].pc = "insert"] /\ UNCHANGED asked
    /\ UNCHANGED <<stamp, bound, rowVars, synced>>

(* account_sync may run at once, config_sync 5 s later.                    *)
Request(r) ==
    /\ asker[r].pc = "insert"
    /\ \E j \in Row : Insert(j, asker[r].target, asker[r].target = Account)
    /\ Ask(r)
    /\ UNCHANGED <<stamp, bound, todo, read, synced>>

(* The enqueue fails, or its process dies before it.                       *)
NotAsked(r) ==
    /\ asker[r].pc # "idle"
    /\ asker' = [asker EXCEPT ![r] = Idle]
    /\ UNCHANGED <<stamp, bound, rowVars, asked, synced>>

-----------------------------------------------------------------------------
(* Rows.                                                                   *)

Goto(j, s) == status' = [status EXCEPT ![j] = s]

Mature(j) ==
    /\ status[j] = "pending" /\ ~due[j]
    /\ due' = [due EXCEPT ![j] = TRUE]
    /\ UNCHANGED <<stamp, bound, asker, target, status, attempts, todo, read, asked, synced>>

Claim(j) ==
    /\ status[j] = "pending" /\ due[j] /\ Goto(j, "claimed")
    /\ due' = [due EXCEPT ![j] = FALSE]
    /\ attempts' = [attempts EXCEPT ![j] = IF @ < MaxAttempts THEN @ + 1 ELSE @]
    /\ UNCHANGED <<stamp, bound, asker, target, todo, read, asked, synced>>

(* Mutant: the fan-out reads the links of every account.                   *)
BeginUnbound(j) ==
    /\ status[j] = "claimed" /\ Goto(j, "begun")
    /\ IF target[j] = Account
         THEN todo' = [todo EXCEPT ![j] = Link] /\ UNCHANGED read
         ELSE read' = [read EXCEPT ![j] = stamp] /\ UNCHANGED todo
    /\ UNCHANGED <<stamp, bound, asker, target, due, attempts, asked, synced>>

(* Dispatch: sync_for_account reads the bound links, sync_for_role_link    *)
(* the link, its rule and the account's facts.                             *)
Begin(j) ==
    /\ status[j] = "claimed" /\ Goto(j, "begun")
    /\ IF target[j] = Account
         THEN todo' = [todo EXCEPT ![j] = bound] /\ UNCHANGED read
         ELSE read' = [read EXCEPT ![j] = stamp] /\ UNCHANGED todo
    /\ UNCHANGED <<stamp, bound, asker, target, due, attempts, asked, synced>>

FanOut(j, l) ==
    /\ target[j] = Account /\ status[j] = "begun" /\ l \in todo[j]
    /\ todo' = [todo EXCEPT ![j] = @ \ {l}]
    /\ \E i \in Row : Insert(i, l, FALSE)
    /\ UNCHANGED <<stamp, bound, asker, read, asked, synced>>

FannedOut(j) ==
    /\ target[j] = Account /\ status[j] = "begun" /\ todo[j] = {}
    /\ Goto(j, "over")
    /\ UNCHANGED <<stamp, bound, asker, target, due, attempts, todo, read, asked, synced>>

(* A config_sync has nothing to send, or RoleLogic has taken its list.     *)
Sync(j) ==
    /\ target[j] \in Link /\ status[j] = "begun" /\ Goto(j, "over")
    /\ synced' = [synced EXCEPT ![target[j]] = Later(@, read[j])]
    /\ UNCHANGED <<stamp, bound, asker, target, due, attempts, todo, read, asked>>

Hold(j) ==
    /\ target[j] \in Link /\ status[j] = "begun" /\ Goto(j, "held")
    /\ UNCHANGED <<stamp, bound, asker, target, due, attempts, todo, read, asked, synced>>

(* recheck_held: enqueue_config_sync_unless_queued in 20 minutes.          *)
Recheck(j) ==
    /\ status[j] = "held"
    /\ IF Queued(target[j])
         THEN Goto(j, "over") /\ UNCHANGED <<target, due, attempts>>
         ELSE \E i \in Row :
                /\ status[i] = "free"
                /\ target' = [target EXCEPT ![i] = target[j]]
                /\ status' = [status EXCEPT ![i] = "pending", ![j] = "over"]
                /\ due' = [due EXCEPT ![i] = FALSE]
                /\ attempts' = [attempts EXCEPT ![i] = 0]
    /\ UNCHANGED <<stamp, bound, asker, todo, read, asked, synced>>

Free(j) ==
    /\ Goto(j, "free")
    /\ target' = [target EXCEPT ![j] = None] /\ due' = [due EXCEPT ![j] = FALSE]
    /\ attempts' = [attempts EXCEPT ![j] = 0]
    /\ todo' = [todo EXCEPT ![j] = {}] /\ read' = [read EXCEPT ![j] = 0]
    /\ UNCHANGED <<stamp, bound, asker, synced>>

Complete(j) == status[j] = "over" /\ Free(j) /\ UNCHANGED asked

Pend(j, now) ==
    /\ Goto(j, "pending") /\ due' = [due EXCEPT ![j] = now]
    /\ todo' = [todo EXCEPT ![j] = {}] /\ read' = [read EXCEPT ![j] = 0]
    /\ UNCHANGED <<stamp, bound, asker, target, attempts, asked, synced>>

(* The run returns Err: it is tried again, or the row is dead after its    *)
(* last attempt or an error that is final (RoleLogic's, so of a link), and *)
(* what was asked of it is given up.                                       *)
Fail(j) ==
    /\ status[j] \in {"begun", "held"}
    /\ \/ attempts[j] < MaxAttempts /\ Pend(j, FALSE)
       \/ /\ (attempts[j] = MaxAttempts \/ target[j] \in Link) /\ Free(j)
          /\ asked' = [l \in Link |-> IF target[j] \in {l, Account} THEN 0 ELSE asked[l]]

(* The worker dies and the row is reaped, or a shutdown releases it.       *)
Return(j) == \/ status[j] \in InProgress /\ Pend(j, TRUE)
             \/ status[j] = "claimed" /\ Pend(j, FALSE)

-----------------------------------------------------------------------------
RequestStep == \E r \in Requester : \/ Import(r) \/ Look(r) \/ Request(r) \/ NotAsked(r)
                                    \/ \E l \in Link : Save(r, l)
Run(j) == \/ FannedOut(j) \/ Sync(j) \/ Hold(j) \/ Recheck(j) \/ Fail(j)
          \/ \E l \in Link : FanOut(j, l)
RowStep == \E j \in Row : Mature(j) \/ Claim(j) \/ Begin(j) \/ Run(j) \/ Complete(j) \/ Return(j)

Next == RequestStep \/ RowStep
Spec == Init /\ [][Next]_vars

(* The clock goes on, workers keep claiming, and a run comes to its end.   *)
Fairness == \A j \in Row : WF_vars(Mature(j)) /\ WF_vars(Claim(j)) /\ WF_vars(Begin(j))
                           /\ WF_vars(Run(j)) /\ WF_vars(Complete(j))
FairSpec == Spec /\ Fairness

-----------------------------------------------------------------------------
(* Properties.                                                             *)

(* Types; a request or a row concerns links that are bound.                *)
TypeOK ==
    /\ stamp \in 0..MaxStamp /\ bound \subseteq Link
    /\ asker \in [Requester -> [target : Link \cup {Account, None}, change : 0..MaxStamp,
                                pc : {"idle", "look", "insert"}]]
    /\ target \in [Row -> bound \cup {Account, None}] /\ status \in [Row -> Status]
    /\ due \in [Row -> BOOLEAN] /\ attempts \in [Row -> 0..MaxAttempts]
    /\ todo \in [Row -> SUBSET bound] /\ read \in [Row -> 0..MaxStamp]
    /\ asked \in [Link -> 0..MaxStamp] /\ synced \in [Link -> 0..MaxStamp]

(* Row j will still make a run of link l that sees the change n.           *)
Serves(j, l, n) ==
    \/ target[j] \in {l, Account} /\ status[j] \in {"pending", "claimed"}
    \/ target[j] = l /\ status[j] \in {"begun", "held"} /\ n <= read[j]
    \/ target[j] = Account /\ status[j] = "begun" /\ l \in todo[j]

(* No request is swallowed: as long as no sync has got through that saw    *)
(* the change a link's sync was asked for, a row is there whose run will   *)
(* see it, whatever the helpers found queued, whichever runs fail, are     *)
(* held, are reaped or released, and however requests and runs interleave. *)
NoRequestIsSwallowed ==
    \A l \in Link : asked[l] <= synced[l] \/ \E j \in Row : Serves(j, l, asked[l])

(* A held write is looked at again and again until it gets through (the    *)
(* comment at HELD_RECHECK_SECS): once workers are not killed any more, a  *)
(* run of a link with a change to send is always still to come.            *)
WorkersStayUp == <>[][\A j \in Row : ~Return(j)]_vars
HeldIsLookedAtAgain == WorkersStayUp =>
    \A l \in Link : []<>(\/ asked[l] <= synced[l]
                         \/ \E j \in Row : target[j] = l /\ status[j] \in {"begun", "held"})

=============================================================================
