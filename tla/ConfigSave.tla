----------------------------- MODULE ConfigSave -----------------------------
(* One role link's configuration: the tabs of its editor                   *)
(* (templates/role_config.html), the save with its optimistic lock         *)
(* (role_config_save), connecting and disconnecting Stripe accounts        *)
(* (routes/admin.rs), RoleLogic's register and DELETE /config              *)
(* (routes/plugin.rs), and the config_sync job that a save enqueues, or    *)
(* the sync of an account (sync_for_account in services/sync.rs).  A save  *)
(* is a request of several statements; everything else may happen between  *)
(* any two of them, and the request may end at any of them.  Rules are     *)
(* opaque (RuleEval looks inside).                                         *)
EXTENDS Integers

CONSTANTS
    Tab,         \* the editor's tabs
    Account,     \* ids of stripe_accounts; an id is never used again
    Rule,        \* the rule trees that parse_rule_tree accepts
    NoAccount,   \* NULL
    NoRule,      \* the empty rule tree of a new row
    MaxVersion,  \* bound on the rule_tree_version at which a save begins
    MaxDeletes,  \* bound on deletions of the link
    MaxFailures  \* bound on statements that fail, requests that are dropped and
                 \* answers that are lost

ASSUME ConfigAssumption ==
    /\ NoAccount \notin Account /\ NoRule \notin Rule
    /\ MaxVersion \in Nat \ {0} /\ MaxDeletes \in Nat /\ MaxFailures \in Nat

VARIABLES
    link,      \* the row of role_links; born counts its incarnations
    connected, \* the rows of stripe_accounts
    retired,   \* the ids of deleted rows
    config,    \* config[t]: what the tab last had from the server
    edit,      \* edit[t]: what its form shows
    version,   \* version[t]: the rule_tree_version it will send
    pc,        \* pc[t]: the statement its save is at; "idle": no save
    answer,    \* answer[t]: the version its save will be answered with
    queued,    \* whether a config_sync is pending
    synced,    \* the configuration the last config_sync read
    basis,     \* history: the incarnation and version the tab has seen
    misread,   \* history: tabs that were told the version of a later save
    late,      \* history: accounts bound by a save after they were deleted
    unsent,    \* history: the save that wrote the link last has ended without a
               \* config_sync, and none was enqueued since
    failures   \* how many there were

tabVars == <<config, edit, version, basis, misread>>
saveVars == <<pc, answer, failures>>
syncVars == <<queued, synced, unsent>>
vars == <<link, connected, retired, tabVars, saveVars, syncVars, late>>

Config == [account : Account \cup {NoAccount}, rule : Rule \cup {NoRule}]
Blank  == [account |-> NoAccount, rule |-> NoRule]
Content == [account |-> link.account, rule |-> link.rule]
Seen == [born |-> link.born, version |-> link.version]
Unread == [born |-> 0, version |-> 0]
LinkRow == [here : BOOLEAN, born : Nat, version : Nat, account : Account \cup {NoAccount},
            rule : Rule \cup {NoRule}]
Statements == {"check", "update", "why", "reread", "enqueue"}

Init ==
    /\ link = [here |-> TRUE, born |-> 1, version |-> 1, account |-> NoAccount, rule |-> NoRule]
    /\ connected = {} /\ retired = {}
    /\ config = [t \in Tab |-> Blank] /\ edit = [t \in Tab |-> Blank]
    /\ version = [t \in Tab |-> 1] /\ pc = [t \in Tab |-> "idle"]
    /\ answer = [t \in Tab |-> Unread]
    /\ queued = FALSE /\ synced = Blank /\ unsent = FALSE
    /\ basis = [t \in Tab |-> Seen] /\ misread = {} /\ late = {} /\ failures = 0

(* ------------------------------- the tab ------------------------------- *)

Dirty(t) == edit[t] # config[t]

(* role_config_data: the row in one SELECT.                                *)
TakeFromServer(t) ==
    /\ config' = [config EXCEPT ![t] = Content]
    /\ edit' = [edit EXCEPT ![t] = Content]
    /\ version' = [version EXCEPT ![t] = link.version]
    /\ basis' = [basis EXCEPT ![t] = Seen]
    /\ misread' = misread \ {t}

Reload(t) ==
    /\ pc[t] = "idle" /\ link.here
    /\ TakeFromServer(t)
    /\ UNCHANGED <<link, connected, retired, saveVars, syncVars, late>>

(* refreshFromServer, on focus: a dirty form is left alone, and so is one  *)
(* whose configuration is still the server's, with its version.            *)
Refresh(t) ==
    /\ pc[t] = "idle" /\ link.here
    /\ ~Dirty(t) /\ Content # config[t]
    /\ TakeFromServer(t)
    /\ UNCHANGED <<link, connected, retired, saveVars, syncVars, late>>

(* The admin picks one of the guild's accounts and a rule.                 *)
Edit(t) ==
    /\ pc[t] = "idle"
    /\ \E a \in connected, r \in Rule : edit' = [edit EXCEPT ![t] = [account |-> a, rule |-> r]]
    /\ UNCHANGED <<link, connected, retired, config, version, basis, misread, saveVars, syncVars,
                   late>>

(* doSave: the button is enabled when the form is dirty, and refuses       *)
(* without an account.                                                     *)
DoSave(t) ==
    /\ pc[t] = "idle" /\ Dirty(t) /\ edit[t].account # NoAccount
    /\ link.version < MaxVersion
    /\ pc' = [pc EXCEPT ![t] = "check"]
    /\ UNCHANGED <<link, connected, retired, tabVars, answer, syncVars, late, failures>>

(* --------------------------- role_config_save -------------------------- *)

Goto(t, s) == pc' = [pc EXCEPT ![t] = s]

(* The account must be connected; a refusal leaves the form as it is.      *)
CheckAccount(t) ==
    /\ pc[t] = "check"
    /\ Goto(t, IF edit[t].account \in connected THEN "update" ELSE "idle")
    /\ UNCHANGED <<link, connected, retired, tabVars, answer, syncVars, late, failures>>

(* Mutant: the UPDATE does not compare versions.                           *)
MatchesAny(t) == link.here

Matches(t) == link.here /\ link.version = version[t]

Bind(t) ==
    /\ link' = [link EXCEPT !.account = edit[t].account, !.rule = edit[t].rule,
                            !.version = @ + 1]
    /\ unsent' = FALSE
    /\ late' = IF edit[t].account \in connected THEN late ELSE late \cup {edit[t].account}
    /\ basis' = [basis EXCEPT ![t] = [born |-> link.born, version |-> link.version + 1]]

UpdateLink(t) ==
    /\ pc[t] = "update"
    /\ IF Matches(t)
       THEN Bind(t) /\ Goto(t, "reread")
       ELSE Goto(t, "why") /\ UNCHANGED <<link, late, basis, unsent>>
    /\ UNCHANGED <<connected, retired, config, edit, version, misread, answer, queued, synced,
                   failures>>

(* No row was updated: 404 or 409, and the form stays dirty.               *)
Why(t) ==
    /\ pc[t] = "why"
    /\ Goto(t, "idle")
    /\ UNCHANGED <<link, connected, retired, tabVars, answer, syncVars, late, failures>>

(* The version is read by a statement of its own; without a row it fails.  *)
Reread(t) ==
    /\ pc[t] = "reread"
    /\ IF link.here
       THEN answer' = [answer EXCEPT ![t] = Seen] /\ Goto(t, "enqueue")
       ELSE Goto(t, "idle") /\ UNCHANGED answer
    /\ UNCHANGED <<link, connected, retired, tabVars, syncVars, late, failures>>

MayFail == failures < MaxFailures /\ failures' = failures + 1

(* The link stands as save t left it.                                      *)
WroteLast(t) == pc[t] \in {"reread", "enqueue"} /\ basis[t] = Seen

(* The tab's form is clean, and its next save will send the version.       *)
Answer(t) ==
    /\ config' = [config EXCEPT ![t] = edit[t]]
    /\ version' = [version EXCEPT ![t] = answer[t].version]
    /\ misread' = IF answer[t] = basis[t] THEN misread \ {t} ELSE misread \cup {t}
    /\ UNCHANGED <<edit, basis>>

(* enqueue_config_sync, whose failure is only logged, and the answer.      *)
Enqueue(t) ==
    /\ pc[t] = "enqueue"
    /\ \/ queued' = TRUE /\ unsent' = FALSE /\ Answer(t) /\ UNCHANGED failures
       \/ queued' = TRUE /\ unsent' = FALSE /\ UNCHANGED tabVars /\ MayFail
       \/ UNCHANGED queued /\ unsent' = (unsent \/ WroteLast(t)) /\ Answer(t) /\ MayFail
    /\ Goto(t, "idle") /\ answer' = [answer EXCEPT ![t] = Unread]
    /\ UNCHANGED <<link, connected, retired, synced, late>>

(* A statement fails (500), or the connection or the process goes away and *)
(* the request with it: what is committed stays, and the form dirty.       *)
Break(t) ==
    /\ pc[t] # "idle" /\ MayFail
    /\ unsent' = (unsent \/ WroteLast(t))
    /\ Goto(t, "idle") /\ answer' = [answer EXCEPT ![t] = Unread]
    /\ UNCHANGED <<link, connected, retired, tabVars, queued, synced, late>>

(* ------------------------------ the others ----------------------------- *)

(* Mutant: an id is used again.                                            *)
AccountConnectAgain(a) ==
    /\ a \notin connected
    /\ connected' = connected \cup {a}
    /\ UNCHANGED <<link, retired, tabVars, saveVars, syncVars, late>>

(* account_connect: a new row; the upsert of a connected one keeps its id. *)
AccountConnect(a) ==
    /\ a \notin connected \cup retired
    /\ connected' = connected \cup {a}
    /\ UNCHANGED <<link, retired, tabVars, saveVars, syncVars, late>>

(* Mutant: the links are not unbound.                                      *)
AccountDisconnectOnly(a) ==
    /\ a \in connected
    /\ connected' = connected \ {a} /\ retired' = retired \cup {a}
    /\ UNCHANGED <<link, tabVars, saveVars, syncVars, late>>

(* account_disconnect: one transaction, and no config_sync.                *)
AccountDisconnect(a) ==
    /\ a \in connected
    /\ connected' = connected \ {a} /\ retired' = retired \cup {a}
    /\ link' = IF link.account = a THEN [link EXCEPT !.account = NoAccount] ELSE link
    /\ UNCHANGED <<tabVars, saveVars, syncVars, late>>

(* delete_config, and register of a link that has no row; register of one  *)
(* that has leaves everything but the token.                               *)
DeleteConfig ==
    /\ link.here /\ link.born =< MaxDeletes
    /\ link' = [link EXCEPT !.here = FALSE, !.account = NoAccount, !.rule = NoRule]
    /\ UNCHANGED <<connected, retired, tabVars, saveVars, syncVars, late>>

Register ==
    /\ ~link.here
    /\ link' = [link EXCEPT !.here = TRUE, !.born = @ + 1, !.version = 1]
    /\ UNCHANGED <<connected, retired, tabVars, saveVars, syncVars, late>>

(* Mutant: the job skips a binding it has seen, whatever its rule.         *)
ConfigSyncByAccount ==
    /\ queued /\ queued' = FALSE
    /\ synced' = IF link.account = synced.account THEN synced ELSE Content
    /\ UNCHANGED <<link, connected, retired, tabVars, saveVars, unsent, late>>

(* The config_sync job reads the row in one SELECT.                        *)
ConfigSync ==
    /\ queued /\ queued' = FALSE
    /\ synced' = Content
    /\ UNCHANGED <<link, connected, retired, tabVars, saveVars, unsent, late>>

(* sync_for_account, after every import: a config_sync for a bound link.   *)
SyncAccount(a) ==
    /\ link.here /\ link.account = a
    /\ queued' = TRUE /\ unsent' = FALSE
    /\ UNCHANGED <<link, connected, retired, tabVars, saveVars, synced, late>>

SaveStep(t) == CheckAccount(t) \/ UpdateLink(t) \/ Why(t) \/ Reread(t) \/ Enqueue(t) \/ Break(t)
TabStep(t)  == Reload(t) \/ Refresh(t) \/ Edit(t) \/ DoSave(t)
Accounts(a) == AccountConnect(a) \/ AccountDisconnect(a)

Next ==
    \/ \E t \in Tab : TabStep(t) \/ SaveStep(t)
    \/ \E a \in Account : Accounts(a) \/ SyncAccount(a)
    \/ DeleteConfig \/ Register \/ ConfigSync

Spec == Init /\ [][Next]_vars

(* A request ends, by its answer or otherwise; the workers run; and the    *)
(* periodic import syncs every connected account again and again.          *)
Reconcile == \E a \in connected : SyncAccount(a)
Fairness ==
    /\ WF_vars(ConfigSync) /\ WF_vars(Reconcile)
    /\ \A t \in Tab : WF_vars(SaveStep(t))
FairSpec == Spec /\ Fairness

(* ------------------------------ properties ----------------------------- *)

TypeOK ==
    /\ link \in LinkRow
    /\ connected \cup retired \subseteq Account /\ connected \cap retired = {}
    /\ config \in [Tab -> Config] /\ edit \in [Tab -> Config]
    /\ version \in [Tab -> Nat] /\ pc \in [Tab -> Statements \cup {"idle"}]
    /\ queued \in BOOLEAN /\ unsent \in BOOLEAN /\ synced \in Config
    /\ basis \in [Tab -> [born : Nat, version : Nat]] /\ misread \subseteq Tab
    /\ answer \in [Tab -> [born : Nat, version : Nat]]
    /\ late \subseteq Account /\ failures \in Nat
    /\ \A t \in Tab : pc[t] # "idle" => edit[t].account # NoAccount

(* "Two tabs editing the same role link cannot silently clobber each       *)
(* other" (001_initial_schema.sql): a save replaces the version its tab    *)
(* has seen, with two exceptions.  The tab was answered with the version   *)
(* of a later save, or the link was deleted and registered again, and its  *)
(* versions count from 1 again.                                            *)
SavesReplaceWhatTheySaw ==
    [][\A t \in Tab : pc[t] = "update" /\ pc'[t] = "reread" =>
          basis[t] = Seen \/ basis[t].born # link.born \/ t \in misread]_vars

(* The link is bound to a connected account or to none (account_disconnect *)
(* "so a later save doesn't reference a deleted account"), unless a save   *)
(* checked the account before the disconnect and bound it afterwards.      *)
BoundOrLate == link.account \in connected \cup late \cup {NoAccount}

(* "Roles update within a minute" (role_config.html): with no save at its  *)
(* end and no config_sync pending, the last one has read the configuration *)
(* that is stored, unless the save that stored it was cut off or could not *)
(* enqueue; and in the end, by the periodic import, the roles follow every *)
(* configuration, whatever its save was told.                              *)
Settled == ~queued /\ \A t \in Tab : ~WroteLast(t)
Followed == link.here /\ link.account \in connected => synced = Content
SavedIsSynced ==
    /\ [](Settled /\ ~unsent => Followed)
    /\ <>[]Followed
=============================================================================
