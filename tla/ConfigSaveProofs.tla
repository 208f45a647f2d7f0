-------------------------- MODULE ConfigSaveProofs --------------------------
(* The optimistic lock and the binding, for any number of tabs, accounts,  *)
(* rules and saves.                                                        *)
EXTENDS ConfigSave, TLAPS

LEMMA TypeInit == Init => TypeOK
<1> SUFFICES ASSUME Init PROVE TypeOK
  OBVIOUS
<1> USE DEF Init
<1>1. Blank \in Config
  BY DEF Blank, Config
<1>2. link \in LinkRow /\ Seen \in [born : Nat, version : Nat]
  BY DEF LinkRow, Seen
<1>3. config \in [Tab -> Config] /\ edit \in [Tab -> Config] /\ synced \in Config
  BY <1>1
<1>4. version \in [Tab -> Nat] /\ pc \in [Tab -> Statements \cup {"idle"}]
  OBVIOUS
<1>5. /\ basis \in [Tab -> [born : Nat, version : Nat]]
      /\ answer \in [Tab -> [born : Nat, version : Nat]]
  BY <1>2 DEF Unread
<1> QED BY <1>2, <1>3, <1>4, <1>5 DEF TypeOK

(* What the UPDATE and register write is a row.                            *)
LEMMA BoundRow ==
    ASSUME NEW row \in LinkRow, NEW a \in Account \cup {NoAccount}, NEW r \in Rule \cup {NoRule}
    PROVE  [row EXCEPT !.account = a, !.rule = r, !.version = @ + 1] \in LinkRow
<1>1. row.version + 1 \in Nat
  BY DEF LinkRow
<1> QED BY <1>1 DEF LinkRow

LEMMA NewRow ==
    ASSUME NEW row \in LinkRow
    PROVE  [row EXCEPT !.here = TRUE, !.born = @ + 1, !.version = 1] \in LinkRow
<1>1. row.born + 1 \in Nat
  BY DEF LinkRow
<1> QED BY <1>1 DEF LinkRow

(* An account that is bound is among the accounts.                         *)
LEMMA TypeStep == TypeOK /\ [Next]_vars => TypeOK'
<1> SUFFICES ASSUME TypeOK, [Next]_vars PROVE TypeOK'
  OBVIOUS
<1> USE DEF TypeOK
<1>1. Content \in Config /\ Seen \in [born : Nat, version : Nat] /\ Unread \in [born : Nat, version : Nat]
  BY DEF Content, Config, Seen, LinkRow, Unread
<1>2. ASSUME NEW t \in Tab, TakeFromServer(t),
             pc[t] = "idle",
             UNCHANGED <<link, connected, retired, saveVars, syncVars, late>>
      PROVE  TypeOK'
  <2> USE <1>2 DEF TakeFromServer, saveVars, syncVars
  <2>1. config' \in [Tab -> Config] /\ edit' \in [Tab -> Config]
    BY <1>1
  <2>2. link.version \in Nat
    BY DEF LinkRow
  <2>3. version' \in [Tab -> Nat] /\ basis' \in [Tab -> [born : Nat, version : Nat]]
    BY <1>1, <2>2
  <2>4. \A s \in Tab : pc'[s] # "idle" => edit'[s].account # NoAccount
    OBVIOUS
  <2> QED BY <2>1, <2>3, <2>4
<1>3. ASSUME NEW t \in Tab, TabStep(t)
      PROVE  TypeOK'
  <2>1. CASE Reload(t) \/ Refresh(t)
    BY <1>2, <2>1 DEF Reload, Refresh
  <2>2. CASE Edit(t)
    BY <2>2 DEF Edit, Config, saveVars, syncVars
  <2>3. CASE DoSave(t)
    BY <2>3 DEF DoSave, tabVars, syncVars, Statements
  <2> QED BY <1>3, <2>1, <2>2, <2>3 DEF TabStep
<1>4. ASSUME NEW t \in Tab, SaveStep(t)
      PROVE  TypeOK'
  <2>1. CASE CheckAccount(t)
    BY <2>1 DEF CheckAccount, Goto, tabVars, syncVars, Statements
  <2>2. CASE UpdateLink(t)
    <3>1. CASE Matches(t)
      <4> USE <2>2, <3>1 DEF UpdateLink, Bind
      <4>1. edit[t] \in Config
        OBVIOUS
      <4>2. edit[t].account \in Account \cup {NoAccount} /\ edit[t].rule \in Rule \cup {NoRule}
        BY <4>1 DEF Config
      <4>3. edit[t].account \in connected => edit[t].account \in Account
        OBVIOUS
      <4>4. link.version + 1 \in Nat /\ link.born \in Nat
        BY DEF LinkRow
      <4>5. link' \in LinkRow
        <5>1. link' = [link EXCEPT !.account = edit[t].account, !.rule = edit[t].rule,
                                   !.version = @ + 1]
          OBVIOUS
        <5>2. link \in LinkRow
          OBVIOUS
        <5> HIDE DEF TypeOK, UpdateLink, Bind
        <5> QED BY ONLY <4>2, <5>1, <5>2, BoundRow
      <4>6. basis' \in [Tab -> [born : Nat, version : Nat]]
        BY <4>4
      <4>9. edit[t].account # NoAccount
        OBVIOUS
      <4>7. late' \subseteq Account
        BY <4>2, <4>9
      <4>8. pc' \in [Tab -> Statements \cup {"idle"}]
        BY DEF Goto, Statements
      <4>10. \A s \in Tab : pc'[s] # "idle" => edit'[s].account # NoAccount
        BY DEF Goto
      <4> QED BY <4>5, <4>6, <4>7, <4>8, <4>10
    <3>2. CASE ~Matches(t)
      BY <2>2, <3>2 DEF UpdateLink, Goto, Statements
    <3> QED BY <3>1, <3>2
  <2>3. CASE Why(t)
    BY <2>3 DEF Why, Goto, tabVars, syncVars
  <2>4. CASE Reread(t)
    <3>1. answer' \in [Tab -> [born : Nat, version : Nat]] /\ pc' \in [Tab -> Statements \cup {"idle"}]
      BY <1>1, <2>4 DEF Reread, Goto, Statements
    <3>2. \A s \in Tab : pc'[s] # "idle" => edit'[s].account # NoAccount
      BY <2>4 DEF Reread, Goto, tabVars
    <3> QED BY <2>4, <3>1, <3>2 DEF Reread, tabVars, syncVars
  <2>5. CASE Enqueue(t) \/ Break(t)
    <3>1. /\ answer' \in [Tab -> [born : Nat, version : Nat]] /\ pc' \in [Tab -> Statements \cup {"idle"}]
          /\ UNCHANGED <<link, connected, retired, edit, basis, synced, late>>
      <4>1. answer' = [answer EXCEPT ![t] = Unread] /\ pc' = [pc EXCEPT ![t] = "idle"]
        BY <2>5 DEF Enqueue, Break, Goto
      <4>2. UNCHANGED <<link, connected, retired, synced, late>>
        BY <2>5 DEF Enqueue, Break
      <4>3. UNCHANGED <<edit, basis>>
        BY <2>5 DEF Enqueue, Break, Answer, tabVars
      <4>4. Unread \in [born : Nat, version : Nat]
        BY DEF Unread
      <4> QED BY <4>1, <4>2, <4>3, <4>4
    <3>2. config' \in [Tab -> Config] /\ version' \in [Tab -> Nat] /\ misread' \subseteq Tab
      <4>1. CASE UNCHANGED tabVars
        BY <4>1 DEF tabVars
      <4>2. CASE Answer(t)
        <5>1. edit[t] \in Config /\ answer[t].version \in Nat
          OBVIOUS
        <5>2. misread' \subseteq Tab
          BY <4>2 DEF Answer
        <5> QED BY <4>2, <5>1, <5>2 DEF Answer
      <4> QED BY <2>5, <4>1, <4>2 DEF Enqueue, Break
    <3>3. queued' \in BOOLEAN /\ unsent' \in BOOLEAN
      <4>1. queued' = TRUE \/ queued' = queued
        BY <2>5 DEF Enqueue, Break
      <4>2. unsent' = FALSE \/ unsent' = (unsent \/ WroteLast(t))
        BY <2>5 DEF Enqueue, Break
      <4>3. queued' \in BOOLEAN
        BY <4>1
      <4>4. unsent' \in BOOLEAN
        BY <4>2
      <4> QED BY <4>3, <4>4
    <3>4. failures' \in Nat
      <4>1. failures' = failures \/ failures' = failures + 1
        BY <2>5 DEF Enqueue, Break, MayFail
      <4> QED BY <4>1
    <3>5. \A s \in Tab : pc'[s] # "idle" => edit'[s].account # NoAccount
      BY <2>5, <3>1 DEF Enqueue, Break, Goto
    <3> QED BY <3>1, <3>2, <3>3, <3>4, <3>5
  <2> QED BY <1>4, <2>1, <2>2, <2>3, <2>4, <2>5 DEF SaveStep
<1>5. ASSUME NEW a \in Account, Accounts(a) \/ SyncAccount(a)
      PROVE  TypeOK'
  <2> USE DEF saveVars, syncVars
  <2>1. CASE AccountConnect(a)
    BY <2>1 DEF AccountConnect, tabVars
  <2>2. CASE AccountDisconnect(a)
    <3>1. link' \in LinkRow
      BY <2>2 DEF AccountDisconnect, LinkRow
    <3> QED BY <2>2, <3>1 DEF AccountDisconnect, tabVars
  <2>3. CASE SyncAccount(a)
    BY <2>3 DEF SyncAccount, tabVars
  <2> QED BY <1>5, <2>1, <2>2, <2>3 DEF Accounts
<1>6. CASE DeleteConfig \/ Register
  <2>1. link' \in LinkRow
    <3>1. CASE DeleteConfig
      BY <3>1 DEF DeleteConfig, LinkRow
    <3>2. CASE Register
      BY <3>2, NewRow DEF Register
    <3> QED BY <1>6, <3>1, <3>2
  <2> QED BY <1>6, <2>1 DEF DeleteConfig, Register, tabVars, saveVars, syncVars
<1>7. CASE ConfigSync
  BY <1>1, <1>7 DEF ConfigSync, tabVars, saveVars
<1>8. CASE UNCHANGED vars
  BY <1>8 DEF vars, tabVars, saveVars, syncVars
<1> QED BY <1>3, <1>4, <1>5, <1>6, <1>7, <1>8 DEF Next

(* Every variable keeps its type, and an account id is never used again.   *)
THEOREM TypeCorrect == Spec => []TypeOK
BY TypeInit, TypeStep, PTL DEF Spec
-----------------------------------------------------------------------------

(* Whatever is bound was connected when the UPDATE ran, or is counted late.*)
LEMMA BoundStep == TypeOK /\ BoundOrLate /\ [Next]_vars => BoundOrLate'
<1> SUFFICES ASSUME TypeOK, BoundOrLate, [Next]_vars PROVE BoundOrLate'
  OBVIOUS
<1> USE DEF BoundOrLate
<1>1. link \in LinkRow
  BY DEF TypeOK
<1>2. ASSUME NEW t \in Tab, TabStep(t)
      PROVE  BoundOrLate'
  BY <1>2 DEF TabStep, Reload, Refresh, Edit, DoSave, TakeFromServer
<1>3. ASSUME NEW t \in Tab, SaveStep(t)
      PROVE  BoundOrLate'
  <2>1. CASE UpdateLink(t) /\ Matches(t)
    <3>1. link'.account = edit[t].account
      BY <1>1, <2>1 DEF UpdateLink, Bind, LinkRow
    <3> QED BY <2>1, <3>1 DEF UpdateLink, Bind
  <2>2. CASE UpdateLink(t) /\ ~Matches(t)
    BY <2>2 DEF UpdateLink
  <2>3. CASE CheckAccount(t) \/ Why(t) \/ Reread(t) \/ Enqueue(t) \/ Break(t)
    BY <2>3 DEF CheckAccount, Why, Reread, Enqueue, Break
  <2> QED BY <1>3, <2>1, <2>2, <2>3 DEF SaveStep
<1>4. ASSUME NEW a \in Account, Accounts(a) \/ SyncAccount(a)
      PROVE  BoundOrLate'
  <2>1. CASE AccountConnect(a)
    BY <2>1 DEF AccountConnect
  <2>2. CASE AccountDisconnect(a)
    <3>1. CASE link.account = a
      <4>1. link'.account = NoAccount
        BY <1>1, <2>2, <3>1 DEF AccountDisconnect, LinkRow
      <4> QED BY <4>1
    <3>2. CASE link.account # a
      BY <2>2, <3>2 DEF AccountDisconnect
    <3> QED BY <3>1, <3>2
  <2>3. CASE SyncAccount(a)
    BY <2>3 DEF SyncAccount
  <2> QED BY <1>4, <2>1, <2>2, <2>3 DEF Accounts
<1>5. CASE DeleteConfig
  <2>1. link'.account = NoAccount
    BY <1>1, <1>5 DEF DeleteConfig, LinkRow
  <2> QED BY <2>1
<1>6. CASE Register
  <2>1. link'.account = link.account
    BY <1>1, <1>6 DEF Register, LinkRow
  <2> QED BY <1>6, <2>1 DEF Register
<1>7. CASE ConfigSync \/ UNCHANGED vars
  BY <1>7 DEF ConfigSync, vars
<1> QED BY <1>2, <1>3, <1>4, <1>5, <1>6, <1>7 DEF Next

(* The link is bound to a connected account or to none, unless a save      *)
(* bound an account that was disconnected after its check.                 *)
THEOREM Binding == Spec => []BoundOrLate
<1>1. Init => BoundOrLate
  BY DEF Init, BoundOrLate
<1> QED BY <1>1, TypeCorrect, BoundStep, PTL DEF Spec

-----------------------------------------------------------------------------

(* What the lock rests on: a tab sends the version of the row it has seen, *)
(* or one that is past since its answer is still to come or was lost,      *)
(* unless it has been answered with a later one (misread) or that row is   *)
(* gone.  Incarnations and versions only grow.                             *)
Sends(t) ==
    t \notin misread /\ link.here /\ basis[t].born = link.born
        => version[t] = basis[t].version \/ version[t] < link.version
LockInv == \A t \in Tab : basis[t].born =< link.born /\ Sends(t)

(* A step that does not change what tab u has seen.                        *)
LEMMA LockKept ==
    ASSUME NEW u \in Tab, LockInv, TypeOK, TypeOK',
           link'.born = link.born, link'.here => link.here, link.version =< link'.version,
           basis'[u] = basis[u], version'[u] = version[u],
           u \in misread' <=> u \in misread
    PROVE  basis'[u].born =< link'.born /\ Sends(u)'
<1>1. link.version \in Nat /\ link'.version \in Nat /\ version[u] \in Nat
  BY DEF TypeOK, LinkRow
<1> QED BY <1>1 DEF LockInv, Sends

LEMMA LockStep == TypeOK /\ TypeOK' /\ LockInv /\ [Next]_vars => LockInv'
<1> SUFFICES ASSUME TypeOK, TypeOK', LockInv, [Next]_vars, NEW u \in Tab
             PROVE  basis'[u].born =< link'.born /\ Sends(u)'
  BY DEF LockInv
<1>1. /\ link \in LinkRow /\ link' \in LinkRow /\ link.born \in Nat /\ link.version \in Nat
      /\ link.version =< link.version
  BY DEF TypeOK, LinkRow
<1>2. basis \in [Tab -> [born : Nat, version : Nat]] /\ version \in [Tab -> Nat] /\ DOMAIN pc = Tab
  BY DEF TypeOK
<1>3. ASSUME NEW t \in Tab, TakeFromServer(t), link' = link, pc' = pc
      PROVE  basis'[u].born =< link'.born /\ Sends(u)'
  <2>1. CASE u = t
    <3>1. basis'[u] = Seen /\ version'[u] = link.version
      BY <1>2, <1>3, <2>1 DEF TakeFromServer
    <3> QED BY <1>1, <1>3, <3>1 DEF Seen, Sends
  <2>2. CASE u # t
    <3>1. basis'[u] = basis[u] /\ version'[u] = version[u] /\ (u \in misread' <=> u \in misread)
      BY <1>2, <1>3, <2>2 DEF TakeFromServer
    <3> QED BY <1>1, <1>3, <3>1, LockKept
  <2> QED BY <2>1, <2>2
<1>4. ASSUME NEW t \in Tab, TabStep(t)
      PROVE  basis'[u].born =< link'.born /\ Sends(u)'
  <2>1. CASE Reload(t) \/ Refresh(t)
    BY <1>3, <2>1 DEF Reload, Refresh, saveVars
  <2>2. CASE Edit(t)
    BY <1>1, <2>2, LockKept DEF Edit
  <2>3. CASE DoSave(t)
    BY <1>1, <2>3, LockKept DEF DoSave, tabVars
  <2> QED BY <1>4, <2>1, <2>2, <2>3 DEF TabStep
<1>5. ASSUME NEW t \in Tab, SaveStep(t)
      PROVE  basis'[u].born =< link'.born /\ Sends(u)'
  <2>1. CASE CheckAccount(t) \/ Why(t) \/ Reread(t) \/ Break(t)
    BY <1>1, <2>1, LockKept DEF CheckAccount, Why, Reread, Break, tabVars
  <2>2. CASE UpdateLink(t) /\ Matches(t)
    <3>1. link'.born = link.born /\ link'.here = link.here /\ link'.version = link.version + 1
      BY <1>1, <2>2 DEF UpdateLink, Bind, LinkRow
    <3>2. CASE u = t
      <4>1. basis'[u].born = link.born /\ version'[u] = link.version
        BY <1>2, <2>2, <3>2 DEF UpdateLink, Bind, Matches
      <4> QED BY <1>1, <3>1, <4>1 DEF Sends
    <3>3. CASE u # t
      <4>1. basis'[u] = basis[u] /\ version' = version /\ misread' = misread
        BY <1>2, <2>2, <3>3 DEF UpdateLink, Bind
      <4>2. link.version =< link'.version
        BY <1>1, <3>1
      <4> QED BY <3>1, <4>1, <4>2, LockKept
    <3> QED BY <3>2, <3>3
  <2>3. CASE UpdateLink(t) /\ ~Matches(t)
    BY <1>1, <2>3, LockKept DEF UpdateLink
  <2>4. CASE Enqueue(t)
    <3>1. link' = link /\ basis' = basis
      BY <2>4 DEF Enqueue, Answer, tabVars
    <3>2. CASE UNCHANGED tabVars \/ u # t
      <4>1. version'[u] = version[u] /\ (u \in misread' <=> u \in misread)
        <5>1. CASE UNCHANGED tabVars
          BY <5>1 DEF tabVars
        <5>2. CASE Answer(t) /\ u # t
          BY <1>2, <5>2 DEF Answer
        <5> QED BY <2>4, <3>2, <5>1, <5>2 DEF Enqueue
      <4> QED BY <1>1, <3>1, <4>1, LockKept
    <3>3. CASE Answer(t) /\ u = t
      <4>1. version'[u] = answer[u].version
        BY <1>2, <3>3 DEF Answer
      <4>2. u \notin misread' => answer[u] = basis[u]
        BY <3>3 DEF Answer
      <4> QED BY <3>1, <4>1, <4>2 DEF LockInv, Sends
    <3> QED BY <2>4, <3>2, <3>3 DEF Enqueue
  <2> QED BY <1>5, <2>1, <2>2, <2>3, <2>4 DEF SaveStep
<1>6. ASSUME NEW a \in Account, Accounts(a) \/ SyncAccount(a)
      PROVE  basis'[u].born =< link'.born /\ Sends(u)'
  <2>1. link'.born = link.born /\ link'.here = link.here /\ link'.version = link.version
    BY <1>1, <1>6 DEF Accounts, AccountConnect, AccountDisconnect, SyncAccount, LinkRow
  <2>2. UNCHANGED <<basis, version, misread>>
    BY <1>6 DEF Accounts, AccountConnect, AccountDisconnect, SyncAccount, tabVars
  <2> QED BY <1>1, <2>1, <2>2, LockKept
<1>7. CASE DeleteConfig
  <2>1. link'.born = link.born /\ ~link'.here
    BY <1>1, <1>7 DEF DeleteConfig, LinkRow
  <2> QED BY <1>7, <2>1 DEF DeleteConfig, tabVars, LockInv, Sends
<1>8. CASE Register
  <2>1. link'.born = link.born + 1
    BY <1>1, <1>8 DEF Register, LinkRow
  <2>2. basis' = basis /\ basis[u].born =< link.born /\ basis[u].born \in Nat
    BY <1>2, <1>8 DEF Register, tabVars, LockInv
  <2> QED BY <1>1, <2>1, <2>2 DEF Sends
<1>9. CASE ConfigSync \/ UNCHANGED vars
  BY <1>1, <1>9, LockKept DEF ConfigSync, vars, tabVars
<1> QED BY <1>4, <1>5, <1>6, <1>7, <1>8, <1>9 DEF Next

(* The UPDATE of a save matches only the version its tab sends.            *)
LEMMA SaveReplaces ==
    ASSUME TypeOK, LockInv, [Next]_vars, NEW u \in Tab, pc[u] = "update", pc'[u] = "reread"
    PROVE  basis[u] = Seen \/ basis[u].born # link.born \/ u \in misread
<1>1. /\ basis \in [Tab -> [born : Nat, version : Nat]] /\ DOMAIN pc = Tab
      /\ version[u] \in Nat /\ link.version \in Nat
  BY DEF TypeOK, LinkRow
<1>2. ASSUME NEW t \in Tab, TabStep(t)
      PROVE  FALSE
  BY <1>1, <1>2 DEF TabStep, Reload, Refresh, Edit, DoSave, saveVars
<1>3. ASSUME NEW t \in Tab, SaveStep(t)
      PROVE  Matches(u)
  BY <1>1, <1>3 DEF SaveStep, CheckAccount, UpdateLink, Why, Reread, Enqueue, Break, Goto
<1>4. /\ ~(\E a \in Account : Accounts(a) \/ SyncAccount(a))
      /\ ~DeleteConfig /\ ~Register /\ ~ConfigSync /\ ~UNCHANGED vars
  BY DEF Accounts, AccountConnect, AccountDisconnect, SyncAccount, DeleteConfig, Register,
         ConfigSync, vars, saveVars
<1>5. Matches(u)
  BY <1>2, <1>3, <1>4 DEF Next
<1>6. basis[u].born = link.born /\ u \notin misread => basis[u].version = link.version
  BY <1>1, <1>5 DEF Matches, LockInv, Sends
<1>7. basis[u] = [born |-> basis[u].born, version |-> basis[u].version]
  BY <1>1
<1> QED BY <1>6, <1>7 DEF Seen

(* A save replaces the version its tab has seen, but for the two cases the *)
(* property names.                                                         *)
THEOREM OptimisticLock == Spec => SavesReplaceWhatTheySaw
<1>1. Init => LockInv
  <2> SUFFICES ASSUME Init, NEW t \in Tab
               PROVE  basis[t].born =< link.born /\ Sends(t)
    BY DEF LockInv
  <2>1. link.born = 1 /\ link.version = 1 /\ basis[t] = Seen /\ version[t] = 1
    BY DEF Init
  <2> QED BY <2>1 DEF Seen, Sends
<1>2. Spec => []LockInv
  BY <1>1, TypeCorrect, LockStep, PTL DEF Spec
<1>3. TypeOK /\ LockInv /\ [Next]_vars =>
        [\A t \in Tab : pc[t] = "update" /\ pc'[t] = "reread" =>
            basis[t] = Seen \/ basis[t].born # link.born \/ t \in misread]_vars
  BY SaveReplaces
<1> QED BY <1>2, <1>3, TypeCorrect, PTL DEF Spec, SavesReplaceWhatTheySaw

-----------------------------------------------------------------------------

(* Only accounts that are or were connected are picked, so an account that *)
(* is connected anew is not bound yet; and a deleted link is not bound.    *)
Picked == connected \cup retired \cup {NoAccount}
PickInv == /\ link.account \in Picked /\ (~link.here => link.account = NoAccount)
           /\ \A t \in Tab : edit[t].account \in Picked

SentInv == PickInv /\ (Settled /\ ~unsent => Followed)

LEMMA PickStep == TypeOK /\ PickInv /\ [Next]_vars => PickInv'
<1> SUFFICES ASSUME TypeOK, PickInv, [Next]_vars PROVE PickInv'
  OBVIOUS
<1> USE DEF PickInv
<1>1. link \in LinkRow /\ edit \in [Tab -> Config]
  BY DEF TypeOK
<1>2. ASSUME NEW t \in Tab, TabStep(t)
      PROVE  PickInv'
  <2>1. CASE Reload(t) \/ Refresh(t)
    BY <1>1, <2>1 DEF Reload, Refresh, TakeFromServer, Content, Picked
  <2>2. CASE Edit(t)
    BY <1>1, <2>2 DEF Edit, Picked
  <2>3. CASE DoSave(t)
    BY <2>3 DEF DoSave, tabVars, Picked
  <2> QED BY <1>2, <2>1, <2>2, <2>3 DEF TabStep
<1>3. ASSUME NEW t \in Tab, SaveStep(t)
      PROVE  PickInv'
  <2>1. UNCHANGED <<connected, retired, edit>>
    BY <1>3 DEF SaveStep, CheckAccount, UpdateLink, Why, Reread, Enqueue, Answer, Break, tabVars
  <2>2. CASE UpdateLink(t) /\ Matches(t)
    <3>1. link'.account = edit[t].account /\ link'.here = link.here /\ link.here
      BY <1>1, <2>2 DEF UpdateLink, Bind, Matches, LinkRow
    <3> QED BY <2>1, <3>1 DEF Picked
  <2>3. CASE ~(UpdateLink(t) /\ Matches(t))
    <3>1. link' = link
      BY <1>3, <2>3 DEF SaveStep, CheckAccount, UpdateLink, Why, Reread, Enqueue, Break
    <3> QED BY <2>1, <3>1 DEF Picked
  <2> QED BY <2>2, <2>3
<1>4. ASSUME NEW a \in Account, Accounts(a) \/ SyncAccount(a)
      PROVE  PickInv'
  <2>1. edit' = edit /\ link'.here = link.here
    BY <1>1, <1>4 DEF Accounts, AccountConnect, AccountDisconnect, SyncAccount, tabVars, LinkRow
  <2>2. Picked \subseteq Picked'
    BY <1>4 DEF Accounts, AccountConnect, AccountDisconnect, SyncAccount, Picked
  <2>3. link'.account = link.account \/ link'.account = NoAccount
    BY <1>1, <1>4 DEF Accounts, AccountConnect, AccountDisconnect, SyncAccount, LinkRow
  <2> QED BY <2>1, <2>2, <2>3 DEF Picked
<1>5. CASE DeleteConfig \/ Register
  <2>1. UNCHANGED <<connected, retired, edit>>
    BY <1>5 DEF DeleteConfig, Register, tabVars
  <2>2. link'.account = NoAccount
    BY <1>1, <1>5 DEF DeleteConfig, Register, LinkRow
  <2> QED BY <2>1, <2>2 DEF Picked
<1>6. CASE ConfigSync \/ UNCHANGED vars
  BY <1>6 DEF ConfigSync, vars, tabVars, Picked
<1> QED BY <1>2, <1>3, <1>4, <1>5, <1>6 DEF Next

(* Saves that are at their end, or ended badly, before and after a step    *)
(* that leaves the link and the sync alone.                                *)
LEMMA SentKept ==
    ASSUME SentInv, PickInv', UNCHANGED <<link, connected, syncVars>>,
           \A t \in Tab : WroteLast(t) => WroteLast(t)'
    PROVE  SentInv'
BY DEF SentInv, Settled, Followed, Content, syncVars

LEMMA SentStep == TypeOK /\ SentInv /\ [Next]_vars => SentInv'
<1> SUFFICES ASSUME TypeOK, SentInv, [Next]_vars PROVE SentInv'
  OBVIOUS
<1>0. PickInv /\ PickInv'
  BY PickStep DEF SentInv
<1>1. /\ link \in LinkRow /\ pc \in [Tab -> Statements \cup {"idle"}] /\ connected \subseteq Account
      /\ basis \in [Tab -> [born : Nat, version : Nat]] /\ NoAccount \notin Account
  BY ConfigAssumption DEF TypeOK
<1>2. ASSUME NEW t \in Tab, TabStep(t)
      PROVE  SentInv'
  <2>1. ASSUME NEW s \in Tab, WroteLast(s)
        PROVE  WroteLast(s)'
    <3>1. pc[t] = "idle" /\ pc[s] # "idle" /\ link' = link
      BY <1>2, <2>1 DEF TabStep, Reload, Refresh, Edit, DoSave, WroteLast
    <3>2. CASE Reload(t) \/ Refresh(t)
      <4>1. pc' = pc /\ basis' = [basis EXCEPT ![t] = Seen]
        BY <3>2 DEF Reload, Refresh, TakeFromServer, saveVars
      <4>2. s # t
        BY <3>1
      <4>3. basis'[s] = basis[s]
        BY <1>1, <4>1, <4>2
      <4> QED BY <2>1, <3>1, <4>1, <4>3 DEF WroteLast, Seen
    <3>3. CASE Edit(t)
      BY <2>1, <3>3 DEF Edit, WroteLast, Seen, saveVars
    <3>4. CASE DoSave(t)
      <4>1. s # t /\ pc' = [pc EXCEPT ![t] = "check"] /\ basis' = basis
        BY <3>1, <3>4 DEF DoSave, tabVars
      <4>2. pc'[s] = pc[s]
        BY <1>1, <4>1
      <4> QED BY <2>1, <3>1, <4>1, <4>2 DEF WroteLast, Seen
    <3> QED BY <1>2, <3>2, <3>3, <3>4 DEF TabStep
  <2>2. UNCHANGED <<link, connected, syncVars>>
    BY <1>2 DEF TabStep, Reload, Refresh, Edit, DoSave
  <2> QED BY <1>0, <2>1, <2>2, SentKept
<1>3. ASSUME NEW t \in Tab, SaveStep(t)
      PROVE  SentInv'
  <2>1. CASE CheckAccount(t) \/ Why(t) \/ (UpdateLink(t) /\ ~Matches(t)) \/ (Reread(t) /\ link.here)
    <3>1. \A s \in Tab : WroteLast(s) => WroteLast(s)'
      BY <1>1, <2>1 DEF CheckAccount, Why, UpdateLink, Reread, Goto, WroteLast, Seen, tabVars
    <3>2. UNCHANGED <<link, connected, syncVars>>
      BY <2>1 DEF CheckAccount, Why, UpdateLink, Reread, syncVars
    <3> QED BY <1>0, <3>1, <3>2, SentKept
  <2>2. CASE Reread(t) /\ ~link.here
    BY <1>0, <2>2 DEF Reread, SentInv, Followed
  <2>3. CASE UpdateLink(t) /\ Matches(t)
    <3>1. link'.born = link.born /\ link'.version = link.version + 1
      BY <1>1, <2>3 DEF UpdateLink, Bind, LinkRow
    <3>2. basis'[t] = [born |-> link.born, version |-> link.version + 1] /\ pc'[t] = "reread"
      BY <1>1, <2>3 DEF UpdateLink, Bind, Goto
    <3>3. WroteLast(t)'
      BY <3>1, <3>2 DEF WroteLast, Seen
    <3> QED BY <1>0, <3>3 DEF SentInv, Settled
  <2>4. CASE (Enqueue(t) \/ Break(t)) /\ queued' = TRUE
    BY <1>0, <2>4 DEF SentInv, Settled
  <2>5. CASE (Enqueue(t) \/ Break(t)) /\ queued' # TRUE
    <3>1. /\ UNCHANGED <<link, connected, queued, synced, basis>> /\ pc' = [pc EXCEPT ![t] = "idle"]
          /\ unsent' = (unsent \/ WroteLast(t))
      BY <2>5 DEF Enqueue, Break, Answer, Goto, tabVars
    <3>2. \A s \in Tab \ {t} : WroteLast(s) => WroteLast(s)'
      BY <1>1, <3>1 DEF WroteLast, Seen
    <3>3. Settled' /\ ~unsent' => Settled /\ ~unsent
      BY <3>1, <3>2 DEF Settled
    <3> QED BY <1>0, <3>1, <3>3 DEF SentInv, Followed, Content
  <2> QED BY <1>3, <2>1, <2>2, <2>3, <2>4, <2>5 DEF SaveStep
<1>4. ASSUME NEW a \in Account, Accounts(a) \/ SyncAccount(a)
      PROVE  SentInv'
  <2>1. CASE AccountConnect(a)
    <3>1. link.account # a
      BY <1>0, <1>1, <2>1 DEF AccountConnect, PickInv, Picked
    <3>2. UNCHANGED <<link, pc, basis, syncVars>> /\ connected' = connected \cup {a}
      BY <2>1 DEF AccountConnect, tabVars, saveVars
    <3> QED BY <1>0, <3>1, <3>2 DEF SentInv, Settled, WroteLast, Seen, Followed, Content, syncVars
  <2>2. CASE AccountDisconnect(a)
    <3>1. CASE link.account = a
      <4>1. link'.account = NoAccount
        BY <1>1, <2>2, <3>1 DEF AccountDisconnect, LinkRow
      <4>2. connected' \subseteq Account
        BY <1>1, <2>2 DEF AccountDisconnect
      <4> QED BY <1>0, <1>1, <4>1, <4>2 DEF SentInv, Followed
    <3>2. CASE link.account # a
      <4>1. UNCHANGED <<link, pc, basis, syncVars>> /\ connected' \subseteq connected
        BY <2>2, <3>2 DEF AccountDisconnect, tabVars, saveVars
      <4> QED BY <1>0, <4>1 DEF SentInv, Settled, WroteLast, Seen, Followed, Content, syncVars
    <3> QED BY <3>1, <3>2
  <2>3. CASE SyncAccount(a)
    BY <1>0, <2>3 DEF SyncAccount, SentInv, Settled
  <2> QED BY <1>4, <2>1, <2>2, <2>3 DEF Accounts
<1>5. CASE DeleteConfig \/ Register
  <2>1. link'.account = NoAccount /\ connected' = connected
    BY <1>0, <1>1, <1>5 DEF DeleteConfig, Register, LinkRow, PickInv
  <2> QED BY <1>0, <1>1, <2>1 DEF SentInv, Followed
<1>6. CASE ConfigSync
  BY <1>0, <1>6 DEF ConfigSync, SentInv, Followed, Content
<1>7. CASE UNCHANGED vars
  BY <1>0, <1>7, SentKept DEF vars, tabVars, saveVars, WroteLast, Seen
<1> QED BY <1>2, <1>3, <1>4, <1>5, <1>6, <1>7 DEF Next

(* With no save at its end and no config_sync pending, the roles follow    *)
(* the stored configuration, unless the save that stored it was cut off or *)
(* could not enqueue.                                                      *)
THEOREM SavesAreSent == Spec => [](Settled /\ ~unsent => Followed)
<1>1. Init => SentInv
  <2> SUFFICES ASSUME Init PROVE SentInv
    OBVIOUS
  <2>1. link.account = NoAccount /\ link.rule = NoRule /\ synced = Blank /\ link.here
        /\ \A t \in Tab : edit[t].account = NoAccount
    BY DEF Init, Blank
  <2> QED BY <2>1 DEF SentInv, PickInv, Picked, Followed, Content, Blank
<1>2. SentInv => (Settled /\ ~unsent => Followed)
  BY DEF SentInv
<1> QED BY <1>1, <1>2, TypeCorrect, SentStep, PTL DEF Spec

-----------------------------------------------------------------------------
(* The accounts that a link may be bound to have a life of their own: the  *)
(* rows of one Stripe account, for any guilds, requests and bounds.        *)
CONSTANTS Guild, Handler, MaxEvents, MaxConnects, MaxSecrets, MaxErrors, MaxDeaths
VARIABLES accounts, serial, connects, backfill, mirror, endpoint, secrets, events, open, seen,
          request, import, errors, deaths
Rows == INSTANCE Accounts

(* Only rows that exist are asked for, and every row came with a connect.  *)
RequestOf == [at : {"idle", "insert", "apply", "reopen"}, event : 0..events, ref : 0..serial]
RowInv ==
    /\ connects \in 0..MaxConnects /\ serial <= connects
    /\ secrets \in Nat /\ events \in Nat
    /\ accounts \in [Rows!Connected -> [guild : Guild, secret : 0..secrets]]
    /\ request \in [Handler -> RequestOf]
    /\ \A h \in Handler : request[h].at # "idle" =>
          request[h].event \in 1..events /\ request[h].ref \in 1..serial
    /\ import \in [ref : 0..serial, got : SUBSET (1..events)]

RowsInv == Rows!TypeOK /\ RowInv /\ Rows!GoneAccountsStayEmpty

LEMMA RowsInit == ASSUME Rows!AccountsAssumption PROVE Rows!Init => RowsInv
<1> SUFFICES ASSUME Rows!Init PROVE RowsInv
  OBVIOUS
<1> USE Rows!AccountsAssumption DEF Rows!Init, Rows!AccountsAssumption
<1>1. Rows!Connected = {} /\ DOMAIN endpoint = {}
  BY DEF Rows!Connected
<1>2. Rows!NoRequest \in RequestOf /\ Rows!NoImport \in [ref : 0..serial, got : SUBSET (1..events)]
  BY DEF RequestOf, Rows!NoRequest, Rows!NoImport
<1>3. RowInv
  BY <1>1, <1>2 DEF RowInv, Rows!NoRequest
<1>4. Rows!TypeOK
  BY <1>1 DEF Rows!TypeOK, Rows!NoRequest, Rows!NoImport
<1> QED BY <1>3, <1>4 DEF RowsInv, Rows!GoneAccountsStayEmpty

(* The rows after an action of the admin; nobody else writes them.         *)
LEMMA AdminStep ==
    ASSUME Rows!AccountsAssumption, RowsInv,
           \/ \E g \in Guild : Rows!Connect(g)
           \/ \E r \in Rows!Connected : Rows!SetSecret(r) \/ Rows!Disconnect(r)
    PROVE  RowsInv'
<1> USE Rows!AccountsAssumption DEF RowsInv, Rows!AccountsAssumption
<1>0. /\ serial \in Nat /\ Rows!Connected \subseteq 1..serial
      /\ accounts \in [Rows!Connected -> [guild : Guild, secret : 0..secrets]]
      /\ Rows!Connected \subseteq Rows!Ref
  BY DEF Rows!TypeOK, RowInv, Rows!Ref
<1>1. UNCHANGED <<Rows!stripeVars, open, seen, request, import>>
  BY DEF Rows!Connect, Rows!SetSecret, Rows!Disconnect
<1>2. ASSUME serial' \in Nat, serial <= serial', serial' <= connects', connects' \in 0..MaxConnects,
             backfill' \subseteq 1..serial', Rows!Connected' \subseteq 1..serial',
             accounts' \in [Rows!Connected' -> [guild : Guild, secret : 0..secrets]],
             \A r, s \in Rows!Connected' : accounts'[r].guild = accounts'[s].guild => r = s,
             mirror' \in [Rows!Ref -> SUBSET (1..events)],
             \A r \in Rows!Ref \ Rows!Connected' : mirror'[r] = {}
      PROVE  RowsInv'
  <2>1. serial' \in 0..MaxConnects
    BY <1>2
  <2>2. Rows!TypeOK'
    BY <1>1, <1>2, <2>1 DEF Rows!TypeOK, Rows!stripeVars, Rows!Ref
  <2>3. RequestOf \subseteq RequestOf'
    BY <1>0, <1>1, <1>2 DEF RequestOf, Rows!stripeVars
  <2>4. RowInv'
    BY <1>0, <1>1, <1>2, <2>3 DEF RowInv, Rows!stripeVars
  <2> QED BY <1>2, <2>2, <2>4 DEF Rows!GoneAccountsStayEmpty, Rows!Ref
<1>3. ASSUME NEW g \in Guild, Rows!Connect(g) PROVE RowsInv'
  <2> PICK s \in Rows!Pasted \cup {Rows!NoSecret} :
        \/ /\ \A r \in Rows!Connected : accounts[r].guild # g
           /\ serial' = serial + 1
           /\ accounts' = Rows!With(accounts, serial', [guild |-> g, secret |-> s])
           /\ Rows!Backfill(serial')
        \/ \E r \in Rows!Connected :
           /\ accounts[r].guild = g
           /\ accounts' = [accounts EXCEPT ![r].secret = IF s = Rows!NoSecret THEN @ ELSE s]
           /\ Rows!Backfill(r)
           /\ UNCHANGED serial
    BY <1>3 DEF Rows!Connect
  <2>0. /\ s \in 0..secrets /\ UNCHANGED mirror
        /\ connects' = connects + 1 /\ connects' \in 0..MaxConnects
    BY <1>3 DEF Rows!Connect, Rows!Pasted, Rows!NoSecret, RowInv
  <2>1. CASE /\ \A r \in Rows!Connected : accounts[r].guild # g
             /\ serial' = serial + 1
             /\ accounts' = Rows!With(accounts, serial', [guild |-> g, secret |-> s])
             /\ Rows!Backfill(serial')
    <3>1. Rows!Connected' = Rows!Connected \cup {serial'}
      BY <2>1 DEF Rows!Connected, Rows!With
    <3>2. \A r \in Rows!Connected : r # serial'
      BY <1>0, <2>1
    <3>3. /\ \A r \in Rows!Connected : accounts'[r] = accounts[r]
          /\ accounts'[serial'] = [guild |-> g, secret |-> s]
      BY <2>1, <3>2 DEF Rows!With, Rows!Connected
    <3>4. accounts' = [r \in Rows!Connected' |-> accounts'[r]]
      BY <2>1, <3>1 DEF Rows!With, Rows!Connected
    <3>5. \A r \in Rows!Connected' : accounts'[r] \in [guild : Guild, secret : 0..secrets]
      BY <1>0, <2>0, <3>1, <3>3
    <3>6. accounts' \in [Rows!Connected' -> [guild : Guild, secret : 0..secrets]]
      BY <3>4, <3>5
    <3>7. \A r, q \in Rows!Connected' : accounts'[r].guild = accounts'[q].guild => r = q
      BY <2>1, <3>1, <3>3 DEF Rows!TypeOK
    <3>8. backfill' \subseteq 1..serial'
      BY <1>0, <2>1 DEF Rows!Backfill, Rows!TypeOK
    <3>9. \A r \in Rows!Ref \ Rows!Connected' : mirror'[r] = {}
      BY <2>0, <3>1 DEF Rows!GoneAccountsStayEmpty
    <3>10. serial' \in Nat /\ serial <= serial' /\ serial' <= connects'
      BY <1>0, <2>0, <2>1 DEF RowInv
    <3>11. Rows!Connected' \subseteq 1..serial'
      BY <1>0, <2>1, <3>1
    <3>12. mirror' \in [Rows!Ref -> SUBSET (1..events)]
      BY <2>0 DEF Rows!TypeOK
    <3> QED BY <1>2, <2>0, <3>6, <3>7, <3>8, <3>9, <3>10, <3>11, <3>12
  <2>2. ASSUME NEW r \in Rows!Connected, accounts[r].guild = g,
               accounts' = [accounts EXCEPT ![r].secret = IF s = Rows!NoSecret THEN @ ELSE s],
               Rows!Backfill(r), UNCHANGED serial
        PROVE  RowsInv'
    <3>1. Rows!Connected' = Rows!Connected
      BY <1>0, <2>2 DEF Rows!Connected
    <3>2. accounts' \in [Rows!Connected' -> [guild : Guild, secret : 0..secrets]]
      BY <1>0, <2>0, <2>2, <3>1
    <3>3. \A q \in Rows!Connected : accounts'[q].guild = accounts[q].guild
      BY <1>0, <2>2
    <3>4. \A p, q \in Rows!Connected' : accounts'[p].guild = accounts'[q].guild => p = q
      BY <3>1, <3>3 DEF Rows!TypeOK
    <3>5. backfill' \subseteq 1..serial'
      BY <1>0, <2>2 DEF Rows!Backfill, Rows!TypeOK
    <3>6. serial' \in Nat /\ serial <= serial' /\ serial' <= connects'
      BY <1>0, <2>0, <2>2 DEF RowInv
    <3>7. mirror' \in [Rows!Ref -> SUBSET (1..events)]
          /\ \A q \in Rows!Ref \ Rows!Connected' : mirror'[q] = {}
      BY <2>0, <3>1 DEF Rows!TypeOK, Rows!GoneAccountsStayEmpty
    <3>8. Rows!Connected' \subseteq 1..serial'
      BY <1>0, <2>2, <3>1
    <3> QED BY <1>2, <2>0, <3>2, <3>4, <3>5, <3>6, <3>7, <3>8
  <2> QED BY <2>1, <2>2
<1>4. ASSUME NEW r \in Rows!Connected, Rows!SetSecret(r) PROVE RowsInv'
  <2> PICK s \in Rows!Pasted : accounts' = [accounts EXCEPT ![r].secret = s]
    BY <1>4 DEF Rows!SetSecret
  <2>0. UNCHANGED <<serial, connects, backfill, mirror>> /\ s \in 0..secrets
    BY <1>4 DEF Rows!SetSecret, Rows!Pasted, RowInv
  <2>1. Rows!Connected' = Rows!Connected
    BY <1>0 DEF Rows!Connected
  <2>2. accounts' \in [Rows!Connected' -> [guild : Guild, secret : 0..secrets]]
    BY <1>0, <2>0, <2>1
  <2>3. \A q \in Rows!Connected : accounts'[q].guild = accounts[q].guild
    BY <1>0
  <2>4. \A p, q \in Rows!Connected' : accounts'[p].guild = accounts'[q].guild => p = q
    BY <2>1, <2>3 DEF Rows!TypeOK
  <2>5. /\ serial' \in Nat /\ serial <= serial' /\ serial' <= connects'
        /\ connects' \in 0..MaxConnects /\ backfill' \subseteq 1..serial'
        /\ Rows!Connected' \subseteq 1..serial'
    BY <1>0, <2>0, <2>1 DEF RowInv, Rows!TypeOK
  <2>6. mirror' \in [Rows!Ref -> SUBSET (1..events)]
        /\ \A q \in Rows!Ref \ Rows!Connected' : mirror'[q] = {}
    BY <2>0, <2>1 DEF Rows!TypeOK, Rows!GoneAccountsStayEmpty
  <2> QED BY <1>2, <2>2, <2>4, <2>5, <2>6
<1>5. ASSUME NEW r \in Rows!Connected, Rows!Disconnect(r) PROVE RowsInv'
  <2>0. UNCHANGED <<serial, connects, backfill>>
    BY <1>5 DEF Rows!Disconnect
  <2>1. Rows!Connected' = Rows!Connected \ {r}
        /\ accounts' = [q \in Rows!Connected' |-> accounts[q]]
    BY <1>5 DEF Rows!Disconnect, Rows!Connected, Rows!Less
  <2>2. accounts' \in [Rows!Connected' -> [guild : Guild, secret : 0..secrets]]
    BY <1>0, <2>1
  <2>3. \A p, q \in Rows!Connected' : accounts'[p].guild = accounts'[q].guild => p = q
    BY <2>1 DEF Rows!TypeOK
  <2>4. /\ serial' \in Nat /\ serial <= serial' /\ serial' <= connects'
        /\ connects' \in 0..MaxConnects /\ backfill' \subseteq 1..serial'
        /\ Rows!Connected' \subseteq 1..serial'
    BY <1>0, <2>0, <2>1 DEF RowInv, Rows!TypeOK
  <2>5. mirror' = [mirror EXCEPT ![r] = {}] /\ mirror \in [Rows!Ref -> SUBSET (1..events)]
    BY <1>5 DEF Rows!Disconnect, Rows!TypeOK
  <2>6. mirror' \in [Rows!Ref -> SUBSET (1..events)]
        /\ \A q \in Rows!Ref \ Rows!Connected' : mirror'[q] = {}
    BY <1>0, <2>1, <2>5 DEF Rows!GoneAccountsStayEmpty
  <2> QED BY <1>2, <2>2, <2>3, <2>4, <2>5, <2>6
<1> QED BY <1>3, <1>4, <1>5

(* Stripe only ever adds; what refers to it stays in range.                *)
LEMMA StripeStep ==
    ASSUME Rows!AccountsAssumption, RowsInv,
           \/ \E r \in 1..serial : Rows!MakeSecret(r)
           \/ Rows!Happen
           \/ \E e \in Rows!Event, r \in Rows!Ref : <<e, r>> \in open /\ Rows!GiveUp(e, r)
    PROVE  RowsInv'
<1> USE Rows!AccountsAssumption DEF RowsInv, Rows!AccountsAssumption
<1>0. secrets \in Nat /\ events \in Nat /\ serial \in Nat
  BY DEF RowInv, Rows!TypeOK
<1>1. UNCHANGED <<Rows!rowVars, mirror, seen, request, import>>
  BY DEF Rows!MakeSecret, Rows!Happen, Rows!GiveUp
<1>2. ASSUME secrets' \in Nat, secrets <= secrets', events' \in Nat, events <= events',
             DOMAIN endpoint' \subseteq 1..serial, open' \subseteq (1..events') \X (1..serial)
      PROVE  RowsInv'
  <2>1. /\ 1..events \subseteq 1..events' /\ 0..events \subseteq 0..events'
        /\ 0..secrets \subseteq 0..secrets'
    BY <1>0, <1>2
  <2>2. UNCHANGED <<accounts, serial, connects, backfill, Rows!Connected>>
    BY <1>1 DEF Rows!rowVars, Rows!Connected
  <2>3. Rows!TypeOK'
    <3>1. /\ mirror' \in [Rows!Ref -> SUBSET (1..events')]
          /\ import'.got \subseteq 1..events' /\ seen' \subseteq 1..events'
      BY <1>1, <2>1 DEF Rows!TypeOK
    <3>2. \A r \in Rows!Connected : accounts[r].secret \in 0..secrets'
      BY <2>1 DEF Rows!TypeOK
    <3> QED BY <1>1, <1>2, <2>2, <3>1, <3>2 DEF Rows!TypeOK, Rows!Ref
  <2>4. RowInv'
    <3>1. RequestOf \subseteq RequestOf'
      BY <2>1, <2>2 DEF RequestOf
    <3>2. \A r \in Rows!Connected : accounts[r] \in [guild : Guild, secret : 0..secrets']
      BY <2>1 DEF RowInv
    <3>3. accounts' \in [Rows!Connected' -> [guild : Guild, secret : 0..secrets']]
      BY <2>2, <3>2 DEF RowInv
    <3>4. request' \in [Handler -> RequestOf']
      BY <1>1, <3>1 DEF RowInv
    <3>5. \A h \in Handler : request'[h].at # "idle" =>
             request'[h].event \in 1..events' /\ request'[h].ref \in 1..serial'
      BY <1>1, <2>1, <2>2 DEF RowInv
    <3>6. import' \in [ref : 0..serial', got : SUBSET (1..events')]
      BY <1>1, <2>1, <2>2 DEF RowInv
    <3> QED BY <1>2, <2>2, <3>3, <3>4, <3>5, <3>6 DEF RowInv
  <2> QED BY <1>1, <2>2, <2>3, <2>4 DEF Rows!GoneAccountsStayEmpty, Rows!Ref
<1>3. ASSUME NEW r \in 1..serial, Rows!MakeSecret(r) PROVE RowsInv'
  <2>1. DOMAIN endpoint' = DOMAIN endpoint \cup {r}
    BY <1>3 DEF Rows!MakeSecret, Rows!With
  <2> QED BY <1>0, <1>2, <1>3, <2>1 DEF Rows!MakeSecret, Rows!TypeOK
<1>4. CASE Rows!Happen
  <2>1. 1..events \subseteq 1..events' /\ events' \in 1..events'
    BY <1>0, <1>4 DEF Rows!Happen
  <2>2. open' \subseteq (1..events') \X (1..serial)
    BY <1>4, <2>1 DEF Rows!Happen, Rows!TypeOK
  <2> QED BY <1>0, <1>2, <1>4, <2>2 DEF Rows!Happen, Rows!TypeOK
<1>5. ASSUME NEW e \in Rows!Event, NEW r \in Rows!Ref, Rows!GiveUp(e, r) PROVE RowsInv'
  BY <1>0, <1>2, <1>5 DEF Rows!GiveUp, Rows!stripeVars, Rows!TypeOK
<1> QED BY <1>3, <1>4, <1>5

(* What a request or an import writes, it writes for a connected account.  *)
LEMMA WriteStep ==
    ASSUME Rows!AccountsAssumption, RowsInv,
           \/ \E h \in Handler, e \in Rows!Event, r \in Rows!Ref : <<e, r>> \in open
                 /\ Rows!Receive(h, e, r)
           \/ \E h \in Handler : Rows!Step(h) \/ Rows!Die(h)
           \/ \E e \in seen : Rows!Collect(e)
           \/ \E r \in Rows!Ref : Rows!List(r)
           \/ Rows!Store
    PROVE  RowsInv'
<1> USE Rows!AccountsAssumption DEF RowsInv, Rows!AccountsAssumption
<1>0. events \in Nat /\ serial \in Nat /\ request \in [Handler -> RequestOf]
      /\ import \in [ref : 0..serial, got : SUBSET (1..events)]
      /\ mirror \in [Rows!Ref -> SUBSET (1..events)]
  BY DEF RowInv, Rows!TypeOK
<1>1. UNCHANGED <<accounts, serial, connects, Rows!stripeVars>>
  BY DEF Rows!Receive, Rows!Step, Rows!Insert, Rows!Apply, Rows!Reopen, Rows!Die, Rows!Collect,
     Rows!List, Rows!Store, Rows!rowVars
<1>2. ASSUME backfill' \subseteq backfill, open' \subseteq open, seen' \subseteq 1..events,
             request' \in [Handler -> RequestOf],
             \A h \in Handler : request'[h].at # "idle" =>
                request'[h].event \in 1..events /\ request'[h].ref \in 1..serial,
             import' \in [ref : 0..serial, got : SUBSET (1..events)],
             mirror' \in [Rows!Ref -> SUBSET (1..events)],
             \A r \in Rows!Ref \ Rows!Connected : mirror'[r] = {}
      PROVE  RowsInv'
  <2>1. UNCHANGED <<Rows!Connected, RequestOf, events, secrets, endpoint>>
    BY <1>1 DEF Rows!Connected, RequestOf, Rows!stripeVars
  <2>2. \A h \in Handler : request'[h].at \in {"idle", "insert", "apply", "reopen"}
    BY <1>2 DEF RequestOf
  <2>3. Rows!TypeOK'
    BY <1>1, <1>2, <2>1, <2>2 DEF Rows!TypeOK, Rows!Ref
  <2>4. RowInv'
    BY <1>1, <1>2, <2>1 DEF RowInv
  <2> QED BY <1>2, <2>1, <2>3, <2>4 DEF Rows!GoneAccountsStayEmpty, Rows!Ref
<1>3. Rows!NoRequest \in RequestOf /\ Rows!NoRequest.at = "idle"
  BY <1>0 DEF Rows!NoRequest, RequestOf
<1>4. ASSUME NEW h \in Handler, NEW row \in RequestOf,
             request' = [request EXCEPT ![h] = row],
             row.at # "idle" => row.event \in 1..events /\ row.ref \in 1..serial
      PROVE  /\ request' \in [Handler -> RequestOf]
             /\ \A g \in Handler : request'[g].at # "idle" =>
                  request'[g].event \in 1..events /\ request'[g].ref \in 1..serial
  BY <1>0, <1>4 DEF RowInv
<1>5. ASSUME NEW h \in Handler, NEW s \in {"apply", "reopen"}, request[h].at # "idle",
             Rows!Goto(h, s) \/ Rows!Answer(h)
      PROVE  /\ request' \in [Handler -> RequestOf]
             /\ \A g \in Handler : request'[g].at # "idle" =>
                  request'[g].event \in 1..events /\ request'[g].ref \in 1..serial
  <2>1. CASE Rows!Answer(h)
    BY <1>3, <1>4, <2>1 DEF Rows!Answer
  <2>2. CASE Rows!Goto(h, s)
    <3> DEFINE row == [request[h] EXCEPT !.at = s]
    <3>1. row \in RequestOf /\ row.event = request[h].event /\ row.ref = request[h].ref
      BY <1>0 DEF RequestOf
    <3>2. request' = [request EXCEPT ![h] = row]
      BY <2>2 DEF Rows!Goto
    <3> HIDE DEF row
    <3> QED BY <1>4, <1>5, <3>1, <3>2 DEF RowInv
  <2> QED BY <1>5, <2>1, <2>2
<1>6. ASSUME NEW r \in Rows!Connected, NEW w \in SUBSET (1..events),
      mirror' = [mirror EXCEPT ![r] = @ \cup w]
      PROVE  mirror' \in [Rows!Ref -> SUBSET (1..events)]
            /\ \A q \in Rows!Ref \ Rows!Connected : mirror'[q] = {}
  BY <1>0, <1>6 DEF Rows!GoneAccountsStayEmpty
<1>7. UNCHANGED mirror => mirror' \in [Rows!Ref -> SUBSET (1..events)]
      /\ \A q \in Rows!Ref \ Rows!Connected : mirror'[q] = {}
  BY <1>0 DEF Rows!GoneAccountsStayEmpty
<1>8. UNCHANGED request =>
         /\ request' \in [Handler -> RequestOf]
         /\ \A g \in Handler : request'[g].at # "idle" =>
              request'[g].event \in 1..events /\ request'[g].ref \in 1..serial
  BY <1>0 DEF RowInv
<1>9. seen \subseteq 1..events
  BY DEF Rows!TypeOK
<1>10. ASSUME NEW h \in Handler, NEW e \in Rows!Event, NEW r \in Rows!Ref, <<e, r>> \in open,
      Rows!Receive(h, e, r)
       PROVE  RowsInv'
  <2>1. e \in 1..events /\ r \in 1..serial
    BY <1>10 DEF Rows!TypeOK
  <2>2. [at |-> "insert", event |-> e, ref |-> r] \in RequestOf
    BY <2>1 DEF RequestOf
  <2>3. /\ request' \in [Handler -> RequestOf]
        /\ \A g \in Handler : request'[g].at # "idle" =>
             request'[g].event \in 1..events /\ request'[g].ref \in 1..serial
    <3>1. CASE UNCHANGED request
      BY <1>8, <3>1
    <3>2. CASE request' = [request EXCEPT ![h] = [at |-> "insert", event |-> e, ref |-> r]]
      BY <1>4, <2>1, <2>2, <3>2
    <3> QED BY <1>10, <3>1, <3>2 DEF Rows!Receive
  <2> QED BY <1>0, <1>2, <1>7, <1>9, <1>10, <2>3 DEF Rows!Receive, Rows!rowVars
<1>11. ASSUME NEW h \in Handler, Rows!Insert(h) PROVE RowsInv'
  <2>1. request[h].event \in 1..events
    BY <1>11 DEF Rows!Insert, RowInv
  <2>2. Rows!Goto(h, "apply") \/ Rows!Answer(h)
    BY <1>11 DEF Rows!Insert, Rows!Ack
  <2> QED BY <1>0, <1>2, <1>5, <1>7, <1>9, <1>11, <2>1, <2>2 DEF Rows!Insert, Rows!Ack, Rows!rowVars
<1>12. ASSUME NEW h \in Handler, Rows!Apply(h) PROVE RowsInv'
  <2>1. request[h].event \in 1..events /\ request[h].at # "idle"
    BY <1>12 DEF Rows!Apply, RowInv
  <2>2. Rows!Goto(h, "reopen") \/ Rows!Answer(h)
    BY <1>12 DEF Rows!Apply, Rows!Ack
  <2>3. mirror' \in [Rows!Ref -> SUBSET (1..events)]
        /\ \A q \in Rows!Ref \ Rows!Connected : mirror'[q] = {}
    <3>1. CASE UNCHANGED mirror
      BY <1>7, <3>1
    <3>2. CASE request[h].ref \in Rows!Connected
          /\ mirror' = [mirror EXCEPT ![request[h].ref] = @ \cup {request[h].event}]
      <4>1. {request[h].event} \in SUBSET (1..events)
        BY <2>1
      <4> QED BY <1>6, <3>2, <4>1
    <3> QED BY <1>12, <3>1, <3>2 DEF Rows!Apply
  <2> QED BY <1>0, <1>2, <1>5, <1>9, <1>12, <2>1, <2>2, <2>3 DEF Rows!Apply, Rows!Ack, Rows!rowVars
<1>13. ASSUME NEW h \in Handler, Rows!Reopen(h) \/ Rows!Die(h) PROVE RowsInv'
  <2>1. /\ request' \in [Handler -> RequestOf]
        /\ \A g \in Handler : request'[g].at # "idle" =>
             request'[g].event \in 1..events /\ request'[g].ref \in 1..serial
    BY <1>3, <1>4, <1>13 DEF Rows!Reopen, Rows!Die, Rows!Answer
  <2> QED BY <1>0, <1>2, <1>7, <1>9, <1>13, <2>1 DEF Rows!Reopen, Rows!Die, Rows!rowVars
<1>14. ASSUME NEW e \in seen, Rows!Collect(e) PROVE RowsInv'
  BY <1>0, <1>2, <1>7, <1>8, <1>9, <1>14 DEF Rows!Collect, Rows!rowVars
<1>15. ASSUME NEW r \in Rows!Ref, Rows!List(r) PROVE RowsInv'
  <2>1. import' \in [ref : 0..serial, got : SUBSET (1..events)]
    <3>0. Rows!Connected \subseteq 1..serial
      BY DEF Rows!TypeOK
    <3>1. r \in Rows!Connected => r \in 0..serial
      BY <1>0, <3>0
    <3> QED BY <1>0, <1>15, <3>1 DEF Rows!List, Rows!NoImport
  <2> QED BY <1>0, <1>2, <1>7, <1>8, <1>9, <1>15, <2>1 DEF Rows!List
<1>16. CASE Rows!Store
  <2>1. import' \in [ref : 0..serial, got : SUBSET (1..events)] /\ import.got \in SUBSET (1..events)
    BY <1>0, <1>16 DEF Rows!Store, Rows!NoImport
  <2>2. mirror' \in [Rows!Ref -> SUBSET (1..events)]
        /\ \A q \in Rows!Ref \ Rows!Connected : mirror'[q] = {}
    BY <1>6, <1>7, <1>16, <2>1 DEF Rows!Store
  <2> QED BY <1>0, <1>2, <1>8, <1>9, <1>16, <2>1, <2>2 DEF Rows!Store, Rows!rowVars
<1> QED BY <1>10, <1>11, <1>12, <1>13, <1>14, <1>15, <1>16 DEF Rows!Step

LEMMA RowsStep ==
    ASSUME Rows!AccountsAssumption PROVE RowsInv /\ [Rows!Next]_(Rows!vars) => RowsInv'
<1> SUFFICES ASSUME RowsInv, [Rows!Next]_(Rows!vars) PROVE RowsInv'
  OBVIOUS
<1>1. CASE UNCHANGED Rows!vars
  BY <1>1 DEF Rows!vars, Rows!rowVars, Rows!stripeVars, Rows!boundVars, RowsInv, Rows!TypeOK,
     RowInv,
     Rows!GoneAccountsStayEmpty, Rows!Connected, RequestOf, Rows!Ref
<1> QED BY <1>1, Rows!AccountsAssumption, AdminStep, StripeStep, WriteStep DEF Rows!Next

LEMMA RowsInvariance == ASSUME Rows!AccountsAssumption PROVE Rows!Spec => []RowsInv
<1> QED BY Rows!AccountsAssumption, RowsInit, RowsStep, PTL DEF Rows!Spec

(* The rows, the requests and the imports keep their types, and a guild    *)
(* has at most one row for the account.                                    *)
THEOREM RowsTypeCorrect == ASSUME Rows!AccountsAssumption PROVE Rows!Spec => []Rows!TypeOK
<1>1. RowsInv => Rows!TypeOK
  BY DEF RowsInv
<1> QED BY <1>1, Rows!AccountsAssumption, RowsInvariance, PTL

(* Nothing is mirrored for an account that is not connected, whatever was  *)
(* under way when it was disconnected.                                     *)
THEOREM NothingOutlivesARow ==
    ASSUME Rows!AccountsAssumption PROVE Rows!Spec => []Rows!GoneAccountsStayEmpty
<1>1. RowsInv => Rows!GoneAccountsStayEmpty
  BY DEF RowsInv
<1> QED BY <1>1, Rows!AccountsAssumption, RowsInvariance, PTL
=============================================================================
