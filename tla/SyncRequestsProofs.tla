-------------------------- MODULE SyncRequestsProofs --------------------------
(* No request for a sync is swallowed, for any number of links, rows,      *)
(* requests and changes.                                                   *)
EXTENDS SyncRequests, TLAPS

(* A request is about a bound link or the account, and about a change that *)
(* is committed; only bound links are waited for.                          *)
AskInv ==
    /\ \A r \in Requester : /\ asker[r].change <= stamp
                            /\ asker[r].pc # "idle" => asker[r].target \in bound \cup {Account}
                            /\ asker[r].pc = "look" => asker[r].target = Account
    /\ \A l \in Link : asked[l] <= stamp /\ (l \in bound \/ asked[l] = 0)

IInv == TypeOK /\ AskInv /\ NoRequestIsSwallowed

RowType ==
    /\ target \in [Row -> bound \cup {Account, None}] /\ status \in [Row -> Status]
    /\ due \in [Row -> BOOLEAN] /\ attempts \in [Row -> 0..MaxAttempts]
    /\ todo \in [Row -> SUBSET bound] /\ read \in [Row -> 0..MaxStamp]

Covered(l) == asked[l] <= synced[l] \/ \E j \in Row : Serves(j, l, asked[l])

-----------------------------------------------------------------------------
LEMMA LaterType == ASSUME NEW a \in Nat, NEW b \in Nat
                   PROVE  Later(a, b) \in {a, b} /\ a <= Later(a, b) /\ b <= Later(a, b)
BY DEF Later

LEMMA InvInit == Init => IInv
<1> SUFFICES ASSUME Init PROVE IInv
  OBVIOUS
<1>1. RowType
  <2>1. due \in [Row -> BOOLEAN]
    BY DEF Init
  <2> QED BY <2>1, RequestsAssumption DEF Init, RowType, Status
<1>2. TypeOK
  BY <1>1, RequestsAssumption DEF Init, TypeOK, RowType, Idle
<1>3. AskInv /\ NoRequestIsSwallowed
  BY DEF Init, AskInv, NoRequestIsSwallowed, Idle
<1> QED BY <1>2, <1>3 DEF IInv

(* A change is committed and its request begins.                           *)
LEMMA ChangeStep ==
    ASSUME IInv, NEW r \in Requester, NEW t \in Link \cup {Account}, Change(r, t),
           bound' = bound \cup ({t} \cap Link)
    PROVE  IInv'
<1> USE DEF IInv, Change
<1>1. stamp' \in 0..MaxStamp /\ stamp' = stamp + 1 /\ stamp \in 0..MaxStamp
  BY RequestsAssumption DEF TypeOK
<1>2. asker' \in [Requester -> [target : Link \cup {Account, None}, change : 0..MaxStamp,
                               pc : {"idle", "look", "insert"}]]
  BY <1>1 DEF TypeOK
<1>3. RowType'
  <2>1. due' \in [Row -> BOOLEAN]
    BY DEF rowVars, TypeOK
  <2>2. bound \subseteq bound'
    OBVIOUS
  <2>3. target' \in [Row -> bound' \cup {Account, None}] /\ todo' \in [Row -> SUBSET bound']
    BY <2>2 DEF rowVars, TypeOK
  <2> QED BY <2>1, <2>3 DEF rowVars, RowType, TypeOK
<1>4. TypeOK'
  BY <1>1, <1>2, <1>3 DEF TypeOK, RowType
<1>5. AskInv'
  BY <1>1 DEF AskInv, TypeOK
<1>6. NoRequestIsSwallowed'
  BY DEF NoRequestIsSwallowed, Serves, rowVars
<1> QED BY <1>4, <1>5, <1>6

(* A request that has returned Ok: if a row will run for what it asked,    *)
(* everyone who waits is served.                                           *)
LEMMA AskStep ==
    ASSUME IInv, NEW r \in Requester, asker[r].pc # "idle", Ask(r), RowType',
           UNCHANGED <<stamp, bound, todo, read, synced>>,
           \A j \in Row, l \in Link, n \in 0..MaxStamp : Serves(j, l, n) => Serves(j, l, n)',
           \E j \in Row : target'[j] = asker[r].target /\ status'[j] = "pending"
    PROVE  IInv'
<1> USE DEF IInv
<1>1. /\ asker[r].change \in 0..MaxStamp /\ asker[r].change <= stamp /\ stamp \in 0..MaxStamp
      /\ asker[r].target \in bound \cup {Account}
  BY DEF TypeOK, AskInv
<1>2. \A l \in Link : asked[l] \in 0..MaxStamp /\ asked[l] <= stamp /\ synced[l] \in 0..MaxStamp
  BY DEF TypeOK, AskInv
<1>3. \A l \in Link : /\ asked'[l] \in {asked[l], asker[r].change}
                      /\ asked'[l] # asked[l] => asker[r].target \in {l, Account} /\ l \in bound
  <2> SUFFICES ASSUME NEW l \in Link
               PROVE  /\ asked'[l] \in {asked[l], asker[r].change}
                      /\ asked'[l] # asked[l] => asker[r].target \in {l, Account} /\ l \in bound
    OBVIOUS
  <2> Later(asked[l], asker[r].change) \in {asked[l], asker[r].change}
    BY DEF Later
  <2> QED BY <1>1, RequestsAssumption DEF Ask
<1>4. asked' \in [Link -> 0..MaxStamp]
  BY <1>1, <1>2, <1>3 DEF Ask
<1>5. asker' \in [Requester -> [target : Link \cup {Account, None}, change : 0..MaxStamp,
                               pc : {"idle", "look", "insert"}]]
  BY RequestsAssumption DEF Ask, Idle, TypeOK
<1>6. TypeOK'
  BY <1>4, <1>5 DEF TypeOK, RowType
<1>7. AskInv'
  <2>1. \A p \in Requester : asker'[p] = asker[p] \/ asker'[p] = Idle
    BY DEF Ask, TypeOK
  <2>2. \A p \in Requester : /\ asker'[p].change <= stamp'
                             /\ asker'[p].pc # "idle" => asker'[p].target \in bound' \cup {Account}
                             /\ asker'[p].pc = "look" => asker'[p].target = Account
    BY <1>1, <2>1 DEF AskInv, Idle
  <2>3. \A l \in Link : asked'[l] <= stamp' /\ (l \in bound' \/ asked'[l] = 0)
    BY <1>1, <1>2, <1>3 DEF AskInv
  <2> QED BY <2>2, <2>3 DEF AskInv
<1>8. NoRequestIsSwallowed'
  <2> SUFFICES ASSUME NEW l \in Link
               PROVE  asked'[l] <= synced'[l] \/ \E j \in Row : Serves(j, l, asked[l])'
    BY DEF NoRequestIsSwallowed
  <2>1. CASE asked'[l] = asked[l]
    <3>1. CASE asked[l] <= synced[l]
      BY <2>1, <3>1
    <3>2. ASSUME NEW j \in Row, NEW n \in 0..MaxStamp, n = asked[l], Serves(j, l, n)
          PROVE  Serves(j, l, asked[l])'
      <4>1. Serves(j, l, n)'
        BY <3>2
      <4>2. n = asked'[l]
        BY <2>1, <3>2
      <4> QED BY <4>1, <4>2 DEF Serves
    <3> QED BY <1>2, <3>1, <3>2 DEF NoRequestIsSwallowed, Serves
  <2>2. CASE asked'[l] # asked[l]
    <3> PICK j \in Row : target'[j] = asker[r].target /\ status'[j] = "pending"
      OBVIOUS
    <3> target'[j] \in {l, Account}
      BY <1>3, <2>2
    <3> QED BY DEF Serves
  <2> QED BY <2>1, <2>2
<1> QED BY <1>6, <1>7, <1>8

(* A step of a row: whatever it would have served is served by then, or by *)
(* a row that is there afterwards.                                         *)
LEMMA ServeStep ==
    ASSUME IInv, UNCHANGED <<stamp, bound, asker, asked>>, RowType',
           synced' \in [Link -> 0..MaxStamp], \A l \in Link : synced[l] <= synced'[l],
           \A j \in Row, l \in Link, n \in 0..stamp :
              (l \in bound \/ n = 0) /\ Serves(j, l, n)
                 => n <= synced'[l] \/ \E i \in Row : Serves(i, l, n)'
    PROVE  IInv'
<1> USE DEF IInv
<1>1. TypeOK'
  BY DEF TypeOK, RowType
<1>2. AskInv'
  BY DEF AskInv
<1>3. NoRequestIsSwallowed'
  <2> SUFFICES ASSUME NEW l \in Link
               PROVE  asked[l] <= synced'[l] \/ \E j \in Row : Serves(j, l, asked[l])'
    BY DEF NoRequestIsSwallowed, Serves
  <2>0. asked[l] \in 0..stamp /\ (l \in bound \/ asked[l] = 0)
    BY DEF AskInv, TypeOK
  <2>1. CASE asked[l] <= synced[l]
    <3>1. asked[l] <= synced'[l]
      BY <2>1 DEF TypeOK
    <3> QED BY <3>1
  <2>2. ASSUME NEW j \in Row, NEW n \in 0..stamp, n = asked[l], Serves(j, l, n)
        PROVE  n <= synced'[l] \/ \E i \in Row : Serves(i, l, n)'
    BY <2>0, <2>2
  <2> QED BY <2>0, <2>1, <2>2 DEF NoRequestIsSwallowed, Serves
<1> QED BY <1>1, <1>2, <1>3

-----------------------------------------------------------------------------
(* A row keeps its type whatever happens to it.                            *)
LEMMA RowTypeStep ==
    ASSUME RowType, NEW j \in Row, NEW t \in bound \cup {Account, None}, NEW s \in Status,
           NEW d \in BOOLEAN, NEW a \in 0..MaxAttempts, NEW w \in SUBSET bound,
           NEW n \in 0..MaxStamp, bound' = bound,
           target' \in {target, [target EXCEPT ![j] = t]},
           status' \in {status, [status EXCEPT ![j] = s]},
           due' \in {due, [due EXCEPT ![j] = d]},
           attempts' \in {attempts, [attempts EXCEPT ![j] = a]},
           todo' \in {todo, [todo EXCEPT ![j] = w]}, read' \in {read, [read EXCEPT ![j] = n]}
    PROVE  RowType'
<1>1. due' \in [Row -> BOOLEAN]
  BY DEF RowType
<1>2. target' \in [Row -> bound' \cup {Account, None}] /\ status' \in [Row -> Status]
  BY DEF RowType
<1>3. attempts' \in [Row -> 0..MaxAttempts] /\ read' \in [Row -> 0..MaxStamp]
  BY DEF RowType
<1>4. todo' \in [Row -> SUBSET bound']
  BY DEF RowType
<1> QED BY <1>1, <1>2, <1>3, <1>4 DEF RowType

LEMMA TypeOfRow == TypeOK => RowType
BY DEF TypeOK, RowType

LEMMA Statuses == \A s \in {"free", "pending", "claimed", "begun", "held", "over"} : s \in Status
BY DEF Status, InProgress

(* The clock, a claim and the first statement of a dispatch.               *)
LEMMA TakeStep == ASSUME IInv, NEW j \in Row, Mature(j) \/ Claim(j) \/ Begin(j) PROVE IInv'
<1> USE DEF IInv, Goto
<1>0. RowType /\ stamp \in 0..MaxStamp
  BY TypeOfRow DEF TypeOK
<1>1. UNCHANGED <<stamp, bound, asker, target, asked, synced>>
  BY DEF Mature, Claim, Begin
<1>2. CASE Mature(j)
  <2>1. RowType'
    <3>1. due' = [due EXCEPT ![j] = TRUE] /\ UNCHANGED <<target, status, attempts, todo, read>>
      BY <1>2 DEF Mature
    <3> QED BY <1>0, <1>1, <3>1, Statuses, RowTypeStep DEF RowType
  <2> QED BY <1>1, <1>2, <2>1, ServeStep DEF Mature, Serves, TypeOK
<1>3. CASE Claim(j)
  <2>1. RowType'
    <3> DEFINE a == IF attempts[j] < MaxAttempts THEN attempts[j] + 1 ELSE attempts[j]
    <3>1. a \in 0..MaxAttempts
      BY <1>0, RequestsAssumption DEF RowType
    <3>2. /\ due' = [due EXCEPT ![j] = FALSE] /\ attempts' = [attempts EXCEPT ![j] = a]
          /\ status' = [status EXCEPT ![j] = "claimed"] /\ UNCHANGED <<target, todo, read>>
      BY <1>3 DEF Claim
    <3> HIDE DEF a
    <3> QED BY <1>0, <1>1, <3>1, <3>2, Statuses, RowTypeStep DEF RowType
  <2> QED BY <1>0, <1>1, <1>3, <2>1, ServeStep DEF Claim, Serves, RowType, TypeOK
<1>4. CASE Begin(j)
  <2>1. RowType'
    <3>1. /\ status' = [status EXCEPT ![j] = "begun"] /\ UNCHANGED <<target, due, attempts>>
          /\ todo' \in {todo, [todo EXCEPT ![j] = bound]}
          /\ read' \in {read, [read EXCEPT ![j] = stamp]}
      BY <1>4 DEF Begin
    <3> QED BY <1>0, <1>1, <3>1, Statuses, RowTypeStep DEF RowType
  <2>2. ASSUME NEW i \in Row, NEW l \in Link, NEW n \in 0..stamp, l \in bound \/ n = 0, Serves(i, l, n)
        PROVE  n <= synced'[l] \/ Serves(i, l, n)'
    <3>1. CASE i # j
      BY <1>0, <1>1, <1>4, <2>2, <3>1 DEF Begin, Serves, RowType
    <3>2. CASE i = j /\ target[j] = l
      BY <1>0, <1>1, <1>4, <2>2, <3>2, RequestsAssumption DEF Begin, Serves, RowType
    <3>3. CASE i = j /\ target[j] = Account
      <4>1. CASE l \in bound
        BY <1>0, <1>1, <1>4, <2>2, <3>3, <4>1 DEF Begin, Serves, RowType
      <4>2. CASE n = 0
        BY <1>1, <4>2 DEF TypeOK
      <4> QED BY <2>2, <4>1, <4>2
    <3> QED BY <1>4, <2>2, <3>1, <3>2, <3>3 DEF Begin, Serves
  <2> QED BY <1>1, <2>1, <2>2, ServeStep DEF TypeOK
<1> QED BY <1>2, <1>3, <1>4

(* Row i is inserted: nothing else changes, so nobody loses a row.         *)
LEMMA InsertRows ==
    ASSUME RowType, NEW i \in Row, NEW t \in bound \cup {Account}, NEW d \in BOOLEAN,
           Insert(i, t, d), UNCHANGED <<bound, read>>,
           todo' = todo \/ \E j \in Row : todo' = [todo EXCEPT ![j] = todo[j] \ {t}]
    PROVE  RowType'
<1> USE DEF Insert
<1>1. due' \in [Row -> BOOLEAN]
  BY DEF RowType
<1>2. target' \in [Row -> bound' \cup {Account, None}] /\ status' \in [Row -> Status]
  BY Statuses DEF RowType
<1>3. attempts' \in [Row -> 0..MaxAttempts]
  BY RequestsAssumption DEF RowType
<1>4. todo' \in [Row -> SUBSET bound']
  BY DEF RowType
<1> QED BY <1>1, <1>2, <1>3, <1>4 DEF RowType

LEMMA FanOutStep == ASSUME IInv, NEW j \in Row, NEW l \in Link, FanOut(j, l) PROVE IInv'
<1> USE DEF IInv, FanOut
<1>1. RowType /\ l \in bound
  BY TypeOfRow DEF RowType
<1> PICK i \in Row : Insert(i, l, FALSE)
  OBVIOUS
<1>2. i # j /\ status[i] = "free"
  BY DEF Insert
<1>3. RowType'
  BY <1>1, InsertRows
<1>4. /\ target'[i] = l /\ status'[i] = "pending"
      /\ \A k \in Row : k # i => target'[k] = target[k] /\ status'[k] = status[k]
      /\ \A k \in Row : k # j => todo'[k] = todo[k]
      /\ todo'[j] = todo[j] \ {l}
  BY <1>1 DEF Insert, RowType
<1>5. ASSUME NEW k \in Row, NEW m \in Link, NEW n \in 0..stamp, Serves(k, m, n)
      PROVE  \E h \in Row : Serves(h, m, n)'
  <2>1. CASE k = j /\ m = l
    BY <1>4, <2>1 DEF Serves
  <2>2. CASE k # j \/ m # l
    BY <1>2, <1>4, <1>5, <2>2 DEF Serves
  <2> QED BY <2>1, <2>2
<1> QED BY <1>3, <1>5, ServeStep DEF TypeOK

(* The other steps of a run that goes well.                                *)
LEMMA GoodStep ==
    ASSUME IInv, NEW j \in Row, FannedOut(j) \/ Sync(j) \/ Hold(j) PROVE IInv'
<1> USE DEF IInv, Goto
<1>0. RowType /\ \A l \in Link : synced[l] \in 0..MaxStamp
  BY TypeOfRow DEF TypeOK
<1>1. UNCHANGED <<stamp, bound, asker, target, due, attempts, todo, read, asked>>
  BY DEF FannedOut, Sync, Hold
<1>2. RowType'
  <2>1. status' \in {[status EXCEPT ![j] = "over"], [status EXCEPT ![j] = "held"]}
    BY DEF FannedOut, Sync, Hold
  <2> QED BY <1>0, <1>1, <2>1, Statuses, RowTypeStep DEF RowType
<1>3. CASE FannedOut(j)
  BY <1>0, <1>1, <1>2, <1>3, ServeStep, RequestsAssumption DEF FannedOut, Serves, RowType, TypeOK
<1>4. CASE Hold(j)
  BY <1>0, <1>1, <1>2, <1>4, ServeStep, RequestsAssumption DEF Hold, Serves, RowType, TypeOK
<1>5. CASE Sync(j)
  <2>1. read[j] \in 0..MaxStamp /\ read[j] \in Nat
    BY <1>0 DEF RowType
  <2>2. \A l \in Link : /\ synced'[l] \in 0..MaxStamp /\ synced[l] <= synced'[l]
                        /\ target[j] = l => read[j] <= synced'[l]
    <3> SUFFICES ASSUME NEW l \in Link
                 PROVE  /\ synced'[l] \in 0..MaxStamp /\ synced[l] <= synced'[l]
                        /\ target[j] = l => read[j] <= synced'[l]
      OBVIOUS
    <3>1. CASE target[j] = l
      <4>1. synced'[l] = Later(synced[l], read[j])
        BY <1>5, <3>1 DEF Sync, TypeOK
      <4> QED BY <1>0, <2>1, <4>1, LaterType
    <3>2. CASE target[j] # l
      BY <1>0, <1>5, <3>2 DEF Sync, TypeOK
    <3> QED BY <3>1, <3>2
  <2>3. synced' \in [Link -> 0..MaxStamp]
    BY <1>5, <2>2 DEF Sync, TypeOK
  <2>4. ASSUME NEW k \in Row, NEW m \in Link, NEW n \in 0..stamp, Serves(k, m, n)
        PROVE  n <= synced'[m] \/ Serves(k, m, n)'
    <3>1. CASE k # j
      BY <1>0, <1>1, <1>5, <2>4, <3>1 DEF Sync, Serves, RowType
    <3>2. CASE k = j
      <4>1. target[j] = m /\ n <= read[j]
        BY <1>5, <2>4, <3>2, RequestsAssumption DEF Sync, Serves
      <4>2. synced'[m] \in Nat /\ n \in Nat /\ read[j] \in Nat /\ read[j] <= synced'[m]
        BY <2>1, <2>2, <4>1 DEF TypeOK
      <4> QED BY <4>1, <4>2
    <3> QED BY <3>1, <3>2
  <2> QED BY <1>1, <1>2, <2>2, <2>3, <2>4, ServeStep
<1> QED BY <1>3, <1>4, <1>5

LEMMA RecheckStep == ASSUME IInv, NEW j \in Row, Recheck(j) PROVE IInv'
<1> USE DEF IInv, Recheck, Goto
<1>0. RowType
  BY TypeOfRow
<1>1. UNCHANGED <<stamp, bound, asker, todo, read, asked, synced>>
  OBVIOUS
<1>2. CASE Queued(target[j])
  <2>1. status' = [status EXCEPT ![j] = "over"] /\ UNCHANGED <<target, due, attempts>>
    BY <1>2
  <2>2. RowType'
    BY <1>0, <1>1, <2>1, Statuses, RowTypeStep DEF RowType
  <2> PICK i \in Row : target[i] = target[j] /\ status[i] = "pending"
    BY <1>2 DEF Queued
  <2>3. ASSUME NEW k \in Row, NEW m \in Link, NEW n \in 0..stamp, Serves(k, m, n)
        PROVE  \E h \in Row : Serves(h, m, n)'
    <3>1. i # j /\ status'[i] = "pending"
      BY <1>0, <2>1 DEF RowType
    <3>2. CASE k = j
      <4>1. Serves(i, m, n)'
        BY <1>1, <2>1, <2>3, <3>1, <3>2 DEF Serves
      <4> QED BY <4>1
    <3>3. CASE k # j
      BY <1>0, <1>1, <2>1, <2>3, <3>3 DEF Serves, RowType
    <3> QED BY <3>2, <3>3
  <2> QED BY <1>1, <2>2, <2>3, ServeStep DEF TypeOK
<1>3. CASE ~Queued(target[j])
  <2> PICK i \in Row : /\ status[i] = "free"
                       /\ target' = [target EXCEPT ![i] = target[j]]
                       /\ status' = [status EXCEPT ![i] = "pending", ![j] = "over"]
                       /\ due' = [due EXCEPT ![i] = FALSE]
                       /\ attempts' = [attempts EXCEPT ![i] = 0]
    BY <1>3
  <2>1. i # j /\ target[j] \in bound \cup {Account, None}
    BY <1>0 DEF RowType
  <2>2. RowType'
    <3>1. due' \in [Row -> BOOLEAN]
      BY <1>0 DEF RowType
    <3>2. target' \in [Row -> bound' \cup {Account, None}] /\ status' \in [Row -> Status]
      BY <1>0, <2>1, Statuses DEF RowType
    <3>3. attempts' \in [Row -> 0..MaxAttempts]
      BY <1>0, RequestsAssumption DEF RowType
    <3> QED BY <1>0, <3>1, <3>2, <3>3 DEF RowType
  <2>3. /\ target'[i] = target[j] /\ status'[i] = "pending"
        /\ \A k \in Row : k \notin {i, j} => target'[k] = target[k] /\ status'[k] = status[k]
    BY <1>0, <2>1 DEF RowType
  <2>4. ASSUME NEW k \in Row, NEW m \in Link, NEW n \in 0..stamp, Serves(k, m, n)
        PROVE  \E h \in Row : Serves(h, m, n)'
    <3>1. CASE k = j
      <4>0. status[j] = "held"
        OBVIOUS
      <4>1. target[j] = m
        BY <2>4, <3>1, <4>0 DEF Serves
      <4>2. Serves(i, m, n)'
        BY <2>3, <4>1 DEF Serves
      <4> QED BY <4>2
    <3>2. CASE k # j
      BY <1>1, <2>3, <2>4, <3>2 DEF Serves
    <3> QED BY <3>1, <3>2
  <2>5. synced' \in [Link -> 0..MaxStamp] /\ \A l \in Link : synced[l] <= synced'[l]
    BY <1>1 DEF TypeOK
  <2> HIDE DEF IInv, Recheck
  <2> QED BY ONLY IInv, <1>1, <2>2, <2>4, <2>5, ServeStep
<1> QED BY <1>2, <1>3

(* A row leaves a worker's hands: it waits again, or nobody waits for it.  *)
LEMMA PendStep == ASSUME IInv, NEW j \in Row, NEW d \in BOOLEAN, Pend(j, d), status[j] # "free"
                  PROVE  IInv'
<1> USE DEF IInv, Pend, Goto
<1>0. RowType
  BY TypeOfRow
<1>1. RowType'
  <2>1. 0 \in 0..MaxStamp /\ {} \in SUBSET bound
    BY RequestsAssumption
  <2>2. /\ status' = [status EXCEPT ![j] = "pending"] /\ due' = [due EXCEPT ![j] = d]
        /\ todo' = [todo EXCEPT ![j] = {}] /\ read' = [read EXCEPT ![j] = 0]
        /\ UNCHANGED <<bound, target, attempts>>
    OBVIOUS
  <2> QED BY <1>0, <2>1, <2>2, Statuses, RowTypeStep DEF RowType
<1>2. ASSUME NEW k \in Row, NEW m \in Link, NEW n \in 0..stamp, Serves(k, m, n)
      PROVE  Serves(k, m, n)'
  BY <1>0, <1>2 DEF Serves, RowType
<1> QED BY <1>1, <1>2, ServeStep DEF TypeOK

LEMMA FreeStep ==
    ASSUME IInv, NEW j \in Row, Free(j),
           \/ status[j] = "over" /\ UNCHANGED asked
           \/ asked' = [l \in Link |-> IF target[j] \in {l, Account} THEN 0 ELSE asked[l]]
    PROVE  IInv'
<1> USE DEF IInv, Free, Goto
<1>0. RowType
  BY TypeOfRow
<1>1. RowType'
  <2>1. 0 \in 0..MaxStamp /\ 0 \in 0..MaxAttempts /\ {} \in SUBSET bound
    BY RequestsAssumption
  <2>2. /\ status' = [status EXCEPT ![j] = "free"] /\ due' = [due EXCEPT ![j] = FALSE]
        /\ target' = [target EXCEPT ![j] = None] /\ attempts' = [attempts EXCEPT ![j] = 0]
        /\ todo' = [todo EXCEPT ![j] = {}] /\ read' = [read EXCEPT ![j] = 0] /\ UNCHANGED bound
    OBVIOUS
  <2> QED BY <1>0, <2>1, <2>2, Statuses, RowTypeStep DEF RowType
<1>2. \A l \in Link : asked'[l] \in {0, asked[l]} /\ asked[l] \in 0..MaxStamp
  BY DEF TypeOK
<1>3. asked' \in [Link -> 0..MaxStamp]
  <2>1. asked \in [Link -> 0..MaxStamp] /\ 0 \in 0..MaxStamp
    BY RequestsAssumption DEF TypeOK
  <2> QED BY <2>1
<1>4. TypeOK'
  BY <1>1, <1>3 DEF TypeOK, RowType
<1>5. AskInv'
  <2>1. \A l \in Link : asked'[l] <= stamp' /\ (l \in bound' \/ asked'[l] = 0)
    BY <1>2 DEF AskInv, TypeOK
  <2> QED BY <2>1 DEF AskInv
<1>6. NoRequestIsSwallowed'
  <2> SUFFICES ASSUME NEW l \in Link
               PROVE  asked'[l] <= synced[l] \/ \E k \in Row : Serves(k, l, asked[l])'
    BY DEF NoRequestIsSwallowed
  <2>1. CASE asked'[l] = 0
    BY <2>1 DEF TypeOK
  <2>2. CASE asked'[l] # 0
    <3>1. asked'[l] = asked[l] /\ (status[j] = "over" \/ target[j] \notin {l, Account})
      BY <1>2, <2>2
    <3>2. ASSUME NEW k \in Row, Serves(k, l, asked[l])
          PROVE  Serves(k, l, asked[l])'
      <4>1. k # j
        BY <3>1, <3>2 DEF Serves
      <4>2. target'[k] = target[k] /\ status'[k] = status[k] /\ todo'[k] = todo[k] /\ read'[k] = read[k]
        BY <1>0, <4>1 DEF RowType
      <4> QED BY <3>1, <3>2, <4>2 DEF Serves
    <3> QED BY <3>1, <3>2 DEF NoRequestIsSwallowed
  <2> QED BY <2>1, <2>2
<1> QED BY <1>4, <1>5, <1>6

LEMMA RowInv == IInv /\ RowStep => IInv'
<1> SUFFICES ASSUME IInv, NEW j \in Row,
                    Mature(j) \/ Claim(j) \/ Begin(j) \/ Run(j) \/ Complete(j) \/ Return(j)
             PROVE  IInv'
  BY DEF RowStep
<1>1. CASE Mature(j) \/ Claim(j) \/ Begin(j)
  BY <1>1, TakeStep
<1>2. CASE FannedOut(j) \/ Sync(j) \/ Hold(j)
  BY <1>2, GoodStep
<1>3. CASE \E l \in Link : FanOut(j, l)
  BY <1>3, FanOutStep
<1>4. CASE Recheck(j)
  BY <1>4, RecheckStep
<1>5. CASE Fail(j)
  BY <1>5, PendStep, FreeStep DEF Fail
<1>6. CASE Complete(j)
  BY <1>6, FreeStep DEF Complete
<1>7. CASE Return(j)
  BY <1>7, PendStep DEF Return, InProgress
<1> QED BY <1>1, <1>2, <1>3, <1>4, <1>5, <1>6, <1>7 DEF Run

-----------------------------------------------------------------------------
(* A request that only goes on, or ends without having asked.              *)
LEMMA AskerStep ==
    ASSUME IInv, NEW r \in Requester, UNCHANGED <<stamp, bound, rowVars, asked, synced>>,
           \/ asker' = [asker EXCEPT ![r].pc = "insert"] /\ asker[r].pc = "look"
           \/ asker' = [asker EXCEPT ![r] = Idle]
    PROVE  IInv'
<1> USE DEF IInv
<1>1. asker' \in [Requester -> [target : Link \cup {Account, None}, change : 0..MaxStamp,
                               pc : {"idle", "look", "insert"}]]
  BY RequestsAssumption DEF TypeOK, Idle
<1>2. RowType'
  BY TypeOfRow DEF rowVars, RowType
<1>3. TypeOK'
  BY <1>1, <1>2 DEF TypeOK, RowType
<1>4. AskInv'
  <2>1. \A p \in Requester :
           \/ asker'[p] = asker[p] \/ asker'[p] = Idle
           \/ asker'[p] = [asker[p] EXCEPT !.pc = "insert"] /\ asker[p].pc = "look"
    BY DEF TypeOK
  <2>2. \A p \in Requester : /\ asker'[p].change <= stamp'
                             /\ asker'[p].pc # "idle" => asker'[p].target \in bound' \cup {Account}
                             /\ asker'[p].pc = "look" => asker'[p].target = Account
    BY <2>1 DEF AskInv, Idle, TypeOK
  <2> QED BY <2>2 DEF AskInv
<1>5. NoRequestIsSwallowed'
  BY DEF NoRequestIsSwallowed, Serves, rowVars
<1> QED BY <1>3, <1>4, <1>5

LEMMA RequestInv == IInv /\ RequestStep => IInv'
<1> SUFFICES ASSUME IInv, NEW r \in Requester,
                    \/ Import(r) \/ Look(r) \/ Request(r) \/ NotAsked(r)
                    \/ \E l \in Link : Save(r, l)
             PROVE  IInv'
  BY DEF RequestStep
<1>0. RowType
  BY TypeOfRow DEF IInv
<1>1. CASE Import(r)
  <2>1. bound' = bound \cup ({Account} \cap Link)
    BY <1>1, RequestsAssumption DEF Import
  <2> QED BY <1>1, <2>1, ChangeStep DEF Import
<1>2. ASSUME NEW l \in Link, Save(r, l) PROVE IInv'
  <2>1. bound' = bound \cup ({l} \cap Link)
    BY <1>2 DEF Save
  <2> QED BY <1>2, <2>1, ChangeStep DEF Save
<1>3. CASE Look(r) /\ Queued(Account)
  <2>1. asker[r].pc # "idle" /\ Ask(r) /\ UNCHANGED <<stamp, bound, rowVars, synced>>
    BY <1>3 DEF Look
  <2>2. PICK j \in Row : target[j] = Account /\ status[j] = "pending"
    BY <1>3 DEF Queued
  <2>3. asker[r].target = Account
    BY <1>3 DEF Look, IInv, AskInv
  <2> QED BY <1>0, <2>1, <2>2, <2>3, AskStep DEF rowVars, RowType, Serves
<1>4. CASE (Look(r) /\ ~Queued(Account)) \/ NotAsked(r)
  <2>1. UNCHANGED <<stamp, bound, rowVars, asked, synced>>
    BY <1>4 DEF Look, NotAsked
  <2>2. (asker' = [asker EXCEPT ![r].pc = "insert"] /\ asker[r].pc = "look") \/ asker' = [asker EXCEPT ![r] = Idle]
    BY <1>4 DEF Look, NotAsked
  <2> QED BY <2>1, <2>2, AskerStep
<1>5. CASE Request(r)
  <2>1. /\ asker[r].pc # "idle" /\ Ask(r) /\ UNCHANGED <<stamp, bound, todo, read, synced>>
        /\ asker[r].target \in bound \cup {Account}
    BY <1>5 DEF Request, IInv, AskInv
  <2>2. PICK i \in Row : Insert(i, asker[r].target, asker[r].target = Account)
    BY <1>5 DEF Request
  <2>3. RowType'
    BY <1>0, <2>1, <2>2, InsertRows
  <2>4. /\ target'[i] = asker[r].target /\ status'[i] = "pending" /\ status[i] = "free"
        /\ \A k \in Row : k # i => target'[k] = target[k] /\ status'[k] = status[k]
    BY <1>0, <2>2 DEF Insert, RowType
  <2>5. \A k \in Row, l \in Link, n \in 0..MaxStamp : Serves(k, l, n) => Serves(k, l, n)'
    BY <2>1, <2>4 DEF Serves
  <2> QED BY <2>1, <2>3, <2>4, <2>5, AskStep
<1> QED BY <1>1, <1>2, <1>3, <1>4, <1>5

LEMMA InvStep == IInv /\ [Next]_vars => IInv'
<1> SUFFICES ASSUME IInv, [Next]_vars PROVE IInv'
  OBVIOUS
<1>1. CASE UNCHANGED vars
  <2>1. UNCHANGED <<stamp, bound, asker, target, status, due, attempts, todo, read, asked, synced>>
    BY <1>1 DEF vars, rowVars
  <2>2. RowType'
    BY <2>1, TypeOfRow DEF IInv, RowType
  <2>3. TypeOK'
    BY <2>1, <2>2 DEF IInv, TypeOK, RowType
  <2> QED BY <2>1, <2>3 DEF IInv, AskInv, NoRequestIsSwallowed, Serves
<1> QED BY <1>1, RowInv, RequestInv DEF Next

THEOREM Invariance == Spec => []IInv
<1> QED BY InvInit, InvStep, PTL DEF Spec

(* Rows and requests keep their types and are about bound links only.      *)
THEOREM TypeCorrect == Spec => []TypeOK
<1>1. IInv => TypeOK
  BY DEF IInv
<1> QED BY <1>1, Invariance, PTL

(* No request for a sync is swallowed by the checks for queued rows.       *)
THEOREM RequestsAreServed == Spec => []NoRequestIsSwallowed
<1>1. IInv => NoRequestIsSwallowed
  BY DEF IInv
<1> QED BY <1>1, Invariance, PTL
=============================================================================
