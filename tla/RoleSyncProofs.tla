---------------------------- MODULE RoleSyncProofs ----------------------------
(***************************************************************************)
(* Proofs about RoleSync, for every number of members and workers and      *)
(* whatever the bounds: type correctness; a role is granted only by a job  *)
(* whose window justifies it, and taken only by one whose window does or   *)
(* that fills the list; a live row falls only to an old token;             *)
(* with one worker (WORKER_CONCURRENCY=1) the mirror is exact; and the     *)
(* jobs implement RoleList.                                                *)
(***************************************************************************)
EXTENDS RoleSync, TLAPS, FiniteSetTheorems, WellFoundedInduction

LEMMA BulkIsNoMember == Bulk \notin Member
  BY DEF Bulk, Member

USE DEF envVars, listVars, jobVars, boundVars, historyVars, vars

-----------------------------------------------------------------------------
(* Type correctness.                                                       *)

LEMMA FirstIsPart == \A S : First(S) \subseteq S
  BY DEF First

LEMMA InitTypeOK == Init => TypeOK
  <1> SUFFICES ASSUME Init PROVE TypeOK
    OBVIOUS
  <1>1. roles \subseteq Member /\ mirror \subseteq Member
    <2>1. Entitled \subseteq Member
      BY DEF Entitled, Passing
    <2> QED
      BY <2>1, FirstIsPart DEF Init
  <1>2. \A w \in Worker : pc[w] \notin PlayerPC /\ job[w] \notin Member
    BY BulkIsNoMember DEF Init, PlayerPC, Idle
  <1>3. /\ job \in [Worker -> Jobs] /\ pc \in [Worker -> PlayerPC \cup BulkPC \cup {Idle}]
        /\ queue \subseteq Jobs
    BY DEF Init, Jobs
  <1>4. facts \in [Member -> SUBSET Rule]
    BY DEF Init
  <1> QED
    BY <1>1, <1>2, <1>3, <1>4 DEF Init, TypeOK

(* The world changes no job.                                               *)
LEMMA WorldTypeOK ==
  ASSUME TypeOK, World
  PROVE  TypeOK'
  <1> USE DEF TypeOK
  <1>1. ASSUME WindowsGrow, optout' \subseteq Member
        PROVE  /\ admitted' \in [Worker -> SUBSET Member]
               /\ passing' \in [Worker -> SUBSET Member]
               /\ lapsed' \in [Worker -> SUBSET Member]
               /\ rules' \in [Worker -> SUBSET (Rule \cup {None})]
    <2>1. InForce' \in Rule \cup {None}
      BY DEF InForce
    <2> QED
      BY <1>1, <2>1 DEF WindowsGrow, MeetsOne, MeetsAll
  <1>2. ASSUME NEW m \in Member, ChangeFacts(m) PROVE TypeOK'
    BY <1>2, <1>1 DEF ChangeFacts, Change, Outside, Jobs
  <1>3. ASSUME NEW m \in Member, Refresh(m) PROVE TypeOK'
    BY <1>3 DEF Refresh, Jobs
  <1>4. ASSUME NEW m \in Member, ChangeOptout(m) PROVE TypeOK'
    BY <1>4, <1>1 DEF ChangeOptout, Change, Outside
  <1>5. CASE SaveRule
    BY <1>5, <1>1 DEF SaveRule, Change, Outside, Jobs
  <1>6. CASE Disconnect
    <2>1. facts' \in [Member -> SUBSET Rule] /\ rule' = [w \in Worker |-> None]
      BY <1>6 DEF Disconnect
    <2>2. optout' = optout
      BY <1>6 DEF Disconnect
    <2>3. /\ admitted' \in [Worker -> SUBSET Member]
          /\ passing' \in [Worker -> SUBSET Member]
          /\ lapsed' \in [Worker -> SUBSET Member]
          /\ rules' \in [Worker -> SUBSET (Rule \cup {None})]
      BY <1>6, <1>1, <2>2 DEF Disconnect, Outside
    <2>4. /\ account' = FALSE /\ config' = "unbound" /\ changes' = changes + 1
          /\ UNCHANGED <<optout, token, upToken, paused, listVars, queue, job, tok, seen, want, pc,
                         errors, torn, holds, relinks>>
      BY <1>6 DEF Disconnect, Change, Outside
    <2>5. account' \in BOOLEAN
      BY <2>4, Zenon
    <2> QED
      BY <2>1, <2>3, <2>4, <2>5
  <1>7. CASE Connect
    BY <1>7, <1>1 DEF Connect, Change, Outside
  <1>8. CASE Pause
    BY <1>8, <1>1 DEF Pause, Change, Outside
  <1>9. CASE Reconcile
    BY <1>9 DEF Reconcile, Jobs
  <1>10. CASE DeleteUpstream
    BY <1>10, <1>1 DEF DeleteUpstream, DropRow
  <1>11. CASE Register
    BY <1>11, <1>1 DEF Register, Outside
  <1> QED
    BY <1>2, <1>3, <1>4, <1>5, <1>6, <1>7, <1>8, <1>9, <1>10, <1>11 DEF World

(* TypeOK in two halves: what the workers hold, and the rest.              *)
WorkerType ==
    /\ job \in [Worker -> Jobs] /\ pc \in [Worker -> PlayerPC \cup BulkPC \cup {Idle}]
    /\ tok \in [Worker -> Nat] /\ rule \in [Worker -> Rule \cup {None}]
    /\ seen \in [Worker -> SUBSET Member] /\ want \in [Worker -> SUBSET Member]
    /\ rules \in [Worker -> SUBSET (Rule \cup {None})]
    /\ admitted \in [Worker -> SUBSET Member]
    /\ passing \in [Worker -> SUBSET Member]
    /\ lapsed \in [Worker -> SUBSET Member]
    /\ \A w \in Worker :
         /\ pc[w] \in PlayerPC <=> job[w] \in Member
         /\ pc[w] = Idle => tok[w] = 0 /\ rule[w] = None /\ seen[w] = {} /\ want[w] = {}

SharedType ==
    /\ account \in BOOLEAN /\ paused \in BOOLEAN
    /\ facts \in [Member -> SUBSET Rule]
    /\ optout \subseteq Member /\ config \in {"unbound", "empty"} \cup Rule
    /\ token \in Nat /\ upToken \in Nat
    /\ roles \subseteq Member /\ mirror \subseteq Member /\ queue \subseteq Jobs
    /\ changes \in Nat /\ errors \in Nat /\ torn \in Nat /\ holds \in Nat /\ relinks \in Nat

LEMMA TypeHalves == TypeOK <=> WorkerType /\ SharedType
  BY DEF TypeOK, WorkerType, SharedType

LEMMA PlacesDiffer ==
  /\ PlayerPC = {"guilds", "customer", "vet", "links", "assigned", "strip", "facts",
                 "add", "remove", "record"}
  /\ BulkPC = {"link", "optouts", "info", "query", "compare", "put", "store"}
  /\ Idle = "idle"
  BY DEF PlayerPC, BulkPC, Idle

LEMMA LeaveType ==
  ASSUME WorkerType, NEW w \in Worker, Leave(w)
  PROVE  WorkerType'
  <1>1. Idle \notin PlayerPC /\ Bulk \notin Member /\ Bulk \in Jobs
    BY BulkIsNoMember, PlacesDiffer DEF Jobs
  <1> QED
    BY <1>1 DEF WorkerType, Leave, WindowCloses

LEMMA AwaitType ==
  ASSUME WorkerType, NEW w \in Worker, NEW l, Await(w, l),
         pc[w] # Idle,
         \/ l \in PlayerPC /\ pc[w] \in PlayerPC
         \/ l \in BulkPC /\ pc[w] \in BulkPC,
         tok' \in [Worker -> Nat], rule' \in [Worker -> Rule \cup {None}],
         seen' \in [Worker -> SUBSET Member], want' \in [Worker -> SUBSET Member],
         \A v \in Worker \ {w} : /\ tok'[v] = tok[v] /\ rule'[v] = rule[v]
                                 /\ seen'[v] = seen[v] /\ want'[v] = want[v]
  PROVE  WorkerType'
  <1>1. l # Idle /\ \A p \in BulkPC : p \notin PlayerPC
    BY PlacesDiffer
  <1>2. pc' \in [Worker -> PlayerPC \cup BulkPC \cup {Idle}]
    BY DEF WorkerType, Await
  <1>3. ASSUME NEW v \in Worker
        PROVE  /\ pc'[v] \in PlayerPC <=> job'[v] \in Member
               /\ pc'[v] = Idle => tok'[v] = 0 /\ rule'[v] = None /\ seen'[v] = {} /\ want'[v] = {}
    BY <1>1 DEF WorkerType, Await
  <1>4. UNCHANGED <<job, rules, admitted, passing, lapsed>>
    BY DEF Await
  <1> QED
    BY <1>2, <1>3, <1>4 DEF WorkerType

LEMMA TakeType ==
  ASSUME WorkerType, SharedType, NEW w \in Worker, NEW j \in Jobs, Take(w, j)
  PROVE  WorkerType' /\ SharedType'
  <1>1. /\ "link" \in BulkPC /\ "link" \notin PlayerPC /\ "link" # Idle
        /\ "guilds" \in PlayerPC /\ "guilds" # Idle
        /\ Idle \notin PlayerPC
    BY PlacesDiffer
  <1>2. j \in Member <=> j # Bulk
    BY BulkIsNoMember DEF Jobs
  <1>3. SharedType'
    BY DEF SharedType, Take
  <1>4. /\ admitted' \in [Worker -> SUBSET Member]
        /\ passing' \in [Worker -> SUBSET Member]
        /\ lapsed' \in [Worker -> SUBSET Member]
        /\ rules' \in [Worker -> SUBSET (Rule \cup {None})]
    BY DEF WorkerType, Take, WindowOpens, Passing, InForce
  <1>5. /\ job' \in [Worker -> Jobs] /\ pc' \in [Worker -> PlayerPC \cup BulkPC \cup {Idle}]
        /\ \A v \in Worker :
             /\ pc'[v] \in PlayerPC <=> job'[v] \in Member
             /\ pc'[v] = Idle => tok'[v] = 0 /\ rule'[v] = None /\ seen'[v] = {} /\ want'[v] = {}
    <2>1. job' = [job EXCEPT ![w] = j] /\ UNCHANGED <<tok, rule, seen, want>>
      BY DEF Take
    <2>2. pc' = [pc EXCEPT ![w] = IF j = Bulk THEN "link" ELSE "guilds"]
      BY DEF Take
    <2> QED
      BY <1>1, <1>2, <2>1, <2>2 DEF WorkerType
  <1> QED
    BY <1>3, <1>4, <1>5 DEF WorkerType, Take

LEMMA RetryQueue ==
  ASSUME WorkerType, SharedType, NEW w \in Worker
  PROVE  queue \cup {job[w]} \subseteq Jobs /\ queue \cup {Bulk} \subseteq Jobs
  BY DEF WorkerType, SharedType, Jobs

LEMMA FailType ==
  ASSUME WorkerType, SharedType, NEW w \in Worker, Fail(w)
  PROVE  WorkerType' /\ SharedType'
  <1>1. WorkerType'
    BY LeaveType DEF Fail, Retry
  <1>2. queue' \subseteq Jobs
    BY RetryQueue DEF Fail, Retry
  <1>3. /\ changes' \in Nat /\ errors' \in Nat /\ torn' \in Nat /\ holds' \in Nat /\ relinks' \in Nat
    BY DEF Fail, Error, Torn, SharedType
  <1> QED
    BY <1>1, <1>2, <1>3 DEF Fail, SharedType

LEMMA FinishType ==
  ASSUME WorkerType, NEW w \in Worker, Finish(w)
  PROVE  WorkerType' /\ queue' = queue
  BY LeaveType DEF Finish

LEMMA RetryType ==
  ASSUME WorkerType, SharedType, NEW w \in Worker, Retry(w)
  PROVE  WorkerType' /\ queue' \subseteq Jobs
  BY LeaveType, RetryQueue DEF Retry

LEMMA OrphanType ==
  ASSUME WorkerType, SharedType, NEW w \in Worker, DeleteOrphan(w)
  PROVE  WorkerType' /\ SharedType'
  <1>1. WorkerType' /\ queue' = queue
    BY FinishType DEF DeleteOrphan
  <1>2. CASE DropRow /\ UNCHANGED boundVars
    BY <1>1, <1>2 DEF DeleteOrphan, DropRow, SharedType
  <1>3. CASE Error /\ UNCHANGED <<token, config, mirror>>
    BY <1>1, <1>3 DEF DeleteOrphan, Error, SharedType
  <1> QED
    BY <1>2, <1>3 DEF DeleteOrphan

(* A job that goes on, with what it has written down.                      *)
LEMMA KeepType ==
  ASSUME WorkerType, NEW w \in Worker, NEW l, Await(w, l), UNCHANGED <<tok, rule, seen, want>>,
         pc[w] # Idle,
         \/ l \in PlayerPC /\ pc[w] \in PlayerPC
         \/ l \in BulkPC /\ pc[w] \in BulkPC
  PROVE  WorkerType'
  <1>1. /\ tok' \in [Worker -> Nat] /\ rule' \in [Worker -> Rule \cup {None}]
        /\ seen' \in [Worker -> SUBSET Member] /\ want' \in [Worker -> SUBSET Member]
        /\ \A v \in Worker \ {w} : /\ tok'[v] = tok[v] /\ rule'[v] = rule[v]
                                /\ seen'[v] = seen[v] /\ want'[v] = want[v]
    BY DEF WorkerType
  <1> QED
    BY <1>1, AwaitType

LEMMA NoteType ==
  ASSUME WorkerType, NEW w \in Worker, NEW l, Await(w, l),
         NEW t \in Nat, NEW r \in Rule \cup {None},
         NEW S \in SUBSET Member, NEW W \in SUBSET Member,
         tok' = [tok EXCEPT ![w] = t], rule' = [rule EXCEPT ![w] = r],
         seen' = [seen EXCEPT ![w] = S], want' = [want EXCEPT ![w] = W],
         pc[w] # Idle,
         \/ l \in PlayerPC /\ pc[w] \in PlayerPC
         \/ l \in BulkPC /\ pc[w] \in BulkPC
  PROVE  WorkerType'
  <1>1. /\ tok' \in [Worker -> Nat] /\ rule' \in [Worker -> Rule \cup {None}]
        /\ seen' \in [Worker -> SUBSET Member] /\ want' \in [Worker -> SUBSET Member]
        /\ \A v \in Worker \ {w} : /\ tok'[v] = tok[v] /\ rule'[v] = rule[v]
                                /\ seen'[v] = seen[v] /\ want'[v] = want[v]
    BY DEF WorkerType
  <1> QED
    BY <1>1, AwaitType

LEMMA PlayerType ==
  ASSUME WorkerType, SharedType, NEW w \in Worker,
         Guilds(w) \/ Customer(w) \/ Vet(w) \/ Links(w) \/ Assigned(w) \/ Decide(w)
  PROVE  WorkerType' /\ SharedType'
  <1> DEFINE t == tok[w]
             r == rule[w]
             S == seen[w]
             W == want[w]
             m == job[w]
  <1>0. /\ t \in Nat /\ r \in Rule \cup {None} /\ S \in SUBSET Member /\ W \in SUBSET Member
        /\ tok = [tok EXCEPT ![w] = t] /\ rule = [rule EXCEPT ![w] = r]
        /\ seen = [seen EXCEPT ![w] = S] /\ want = [want EXCEPT ![w] = W]
    BY DEF WorkerType
  <1>1. CASE Guilds(w)
    <2>1. pc[w] \in PlayerPC /\ pc[w] # Idle
      BY <1>1, PlacesDiffer DEF Guilds
    <2>2. PICK l \in {"links", "customer"} : Await(w, l)
      BY <1>1 DEF Guilds
    <2>3. l \in PlayerPC
      BY <2>2, PlacesDiffer
    <2>4. WorkerType'
      BY <1>1, <2>1, <2>2, <2>3, KeepType DEF Guilds
    <2> QED
      BY <1>1, <2>2, <2>4 DEF Guilds, Await, SharedType
  <1>2. CASE Vet(w)
    <2>1. pc[w] \in PlayerPC /\ pc[w] # Idle /\ "links" \in PlayerPC
      BY <1>2, PlacesDiffer DEF Vet
    <2>2. CASE Await(w, "links") /\ UNCHANGED <<tok, rule, seen, want>>
      BY <1>2, <2>1, <2>2, KeepType DEF Vet, Await, SharedType
    <2>3. CASE Finish(w) /\ UNCHANGED boundVars
      BY <1>2, <2>3, FinishType DEF Vet, SharedType
    <2> QED
      BY <1>2, <2>2, <2>3 DEF Vet
  <1>3. CASE Links(w)
    <2>1. pc[w] \in PlayerPC /\ pc[w] # Idle /\ "assigned" \in PlayerPC /\ "strip" \in PlayerPC
      BY <1>3, PlacesDiffer DEF Links
    <2>2. ASSUME NEW l \in PlayerPC, Await(w, l), UNCHANGED <<seen, want>>,
                 tok' = [tok EXCEPT ![w] = token], rule' = [rule EXCEPT ![w] = InForce]
          PROVE  WorkerType' /\ SharedType'
      <3>1. token \in Nat /\ InForce \in Rule \cup {None}
        BY DEF SharedType, InForce
      <3>2. WorkerType'
        BY <1>0, <2>1, <2>2, <3>1, NoteType
      <3> QED
        BY <1>3, <2>2, <3>2 DEF Links, Await, SharedType
    <2>3. CASE Finish(w) /\ UNCHANGED boundVars
      BY <1>3, <2>3, FinishType DEF Links, SharedType
    <2> QED
      BY <1>3, <2>1, <2>2, <2>3 DEF Links
  <1>5. CASE Customer(w)
    <2>1. pc[w] \in PlayerPC /\ pc[w] # Idle /\ "vet" \in PlayerPC
      BY <1>5, PlacesDiffer DEF Customer
    <2>2. CASE Await(w, "vet") /\ UNCHANGED <<tok, rule, seen, want>>
      BY <1>5, <2>1, <2>2, KeepType DEF Customer, Await, SharedType
    <2>3. CASE Finish(w) /\ UNCHANGED boundVars
      BY <1>5, <2>3, FinishType DEF Customer, SharedType
    <2> QED
      BY <1>5, <2>2, <2>3 DEF Customer
  <1>6. CASE Assigned(w)
    <2>1. pc[w] \in PlayerPC /\ pc[w] # Idle /\ "facts" \in PlayerPC /\ "remove" \in PlayerPC
      BY <1>6, PlacesDiffer DEF Assigned
    <2>2. ASSUME NEW X \in SUBSET Member, Await(w, "facts"), UNCHANGED <<tok, rule, seen>>,
                 want' = [want EXCEPT ![w] = X]
          PROVE  WorkerType' /\ SharedType'
      <3>1. WorkerType'
        BY <1>0, <2>1, <2>2, NoteType
      <3> QED
        BY <1>6, <2>2, <3>1 DEF Assigned, Await, SharedType
    <2>3. CASE Await(w, "remove") /\ UNCHANGED <<tok, rule, seen, want>>
      BY <1>6, <2>1, <2>3, KeepType DEF Assigned, Await, SharedType
    <2>4. CASE Finish(w) /\ UNCHANGED boundVars
      BY <1>6, <2>4, FinishType DEF Assigned, SharedType
    <2>5. mirror \cap {job[w]} \in SUBSET Member
      BY DEF SharedType
    <2> QED
      BY <1>6, <2>2, <2>3, <2>4, <2>5 DEF Assigned
  <1>4. CASE Decide(w)
    <2>1. pc[w] \in PlayerPC /\ pc[w] # Idle /\ "add" \in PlayerPC /\ "remove" \in PlayerPC
      BY <1>4, PlacesDiffer DEF Decide
    <2>2. ASSUME NEW l \in PlayerPC, NEW X \in SUBSET Member, Await(w, l), UNCHANGED <<tok, rule, seen>>,
                 want' = [want EXCEPT ![w] = X]
          PROVE  WorkerType' /\ SharedType'
      <3>1. WorkerType'
        BY <1>0, <2>1, <2>2, NoteType
      <3> QED
        BY <1>4, <2>2, <3>1 DEF Decide, Await, SharedType
    <2>3. CASE Finish(w) /\ UNCHANGED boundVars
      BY <1>4, <2>3, FinishType DEF Decide, SharedType
    <2>4. Passing(rule[w]) \cap {job[w]} \in SUBSET Member
      BY DEF Passing
    <2> QED
      BY <1>4, <2>1, <2>2, <2>3, <2>4 DEF Decide
  <1> QED
    BY <1>1, <1>2, <1>3, <1>4, <1>5, <1>6

LEMMA CountersType ==
  ASSUME SharedType, \/ UNCHANGED boundVars
                     \/ Error
                     \/ Torn
  PROVE  /\ changes' \in Nat /\ errors' \in Nat /\ torn' \in Nat
         /\ holds' \in Nat /\ relinks' \in Nat
  BY DEF SharedType, Error, Torn

LEMMA CallType ==
  ASSUME WorkerType, SharedType, NEW w \in Worker, Add(w) \/ Remove(w)
  PROVE  WorkerType' /\ SharedType'
  <1>1. pc[w] \in PlayerPC /\ pc[w] # Idle /\ "record" \in PlayerPC
    BY PlacesDiffer DEF Add, Remove
  <1>2. pc[w] # Idle /\ job[w] \in Member
    BY <1>1 DEF WorkerType
  <1>3. CASE DeleteOrphan(w)
    BY <1>3, OrphanType
  <1>4. ASSUME UNCHANGED <<envVars, mirror>>, roles' \subseteq Member, Finish(w),
               \/ UNCHANGED boundVars
               \/ Error
               \/ Torn
        PROVE  WorkerType' /\ SharedType'
    BY <1>4, FinishType, CountersType DEF SharedType
  <1>5. ASSUME UNCHANGED <<envVars, mirror>>, roles' \subseteq Member, Accepted(w)
        PROVE  WorkerType' /\ SharedType'
    <2>1. CASE Await(w, "record") /\ UNCHANGED <<tok, rule, seen, want>>
      BY <1>1, <1>5, <2>1, KeepType DEF Await, SharedType
    <2>2. CASE Torn /\ Finish(w)
      BY <1>4, <1>5, <2>2
    <2> QED
      BY <1>5, <2>1, <2>2 DEF Accepted
  <1>6. roles \subseteq Member
    BY DEF SharedType
  <1>7. CASE Add(w)
    BY <1>2, <1>3, <1>4, <1>5, <1>6, <1>7 DEF Add
  <1>8. CASE Remove(w)
    BY <1>2, <1>3, <1>4, <1>5, <1>6, <1>8 DEF Remove
  <1> QED
    BY <1>7, <1>8

LEMMA RecordType ==
  ASSUME WorkerType, SharedType, NEW w \in Worker, Record(w)
  PROVE  WorkerType' /\ SharedType'
  <1>1. job[w] \in Member
    BY PlacesDiffer DEF WorkerType, Record
  <1>2. mirror' \subseteq Member
    BY <1>1 DEF Record, SharedType
  <1> QED
    BY <1>2, FinishType, CountersType DEF Record, SharedType

LEMMA ReadingType ==
  ASSUME WorkerType, SharedType, NEW w \in Worker,
         Read(w) \/ Optouts(w) \/ Info(w) \/ Query(w) \/ Compare(w)
  PROVE  WorkerType' /\ SharedType'
  <1>0. /\ tok[w] \in Nat /\ rule[w] \in Rule \cup {None}
        /\ seen[w] \in SUBSET Member /\ want[w] \in SUBSET Member
        /\ tok = [tok EXCEPT ![w] = tok[w]] /\ rule = [rule EXCEPT ![w] = rule[w]]
        /\ seen = [seen EXCEPT ![w] = seen[w]] /\ want = [want EXCEPT ![w] = want[w]]
    BY DEF WorkerType
  <1>1. pc[w] \in BulkPC /\ pc[w] # Idle
    BY PlacesDiffer DEF Read, Optouts, Info, Query, Compare
  <1>2. /\ "optouts" \in BulkPC /\ "info" \in BulkPC /\ "query" \in BulkPC
        /\ "compare" \in BulkPC /\ "put" \in BulkPC
    BY PlacesDiffer
  <1>3. ASSUME Finish(w), UNCHANGED <<envVars, listVars, boundVars>>
        PROVE  WorkerType' /\ SharedType'
    BY <1>3, FinishType DEF SharedType
  <1>4. ASSUME NEW l \in BulkPC, Await(w, l), UNCHANGED <<envVars, listVars>>,
               UNCHANGED <<tok, rule, seen, want>>
        PROVE  WorkerType' /\ SharedType'
    BY <1>1, <1>4, KeepType DEF Await, SharedType
  <1>5. ASSUME NEW l \in BulkPC, Await(w, l), UNCHANGED <<envVars, listVars>>,
               NEW t \in Nat, NEW r \in Rule \cup {None},
               NEW S \in SUBSET Member, NEW W \in SUBSET Member,
               tok' = [tok EXCEPT ![w] = t], rule' = [rule EXCEPT ![w] = r],
               seen' = [seen EXCEPT ![w] = S], want' = [want EXCEPT ![w] = W]
        PROVE  WorkerType' /\ SharedType'
    <2>1. WorkerType'
      BY <1>1, <1>5, NoteType
    <2> QED
      BY <1>5, <2>1 DEF Await, SharedType
  <1>6. CASE Read(w)
    <2>1. CASE Finish(w) /\ UNCHANGED boundVars
      BY <1>3, <1>6, <2>1 DEF Read
    <2>2. ASSUME NEW l \in BulkPC, Await(w, l), tok' = [tok EXCEPT ![w] = token],
                 rule' = [rule EXCEPT ![w] = InForce], UNCHANGED <<seen, want>>
          PROVE  WorkerType' /\ SharedType'
      <3>1. token \in Nat /\ InForce \in Rule \cup {None} /\ UNCHANGED <<envVars, listVars>>
        BY <1>6 DEF SharedType, Read, InForce
      <3> QED
        BY <1>0, <1>5, <2>2, <3>1
    <2> QED
      BY <1>2, <1>6, <2>1, <2>2 DEF Read
  <1>7. CASE Optouts(w)
    <2>1. optout \in SUBSET Member
      BY DEF SharedType
    <2> QED
      BY <1>0, <1>2, <1>5, <1>7, <2>1 DEF Optouts
  <1>8. CASE Info(w)
    BY <1>2, <1>3, <1>4, <1>8, OrphanType DEF Info
  <1>9. CASE Query(w)
    <2>1. First(Passing(rule[w]) \ seen[w]) \in SUBSET Member
      BY FirstIsPart DEF Passing
    <2> QED
      BY <1>0, <1>2, <1>5, <1>9, <2>1 DEF Query
  <1>10. CASE Compare(w)
    BY <1>2, <1>3, <1>4, <1>10 DEF Compare
  <1> QED
    BY <1>6, <1>7, <1>8, <1>9, <1>10

LEMMA PutType ==
  ASSUME WorkerType, SharedType, NEW w \in Worker, Put(w)
  PROVE  WorkerType' /\ SharedType'
  <1>1. pc[w] \in BulkPC /\ pc[w] # Idle /\ "store" \in BulkPC
    BY PlacesDiffer DEF Put
  <1>2. want[w] \subseteq Member
    BY DEF WorkerType
  <1>3. CASE DeleteOrphan(w)
    BY <1>3, OrphanType
  <1>4. CASE /\ UNCHANGED <<envVars, mirror>>
             /\ Finish(w) /\ UNCHANGED <<roles, boundVars>>
    BY <1>4, FinishType DEF SharedType
  <1>5. CASE UNCHANGED <<envVars, mirror>> /\ Held(w)
    <2>1. WorkerType' /\ queue' \subseteq Jobs
      BY <1>5, LeaveType, RetryQueue DEF Held
    <2> QED
      BY <1>5, <2>1 DEF Held, SharedType
  <1>6. CASE UNCHANGED <<envVars, mirror>> /\ Replaced(w)
    <2>1. CASE Await(w, "store") /\ UNCHANGED <<tok, rule, seen, want>>
      BY <1>1, <1>2, <1>6, <2>1, KeepType DEF Replaced, Await, SharedType
    <2>2. CASE Torn /\ Retry(w)
      BY <1>2, <1>6, <2>2, RetryType, CountersType DEF Replaced, SharedType
    <2> QED
      BY <1>6, <2>1, <2>2 DEF Replaced
  <1> QED
    BY <1>3, <1>4, <1>5, <1>6 DEF Put

LEMMA StoreType ==
  ASSUME WorkerType, SharedType, NEW w \in Worker, Store(w)
  PROVE  WorkerType' /\ SharedType'
  <1>1. want[w] \subseteq Member
    BY DEF WorkerType
  <1>2. CASE Finish(w) /\ mirror' = want[w]
    BY <1>1, <1>2, FinishType DEF Store, SharedType
  <1>3. CASE Retry(w) /\ UNCHANGED mirror
    BY <1>3, RetryType DEF Store, SharedType
  <1> QED
    BY <1>2, <1>3 DEF Store

LEMMA NextTypeOK == TypeOK /\ [Next]_vars => TypeOK'
  <1> SUFFICES ASSUME TypeOK, [Next]_vars PROVE TypeOK'
    OBVIOUS
  <1>0. WorkerType /\ SharedType
    BY TypeHalves
  <1>1. CASE World
    BY <1>1, WorldTypeOK
  <1>2. ASSUME NEW w \in Worker, Step(w) PROVE WorkerType' /\ SharedType'
    BY <1>0, <1>2, PlayerType, CallType, RecordType, ReadingType, PutType, StoreType DEF Step
  <1>3. ASSUME NEW w \in Worker, Fail(w) PROVE WorkerType' /\ SharedType'
    BY <1>0, <1>3, FailType
  <1>4. ASSUME NEW w \in Worker, NEW j \in Jobs, Take(w, j) PROVE WorkerType' /\ SharedType'
    BY <1>0, <1>4, TakeType
  <1>5. CASE UNCHANGED vars
    BY <1>5 DEF TypeOK
  <1>6. WorkerType' /\ SharedType' => TypeOK'
    BY DEF TypeOK, WorkerType, SharedType
  <1> QED
    BY <1>1, <1>2, <1>3, <1>4, <1>5, <1>6 DEF Next

(* Every reachable state has its types, whatever the workers, the members  *)
(* and the bounds: a worker is at an await of its kind of job, and an idle *)
(* one keeps nothing.                                                      *)
THEOREM TypeCorrect == Spec => []TypeOK
  <1>1. Init => TypeOK
    BY InitTypeOK
  <1>2. TypeOK /\ [Next]_vars => TypeOK'
    BY NextTypeOK
  <1> QED
    BY <1>1, <1>2, PTL DEF Spec

-----------------------------------------------------------------------------
(* Grants are justified.  The invariant says what a job has seen by the    *)
(* time it is at each await: the window of a job under way holds what is   *)
(* true now, and what the job has noted was true in its window.  Only that *)
(* the link has no row is not in the window: a job that deletes the row    *)
(* does not announce it.                                                   *)

Sight(w) ==
    /\ pc[w] # Idle =>
         /\ Member \ optout \subseteq admitted[w]
         /\ MeetsOne(rules[w]) \subseteq passing[w]
         /\ token # 0 => InForce \in rules[w]
    /\ pc[w] = "link" => want[w] = {}
    /\ pc[w] \in {"links", "assigned", "facts", "add"} => job[w] \in admitted[w]
    /\ pc[w] \in {"assigned", "facts", "optouts", "info", "query"} => rule[w] \in rules[w]
    /\ pc[w] = "add" => job[w] \in passing[w]
    /\ pc[w] \in {"info", "query"} => Member \ seen[w] \subseteq admitted[w]
    /\ pc[w] \in {"compare", "put"} => want[w] \subseteq admitted[w] \cap passing[w]

SightInv == \A w \in Worker : Sight(w)

LEMMA InitSight == Init => SightInv
  BY PlacesDiffer DEF Init, SightInv, Sight

LEMMA RuleOfWindow ==
  ASSUME NEW R, NEW r \in R
  PROVE  Passing(r) \subseteq MeetsOne(R) /\ MeetsAll(R) \subseteq Passing(r)
  BY DEF Passing, MeetsOne, MeetsAll

LEMMA SameRule == UNCHANGED <<token, config>> => InForce' = InForce
  BY DEF InForce

LEMMA SameFacts ==
  ASSUME UNCHANGED facts
  PROVE  /\ \A r : Passing(r)' = Passing(r)
         /\ \A w \in Worker : rules'[w] = rules[w] =>
              /\ MeetsOne(rules[w])' = MeetsOne(rules[w])
              /\ MeetsAll(rules[w])' = MeetsAll(rules[w])
  BY DEF Passing, MeetsOne, MeetsAll

(* What the world does only widens the windows; a job keeps its rule, or   *)
(* has none any more when none is in force.                                *)
LEMMA GrowingSight ==
  ASSUME TypeOK, SightInv, WindowsGrow, UNCHANGED <<job, pc, seen, want>>,
         \A w \in Worker : rule'[w] \in {rule[w], InForce'}
  PROVE  SightInv'
  <1> SUFFICES ASSUME NEW w \in Worker PROVE Sight(w)'
    BY DEF SightInv
  <1>1. Sight(w)
    BY DEF SightInv
  <1>2. CASE pc[w] = Idle
    BY <1>2, PlacesDiffer DEF Sight
  <1>3. CASE pc[w] # Idle
    <2>1. /\ rules'[w] = rules[w] \cup {InForce'}
          /\ admitted'[w] = admitted[w] \cup (Member \ optout')
          /\ passing'[w] = passing[w] \cup MeetsOne(rules[w])'
      BY <1>3 DEF WindowsGrow
    <2> QED
      BY <1>1, <1>3, <2>1 DEF Sight
  <1> QED
    BY <1>2, <1>3

LEMMA WorldSight == TypeOK /\ SightInv /\ World => SightInv'
  <1> SUFFICES ASSUME TypeOK, SightInv, World PROVE SightInv'
    OBVIOUS
  <1>1. CASE WindowsGrow /\ UNCHANGED <<job, pc, rule, seen, want>>
    BY <1>1, GrowingSight
  <1>2. CASE UNCHANGED <<envVars, job, pc, rule, seen, want, historyVars>>
    BY <1>2, SameRule, SameFacts DEF SightInv, Sight
  <1>3. CASE Disconnect
    <2>1. InForce' = None /\ \A w \in Worker : rule'[w] = None
      BY <1>3, RoleSyncAssumption DEF Disconnect, InForce
    <2> QED
      BY <1>3, <2>1, GrowingSight DEF Disconnect, Outside
  <1> QED
    BY <1>1, <1>2, <1>3 DEF World, ChangeFacts, Refresh, ChangeOptout, SaveRule, Connect,
                      Pause, Reconcile, DeleteUpstream, Register, Outside

(* A worker's step leaves the other workers and what they see alone.       *)
LEMMA LeaveAlone ==
  ASSUME TypeOK, NEW w \in Worker, NEW v \in Worker \ {w},
         \/ Leave(w)
         \/ \E l : Await(w, l)
  PROVE  /\ pc'[v] = pc[v] /\ job'[v] = job[v] /\ rules'[v] = rules[v]
         /\ admitted'[v] = admitted[v] /\ passing'[v] = passing[v]
  BY DEF TypeOK, Leave, WindowCloses, Await

(* The jobs write neither facts nor opt-outs, and leave the link row as it *)
(* is or delete it.                                                        *)
LEMMA RowStaysOrGoes ==
  ASSUME NEW w \in Worker, Step(w)
  PROVE  UNCHANGED <<optout, facts>> /\ (UNCHANGED <<token, config>> \/ token' = 0)
  <1>1. CASE DeleteOrphan(w)
    BY <1>1 DEF DeleteOrphan, DropRow
  <1>2. CASE UNCHANGED envVars
    BY <1>2
  <1> QED
    BY <1>1, <1>2 DEF Step, Guilds, Customer, Vet, Links, Assigned, Decide, Add, Remove, Record, Read, Optouts, Info,
                      Query, Compare, Put, Store

Noted(v) == <<rule[v], seen[v], want[v]>>

LEMMA StepMoves ==
  ASSUME TypeOK, NEW w \in Worker, Step(w)
  PROVE  \/ Leave(w)
         \/ (\E l : Await(w, l)) /\ \A v \in Worker \ {w} : UNCHANGED Noted(v)
  <1> DEFINE Goes == \E l : Await(w, l)
             Rules == \A v \in Worker \ {w} : rule'[v] = rule[v]
             Sees  == \A v \in Worker \ {w} : seen'[v] = seen[v]
             Wants == \A v \in Worker \ {w} : want'[v] = want[v]
             Moves == Goes /\ Rules /\ Sees /\ Wants
  <1>0. /\ rule' = rule => Rules
        /\ seen' = seen => Sees
        /\ want' = want => Wants
        /\ \A r : rule' = [rule EXCEPT ![w] = r] => Rules
        /\ \A S : seen' = [seen EXCEPT ![w] = S] => Sees
        /\ \A W : want' = [want EXCEPT ![w] = W] => Wants
    BY DEF TypeOK
  <1>1. DeleteOrphan(w) => Leave(w)
    BY DEF DeleteOrphan, Finish
  <1>2. \A l : Await(w, l) => Goes
    OBVIOUS
  <1> SUFFICES Leave(w) \/ Moves
    BY DEF Noted
  <1> HIDE DEF Goes, Rules, Sees, Wants
  <1>3. CASE Guilds(w) \/ Customer(w) \/ Vet(w)
    BY <1>0, <1>2, <1>3 DEF Guilds, Customer, Vet, Finish
  <1>4. CASE Links(w) \/ Read(w)
    BY <1>0, <1>2, <1>4 DEF Links, Read, Finish
  <1>5. CASE Assigned(w)
    BY <1>0, <1>2, <1>5 DEF Assigned, Finish
  <1>6. CASE Decide(w)
    BY <1>0, <1>2, <1>6 DEF Decide, Finish
  <1>7. CASE Add(w) \/ Remove(w)
    BY <1>0, <1>1, <1>2, <1>7 DEF Add, Remove, Accepted, Finish
  <1>8. CASE Record(w) \/ Store(w)
    BY <1>8 DEF Record, Store, Finish, Retry
  <1>9. CASE Optouts(w)
    BY <1>0, <1>2, <1>9 DEF Optouts
  <1>10. CASE Query(w)
    BY <1>0, <1>2, <1>10 DEF Query
  <1>11. CASE Info(w) \/ Compare(w)
    BY <1>0, <1>1, <1>2, <1>11 DEF Info, Compare, Finish
  <1>12. CASE Put(w)
    BY <1>0, <1>1, <1>2, <1>12 DEF Put, Held, Replaced, Finish, Retry
  <1> QED
    BY <1>3, <1>4, <1>5, <1>6, <1>7, <1>8, <1>9, <1>10, <1>11, <1>12 DEF Step

(* A job that ends sees nothing any more.                                  *)
LEMMA LeavingSight ==
  ASSUME TypeOK, NEW w \in Worker, Leave(w)
  PROVE  Sight(w)'
  <1>1. pc'[w] = "idle"
    BY PlacesDiffer DEF TypeOK, Leave
  <1> QED
    BY <1>1, PlacesDiffer DEF Sight

LEMMA TakingSight ==
  ASSUME TypeOK, SightInv, NEW w \in Worker, NEW j \in Jobs, Take(w, j)
  PROVE  SightInv'
  <1>1. /\ pc'[w] \in {"link", "guilds"} /\ pc[w] = Idle
        /\ want'[w] = {} /\ rules'[w] = {InForce}
        /\ admitted'[w] = Member \ optout /\ passing'[w] = Passing(InForce)
    BY DEF TypeOK, Take, WindowOpens
  <1>2. UNCHANGED <<optout, facts, token, config>> /\ InForce' = InForce
    BY SameRule DEF Take
  <1>3. Sight(w)'
    BY <1>1, <1>2, PlacesDiffer DEF Sight, Passing, MeetsOne
  <1>4. ASSUME NEW v \in Worker \ {w} PROVE Sight(v)'
    <2>1. Sight(v) /\ UNCHANGED <<pc[v], job[v], Noted(v), rules[v], admitted[v], passing[v]>>
      BY DEF TypeOK, SightInv, Take, WindowOpens, Noted
    <2> QED
      BY <1>2, <2>1, SameFacts DEF Sight, Noted
  <1> QED
    BY <1>3, <1>4 DEF SightInv

LEMMA FailingSight ==
  ASSUME TypeOK, SightInv, NEW w \in Worker, Fail(w)
  PROVE  SightInv'
  <1>1. Leave(w) /\ UNCHANGED <<optout, facts, token, config>> /\ InForce' = InForce
    BY SameRule DEF Fail, Retry
  <1>2. Sight(w)'
    BY <1>1, LeavingSight
  <1>3. ASSUME NEW v \in Worker \ {w} PROVE Sight(v)'
    <2>1. Sight(v) /\ UNCHANGED <<pc[v], job[v], Noted(v), rules[v], admitted[v], passing[v]>>
      BY <1>1 DEF TypeOK, SightInv, Leave, WindowCloses, Noted
    <2> QED
      BY <1>1, <2>1, SameFacts DEF Sight, Noted
  <1> QED
    BY <1>2, <1>3 DEF SightInv

LEMMA StepsAreBusy ==
  ASSUME NEW w \in Worker, Step(w)
  PROVE  pc[w] # Idle
  BY PlacesDiffer DEF Step, Guilds, Customer, Vet, Links, Assigned, Decide, Add, Remove, Record, Read, Optouts,
                      Info, Query, Compare, Put, Store

(* A job goes on only with the link row still there, or gone before.       *)
LEMMA GoingOn ==
  ASSUME TypeOK, NEW w \in Worker, Step(w), ~Leave(w)
  PROVE  /\ UNCHANGED <<optout, facts, token, config, job, historyVars>>
         /\ InForce' = InForce /\ \E l : Await(w, l)
  <1>1. UNCHANGED <<optout, facts>> /\ \E l : Await(w, l)
    BY StepMoves, RowStaysOrGoes
  <1>2. UNCHANGED <<token, config>>
    BY DEF Step, Guilds, Customer, Vet, Links, Assigned, Decide, Add, Remove, Record, Read, Optouts, Info,
           Query, Compare, Put, Store, DeleteOrphan, Finish
  <1> QED
    BY <1>1, <1>2, SameRule DEF Await

(* The job's own step: what it notes, it sees now.                         *)
LEMMA OwnSight ==
  ASSUME TypeOK, SightInv, NEW w \in Worker, Step(w)
  PROVE  Sight(w)'
  <1>1. CASE Leave(w)
    BY <1>1, LeavingSight
  <1>2. CASE ~Leave(w)
    <2>1. /\ UNCHANGED <<optout, facts, token, job, rules, admitted, passing>> /\ InForce' = InForce
          /\ Sight(w) /\ pc[w] # Idle /\ job[w] \in Jobs
          /\ want[w] \subseteq Member
      BY <1>2, GoingOn, StepsAreBusy DEF SightInv, TypeOK
    <2>2. /\ Member \ optout \subseteq admitted[w]
          /\ MeetsOne(rules[w]) \subseteq passing[w] /\ MeetsOne(rules[w])' = MeetsOne(rules[w])
          /\ token # 0 => InForce \in rules[w]
      BY <2>1, SameFacts DEF Sight
    <2>3. ASSUME NEW l, Await(w, l) PROVE pc'[w] = l
      BY <2>3 DEF Await, TypeOK
    <2>4. pc[w] \in PlayerPC => job[w] \in Member
      BY DEF TypeOK
    <2>5. /\ \A W : want' = [want EXCEPT ![w] = W] => want'[w] = W
          /\ \A r : rule' = [rule EXCEPT ![w] = r] => rule'[w] = r
      BY DEF TypeOK
    <2>6. \A S : seen' = [seen EXCEPT ![w] = S] => seen'[w] = S
      BY DEF TypeOK
    <2>7. CASE Guilds(w)
      <3>1. job[w] \in Member
        BY <2>4, <2>7, PlacesDiffer DEF Guilds
      <3>2. \/ pc'[w] = "links" /\ job[w] \notin optout
            \/ pc'[w] = "customer"
        BY <2>3, <2>7 DEF Guilds
      <3> QED
        BY <2>1, <2>2, <3>1, <3>2 DEF Sight
    <2>8. CASE Vet(w)
      <3>1. job[w] \in Member
        BY <2>4, <2>8, PlacesDiffer DEF Vet
      <3>2. pc'[w] = "links" /\ job[w] \notin optout
        BY <1>2, <2>3, <2>8 DEF Vet, Finish
      <3> QED
        BY <2>1, <2>2, <3>1, <3>2 DEF Sight
    <2>9. CASE Customer(w) \/ Links(w) \/ Assigned(w)
      <3>1. \/ pc'[w] = "vet"
            \/ pc[w] = "links" /\ pc'[w] = "strip"
            \/ pc[w] = "links" /\ pc'[w] = "assigned" /\ token # 0 /\ rule'[w] = InForce
            \/ pc[w] = "assigned" /\ pc'[w] = "facts" /\ rule'[w] = rule[w]
            \/ pc'[w] = "remove"
        BY <1>2, <2>3, <2>5, <2>9 DEF Customer, Links, Assigned, Finish
      <3> QED
        BY <2>1, <2>2, <3>1, PlacesDiffer DEF Sight
    <2>10. CASE Decide(w)
      <3>1. pc[w] = "facts" /\ (pc'[w] = "remove" \/ (pc'[w] = "add" /\ job[w] \in Passing(rule[w])))
        BY <1>2, <2>3, <2>10 DEF Decide, Finish
      <3>2. rule[w] \in rules[w]
        BY <2>1, <3>1 DEF Sight
      <3>3. Passing(rule[w]) \subseteq passing[w]
        BY <2>2, <3>2, RuleOfWindow
      <3> QED
        BY <2>1, <2>2, <3>1, <3>3, PlacesDiffer DEF Sight
    <2>11. CASE Add(w) \/ Remove(w)
      <3>1. pc'[w] = "record"
        BY <1>2, <2>3, <2>11 DEF Add, Remove, Accepted, DeleteOrphan, Finish
      <3> QED
        BY <2>1, <2>2, <3>1 DEF Sight
    <2>12. CASE Record(w) \/ Store(w)
      BY <1>2, <2>12 DEF Record, Store, Finish, Retry
    <2>13. CASE Read(w)
      <3>1. /\ pc[w] = "link" /\ want'[w] = want[w] /\ pc'[w] \in {"optouts", "compare"}
            /\ token # 0 /\ rule'[w] = InForce
        BY <1>2, <2>3, <2>5, <2>13 DEF Read, Finish
      <3> QED
        BY <2>1, <2>2, <3>1 DEF Sight
    <2>14. CASE Optouts(w)
      <3>1. pc[w] = "optouts" /\ pc'[w] = "info" /\ seen'[w] = optout /\ rule'[w] = rule[w]
        BY <2>3, <2>6, <2>14 DEF Optouts
      <3> QED
        BY <2>1, <2>2, <3>1 DEF Sight
    <2>15. CASE Info(w)
      <3>1. pc[w] = "info" /\ pc'[w] = "query" /\ seen'[w] = seen[w] /\ rule'[w] = rule[w]
        BY <1>2, <2>3, <2>15 DEF Info, DeleteOrphan, Finish
      <3> QED
        BY <2>1, <2>2, <3>1 DEF Sight
    <2>16. CASE Query(w)
      <3>1. pc[w] = "query" /\ pc'[w] = "compare" /\ want'[w] = First(Passing(rule[w]) \ seen[w])
        BY <2>3, <2>5, <2>16 DEF Query
      <3>2. rule[w] \in rules[w]
        BY <2>1, <3>1 DEF Sight
      <3>3. Passing(rule[w]) \subseteq passing[w]
        BY <2>2, <3>2, RuleOfWindow
      <3>4. want'[w] \subseteq Passing(rule[w]) \ seen[w] /\ Passing(rule[w]) \subseteq Member
        BY <3>1, FirstIsPart DEF Passing
      <3> QED
        BY <2>1, <2>2, <3>1, <3>3, <3>4 DEF Sight
    <2>17. CASE Compare(w)
      <3>1. pc[w] = "compare" /\ pc'[w] = "put" /\ want'[w] = want[w]
        BY <1>2, <2>3, <2>17 DEF Compare, Finish
      <3> QED
        BY <2>1, <2>2, <3>1 DEF Sight
    <2>18. CASE Put(w)
      <3>1. pc'[w] = "store"
        BY <1>2, <2>3, <2>18 DEF Put, Held, Replaced, DeleteOrphan, Finish, Retry
      <3> QED
        BY <2>1, <2>2, <3>1 DEF Sight
    <2> QED
      BY <2>7, <2>8, <2>9, <2>10, <2>11, <2>12, <2>13, <2>14, <2>15, <2>16, <2>17, <2>18 DEF Step
  <1> QED
    BY <1>1, <1>2

(* A worker's step, for another worker.                                    *)
LEMMA StepElsewhere ==
  ASSUME TypeOK, NEW w \in Worker, Step(w), NEW v \in Worker \ {w}
  PROVE  UNCHANGED <<pc[v], job[v], Noted(v), rules[v], admitted[v], passing[v], lapsed[v]>>
  BY StepMoves, LeaveAlone DEF Leave, WindowCloses, Await, TypeOK, Noted

LEMMA SteppingSight ==
  ASSUME TypeOK, SightInv, NEW w \in Worker, Step(w)
  PROVE  SightInv'
  <1>1. UNCHANGED <<optout, facts>> /\ (token' # 0 => token # 0 /\ InForce' = InForce)
    BY RowStaysOrGoes, SameRule
  <1>2. ASSUME NEW v \in Worker \ {w} PROVE Sight(v)'
    <2>1. Sight(v) /\ UNCHANGED <<pc[v], job[v], Noted(v), rules[v], admitted[v], passing[v]>>
      BY StepElsewhere DEF SightInv
    <2> QED
      BY <1>1, <2>1, SameFacts DEF Sight, Noted
  <1> QED
    BY <1>2, OwnSight DEF SightInv

LEMMA NextSight == TypeOK /\ SightInv /\ [Next]_vars => SightInv'
  <1> SUFFICES ASSUME TypeOK, SightInv, [Next]_vars PROVE SightInv'
    OBVIOUS
  <1>1. CASE World
    BY <1>1, WorldSight
  <1>2. CASE UNCHANGED vars
    BY <1>2, SameRule, SameFacts DEF SightInv, Sight
  <1> QED
    BY <1>1, <1>2, TakingSight, FailingSight, SteppingSight DEF Next

LEMMA GrantStep == TypeOK /\ SightInv /\ [Next]_vars =>
    \A m \in roles' \ roles : \E w \in Worker : pc'[w] # pc[w] /\ m \in admitted[w] \cap passing[w]
  <1> SUFFICES ASSUME TypeOK, SightInv, [Next]_vars, NEW m \in roles' \ roles
               PROVE  \E w \in Worker : pc'[w] # pc[w] /\ m \in admitted[w] \cap passing[w]
    OBVIOUS
  <1>1. CASE World
    BY <1>1 DEF World, ChangeFacts, Refresh, ChangeOptout, SaveRule, Disconnect, Connect, Pause,
                Reconcile, DeleteUpstream, Register, Outside
  <1>2. CASE UNCHANGED vars
    BY <1>2
  <1>3. ASSUME NEW w \in Worker, NEW j \in Jobs, Take(w, j) PROVE FALSE
    BY <1>3 DEF Take
  <1>4. ASSUME NEW w \in Worker, Fail(w) PROVE FALSE
    BY <1>4 DEF Fail
  <1>5. ASSUME NEW w \in Worker, Step(w)
        PROVE  pc'[w] # pc[w] /\ m \in admitted[w] \cap passing[w]
    <2>1. /\ Leave(w) => pc'[w] = "idle"
          /\ \A l : Await(w, l) => pc'[w] = l
      BY PlacesDiffer DEF TypeOK, Leave, Await
    <2>2. CASE Add(w)
      <3>1. pc[w] = "add" /\ m = job[w] /\ Accepted(w)
        BY <2>2 DEF Add, DeleteOrphan
      <3>2. pc'[w] # pc[w]
        BY <2>1, <3>1 DEF Accepted, Finish
      <3> QED
        BY <3>1, <3>2 DEF SightInv, Sight
    <2>3. CASE Put(w)
      <3>1. pc[w] = "put" /\ m \in want[w] /\ Replaced(w)
        BY <2>3 DEF Put, DeleteOrphan, Held, Replaced
      <3>2. pc'[w] # pc[w]
        BY <2>1, <3>1 DEF Replaced, Retry
      <3> QED
        BY <3>1, <3>2 DEF SightInv, Sight
    <2>4. CASE Remove(w)
      BY <2>4 DEF Remove, DeleteOrphan
    <2>5. CASE Guilds(w) \/ Customer(w) \/ Vet(w) \/ Links(w) \/ Assigned(w) \/ Decide(w)
               \/ Record(w) \/ Store(w)
      BY <2>5 DEF Guilds, Customer, Vet, Links, Assigned, Decide, Record, Store
    <2>6. CASE Read(w) \/ Optouts(w) \/ Info(w) \/ Query(w) \/ Compare(w)
      BY <2>6 DEF Read, Optouts, Info, Query, Compare, DeleteOrphan
    <2> QED
      BY <1>5, <2>2, <2>3, <2>4, <2>5, <2>6 DEF Step
  <1> QED
    BY <1>1, <1>2, <1>3, <1>4, <1>5 DEF Next

(* No interleaving of any number of jobs, error, retry or new token grants *)
(* a role to a member who, all through the granting job, had opted out, or *)
(* met no rule that was in force then or earlier in the job: a stale rule  *)
(* on later facts is the most the separate awaits can do.                  *)
THEOREM Grants == Spec => GrantsAreJustified
  <1>1. Init => TypeOK /\ SightInv
    BY InitTypeOK, InitSight
  <1>2. TypeOK /\ SightInv /\ [Next]_vars => TypeOK' /\ SightInv'
    BY NextTypeOK, NextSight
  <1>3. TypeOK /\ SightInv /\ [Next]_vars =>
          [\A m \in roles' \ roles :
              \E w \in Worker : pc'[w] # pc[w] /\ m \in admitted[w] \cap passing[w]]_vars
    BY GrantStep
  <1> QED
    BY <1>1, <1>2, <1>3, PTL DEF Spec, GrantsAreJustified

-----------------------------------------------------------------------------
(* Revocations are justified.                                              *)

LEMMA LeastMember ==
  ASSUME NEW T, T \subseteq Nat, T # {}
  PROVE  \E x \in T : \A y \in T : x <= y
  <1>1. PICK x \in T : \A y \in T : ~(<<y, x>> \in OpToRel(<, Nat))
    BY WFMin, NatLessThanWellFounded
  <1>2. \A y \in T : ~(y < x)
    BY <1>1 DEF OpToRel
  <1> QED
    BY <1>2

LEMMA SameCardinality == \A S : Promise!Cardinality(S) = Cardinality(S)
  BY DEF Promise!Cardinality, Cardinality

LEMMA MaxMemberExists ==
  ASSUME NEW T \in SUBSET Member, T # {}
  PROVE  \E x \in T : \A y \in T : y <= x
  <1> DEFINE B == {k \in Nat : \A y \in T : y <= k}
  <1>1. T \subseteq Nat \ {0} /\ MaxMembers \in B
    BY RoleSyncAssumption DEF Member
  <1>2. PICK x \in B : \A k \in B : x <= k
    BY <1>1, LeastMember
  <1>3. CASE x \in T
    BY <1>3
  <1>4. CASE x \notin T
    <2>1. \A y \in T : y < x
      BY <1>1, <1>4
    <2>2. PICK z \in T : TRUE
      OBVIOUS
    <2>3. z \in Nat /\ z >= 1 /\ z < x
      BY <1>1, <2>1
    <2>4. x - 1 \in Nat /\ \A y \in T : y <= x - 1
      BY <1>1, <2>1, <2>3
    <2>5. ~(x <= x - 1)
      BY <2>4
    <2> QED
      BY <1>2, <2>4, <2>5
  <1> QED
    BY <1>3, <1>4

(* A list that left a member out for want of room is full.                 *)
LEMMA FirstIsFull ==
  ASSUME NEW S \in SUBSET Member, S \ First(S) # {}
  PROVE  Cardinality(First(S)) >= Limit
  <1>0. S \subseteq Nat /\ IsFiniteSet(S) /\ Limit \in Nat
    <2>1. IsFiniteSet(Member)
      BY FS_Interval, RoleSyncAssumption DEF Member
    <2>2. IsFiniteSet(S)
      BY <2>1, FS_Subset
    <2>3. Member \subseteq Nat
      BY DEF Member
    <2> QED
      BY <2>2, <2>3, RoleSyncAssumption
  <1>1. PICK m \in S \ First(S) : \A n \in S \ First(S) : m <= n
    BY <1>0, LeastMember
  <1>2. {n \in S : n < m} \subseteq First(S)
    <2>1. ASSUME NEW n \in S, n < m PROVE n \in First(S)
      <3>1. n \in Nat /\ m \in Nat
        BY <1>0
      <3>2. ~(m <= n)
        BY <2>1, <3>1
      <3> QED
        BY <1>1, <3>2
    <2> QED
      BY <2>1
  <1>3. IsFiniteSet(First(S))
    BY <1>0, FS_Subset DEF First
  <1>4. Cardinality({n \in S : n < m}) <= Cardinality(First(S)) 
    BY <1>2, <1>3, FS_Subset
  <1>5. ~(Cardinality({n \in S : n < m}) < Limit)
    BY <1>1 DEF First
  <1>6. Cardinality({n \in S : n < m}) \in Nat /\ Cardinality(First(S)) \in Nat
    BY <1>0, <1>2, <1>3, FS_Subset, FS_CardinalityType
  <1> QED
    BY <1>0, <1>4, <1>5, <1>6

(* A list is within the limit, and who is left out comes after all of it.  *)
LEMMA FirstInOrder ==
  ASSUME NEW S \in SUBSET Member
  PROVE  /\ Cardinality(First(S)) <= Limit
         /\ \A m \in S \ First(S) : Promise!Crowded(m, First(S))
  <1> DEFINE F == First(S)
             Below(m) == {n \in S : n < m}
  <1>0. /\ S \subseteq Nat /\ F \subseteq S /\ Limit \in Nat
        /\ IsFiniteSet(S) /\ IsFiniteSet(F) /\ Cardinality(F) \in Nat
        /\ \A m \in S : IsFiniteSet(Below(m)) /\ Cardinality(Below(m)) \in Nat
    <2>1. IsFiniteSet(S)
      <3>1. IsFiniteSet(Member)
        BY FS_Interval, RoleSyncAssumption DEF Member
      <3> QED
        BY <3>1, FS_Subset
    <2>2. \A T : T \subseteq S => IsFiniteSet(T) /\ Cardinality(T) \in Nat
      BY <2>1, FS_Subset, FS_CardinalityType
    <2>3. S \subseteq Nat /\ F \subseteq S /\ \A m \in S : Below(m) \subseteq S
      BY FirstIsPart DEF Member
    <2> QED
      BY <2>1, <2>2, <2>3, RoleSyncAssumption
  <1>1. \A m \in S : m \in F <=> Cardinality(Below(m)) < Limit
    BY DEF First
  <1> HIDE DEF F, Below
  <1>2. Cardinality(F) <= Limit
    <2>1. CASE F = {}
      BY <1>0, <2>1, FS_EmptySet
    <2>2. CASE F # {}
      <3>1. PICK x \in F : \A y \in F : y <= x
        BY <1>0, <2>2, MaxMemberExists
      <3>2. F \ {x} \subseteq Below(x)
        BY <1>0, <3>1 DEF Below
      <3>3. Cardinality(F \ {x}) <= Cardinality(Below(x))
        BY <1>0, <3>2, FS_Subset
      <3>4. Cardinality(F \ {x}) = Cardinality(F) - 1
        BY <1>0, FS_RemoveElement
      <3> QED
        BY <1>0, <1>1, <3>3, <3>4
    <2> QED
      BY <2>1, <2>2
  <1>3. ASSUME NEW m \in S \ F PROVE Promise!Crowded(m, F)
    <2>1. Cardinality(F) = Limit
      BY <1>0, <1>2, <1>3, FirstIsFull DEF F
    <2>2. ASSUME NEW n \in F PROVE n < m
      <3>1. SUFFICES ASSUME ~(n < m) PROVE FALSE
        OBVIOUS
      <3>2. Below(m) \subseteq Below(n)
        <4>1. m \in Nat /\ n \in Nat /\ S \subseteq Nat
          BY <1>0, <1>3, <2>2
        <4>2. \A k \in Nat : k < m => k < n
          BY <3>1, <4>1
        <4> QED
          BY <4>1, <4>2 DEF Below
      <3>3. Cardinality(Below(m)) <= Cardinality(Below(n))
        BY <1>0, <3>2, FS_Subset
      <3> QED
        BY <1>0, <1>1, <1>3, <3>3
    <2> QED
      BY <2>1, <2>2, SameCardinality DEF Promise!Crowded
  <1> QED
    BY <1>2, <1>3 DEF F

(* The other half of what a job knows: who was not entitled.               *)
Lapse(w) ==
    /\ pc[w] # Idle => Member \ MeetsAll(rules[w]) \subseteq lapsed[w] /\ optout \subseteq lapsed[w]
    /\ pc[w] = "link" => want[w] = {}
    /\ pc[w] \in {"strip", "remove"} => job[w] \in lapsed[w]
    /\ pc[w] \in {"info", "query"} => seen[w] \subseteq lapsed[w]
    /\ pc[w] \in {"compare", "put"} =>
         /\ Cardinality(want[w]) <= Limit
         /\ \A m \in Member \ want[w] : m \in lapsed[w] \/ Promise!Crowded(m, want[w])

LapseInv == \A w \in Worker : Lapse(w)

LEMMA InitLapse == Init => LapseInv
  BY PlacesDiffer DEF Init, LapseInv, Lapse

LEMMA GrowingLapse ==
  ASSUME TypeOK, LapseInv, WindowsGrow, UNCHANGED <<job, pc, seen, want>>, optout' \subseteq Member
  PROVE  LapseInv'
  <1> SUFFICES ASSUME NEW w \in Worker PROVE Lapse(w)'
    BY DEF LapseInv
  <1>1. Lapse(w)
    BY DEF LapseInv
  <1>2. CASE pc[w] = Idle
    BY <1>2, PlacesDiffer DEF Lapse
  <1>3. CASE pc[w] # Idle
    <2>1. lapsed'[w] = lapsed[w] \cup (Member \ (MeetsAll(rules[w])' \ optout'))
      BY <1>3 DEF WindowsGrow
    <2> QED
      BY <1>1, <1>3, <2>1 DEF Lapse
  <1> QED
    BY <1>2, <1>3

LEMMA WorldLapse == TypeOK /\ TypeOK' /\ LapseInv /\ World => LapseInv'
  <1> SUFFICES ASSUME TypeOK, TypeOK', LapseInv, World PROVE LapseInv'
    OBVIOUS
  <1>1. CASE WindowsGrow /\ UNCHANGED <<job, pc, seen, want>>
    <2>1. optout' \subseteq Member
      BY DEF TypeOK
    <2> QED
      BY <1>1, <2>1, GrowingLapse
  <1>2. CASE UNCHANGED <<envVars, job, pc, seen, want, historyVars>>
    BY <1>2, SameFacts DEF LapseInv, Lapse
  <1> QED
    BY <1>1, <1>2 DEF World, ChangeFacts, Refresh, ChangeOptout, SaveRule, Disconnect, Connect,
                      Pause, Reconcile, DeleteUpstream, Register, Outside

(* Nobody meets a window in which there was no rule.                       *)
LEMMA NobodyMeetsNone ==
  ASSUME TypeOK, NEW R, None \in R
  PROVE  MeetsAll(R) = {}
  BY RoleSyncAssumption DEF MeetsAll, TypeOK

LEMMA LeavingLapse ==
  ASSUME TypeOK, NEW w \in Worker, Leave(w)
  PROVE  Lapse(w)'
  <1>1. pc'[w] = "idle"
    BY PlacesDiffer DEF TypeOK, Leave
  <1> QED
    BY <1>1, PlacesDiffer DEF Lapse

LEMMA TakingLapse ==
  ASSUME TypeOK, LapseInv, NEW w \in Worker, NEW j \in Jobs, Take(w, j)
  PROVE  LapseInv'
  <1>1. /\ pc'[w] \in {"link", "guilds"} /\ want'[w] = {} /\ rules'[w] = {InForce}
        /\ lapsed'[w] = Member \ Entitled /\ optout \subseteq Member
    BY DEF TypeOK, Take, WindowOpens
  <1>2. UNCHANGED <<optout, facts>>
    BY DEF Take
  <1>3. Lapse(w)'
    <2>1. Member \ MeetsAll(rules[w])' \subseteq lapsed'[w] /\ optout' \subseteq lapsed'[w]
      BY <1>1, <1>2 DEF Entitled, Passing, MeetsAll
    <2> QED
      BY <1>1, <2>1 DEF Lapse
  <1>4. ASSUME NEW v \in Worker \ {w} PROVE Lapse(v)'
    <2>1. Lapse(v) /\ UNCHANGED <<pc[v], job[v], want[v], seen[v], rules[v], lapsed[v]>>
      BY DEF TypeOK, LapseInv, Take, WindowOpens
    <2> QED
      BY <1>2, <2>1, SameFacts DEF Lapse
  <1> QED
    BY <1>3, <1>4 DEF LapseInv

LEMMA FailingLapse ==
  ASSUME TypeOK, LapseInv, NEW w \in Worker, Fail(w)
  PROVE  LapseInv'
  <1>1. Leave(w) /\ UNCHANGED <<optout, facts>>
    BY DEF Fail, Retry
  <1>2. Lapse(w)'
    BY <1>1, LeavingLapse
  <1>3. ASSUME NEW v \in Worker \ {w} PROVE Lapse(v)'
    <2>1. Lapse(v) /\ UNCHANGED <<pc[v], job[v], want[v], seen[v], rules[v], lapsed[v]>>
      BY <1>1 DEF TypeOK, LapseInv, Leave, WindowCloses
    <2> QED
      BY <1>1, <2>1, SameFacts DEF Lapse
  <1> QED
    BY <1>2, <1>3 DEF LapseInv

LEMMA OwnLapse ==
  ASSUME TypeOK, SightInv, LapseInv, NEW w \in Worker, Step(w)
  PROVE  Lapse(w)'
  <1>1. CASE Leave(w)
    BY <1>1, LeavingLapse
  <1>2. CASE ~Leave(w)
    <2>1. /\ UNCHANGED <<optout, facts, job, rules, lapsed>>
          /\ Lapse(w) /\ Sight(w) /\ pc[w] # Idle /\ job[w] \in Jobs
          /\ want[w] \subseteq Member /\ optout \subseteq Member
      BY <1>2, GoingOn, StepsAreBusy DEF SightInv, LapseInv, TypeOK
    <2>2. /\ Member \ MeetsAll(rules[w]) \subseteq lapsed[w] /\ optout \subseteq lapsed[w]
          /\ MeetsAll(rules[w])' = MeetsAll(rules[w])
          /\ token # 0 /\ config \notin Rule => Member \subseteq lapsed[w]
      <3>1. token # 0 /\ config \notin Rule => None \in rules[w]
        BY <2>1 DEF Sight, InForce
      <3> QED
        BY <2>1, <3>1, SameFacts, NobodyMeetsNone DEF Lapse
    <2>3. ASSUME NEW l, Await(w, l) PROVE pc'[w] = l
      BY <2>3 DEF Await, TypeOK
    <2>4. pc[w] \in PlayerPC => job[w] \in Member
      BY DEF TypeOK
    <2>5. \A W : want' = [want EXCEPT ![w] = W] => want'[w] = W
      BY DEF TypeOK
    <2>6. \A S : seen' = [seen EXCEPT ![w] = S] => seen'[w] = S
      BY DEF TypeOK
    <2>7. CASE Guilds(w) \/ Customer(w) \/ Vet(w)
      <3>1. pc'[w] \in {"links", "customer", "vet"}
        BY <1>2, <2>3, <2>7 DEF Guilds, Customer, Vet, Finish
      <3> QED
        BY <2>1, <2>2, <3>1 DEF Lapse
    <2>8. CASE Links(w) \/ Assigned(w)
      <3>1. job[w] \in Member
        BY <2>4, <2>8, PlacesDiffer DEF Links, Assigned
      <3>2. \/ pc'[w] \in {"assigned", "facts"}
            \/ pc'[w] = "strip" /\ token # 0 /\ config \notin Rule
            \/ pc'[w] = "remove" /\ pc[w] = "strip"
        BY <1>2, <2>3, <2>8 DEF Links, Assigned, Finish
      <3> QED
        BY <2>1, <2>2, <3>1, <3>2 DEF Lapse
    <2>9. CASE Decide(w)
      <3>1. job[w] \in Member
        BY <2>4, <2>9, PlacesDiffer DEF Decide
      <3>2. pc[w] = "facts" /\ (pc'[w] = "add" \/ (pc'[w] = "remove" /\ job[w] \notin Passing(rule[w])))
        BY <1>2, <2>3, <2>9 DEF Decide, Finish
      <3>3. rule[w] \in rules[w]
        BY <2>1, <3>2 DEF Sight
      <3>4. MeetsAll(rules[w]) \subseteq Passing(rule[w])
        BY <3>3, RuleOfWindow
      <3> QED
        BY <2>1, <2>2, <3>1, <3>2, <3>4 DEF Lapse
    <2>10. CASE Add(w) \/ Remove(w)
      <3>1. pc'[w] = "record"
        BY <1>2, <2>3, <2>10 DEF Add, Remove, Accepted, DeleteOrphan, Finish
      <3> QED
        BY <2>1, <2>2, <3>1 DEF Lapse
    <2>11. CASE Record(w) \/ Store(w)
      BY <1>2, <2>11 DEF Record, Store, Finish, Retry
    <2>12. CASE Read(w)
      <3>1. /\ pc[w] = "link" /\ want'[w] = want[w] /\ token # 0
            /\ pc'[w] = "optouts" \/ (pc'[w] = "compare" /\ config \notin Rule)
        BY <1>2, <2>3, <2>12 DEF Read, Finish
      <3>2. Cardinality({}) <= Limit
        BY FS_EmptySet, RoleSyncAssumption
      <3> QED
        BY <2>1, <2>2, <3>1, <3>2 DEF Lapse
    <2>13. CASE Optouts(w)
      <3>1. pc'[w] = "info" /\ seen'[w] = optout
        BY <2>3, <2>6, <2>13 DEF Optouts
      <3> QED
        BY <2>1, <2>2, <3>1 DEF Lapse
    <2>14. CASE Info(w)
      <3>1. pc[w] = "info" /\ pc'[w] = "query" /\ seen'[w] = seen[w]
        BY <1>2, <2>3, <2>14 DEF Info, DeleteOrphan, Finish
      <3> QED
        BY <2>1, <2>2, <3>1 DEF Lapse
    <2>15. CASE Query(w)
      <3> DEFINE S == Passing(rule[w]) \ seen[w]
      <3>1. pc[w] = "query" /\ pc'[w] = "compare" /\ want'[w] = First(S)
        BY <2>3, <2>5, <2>15 DEF Query
      <3>2. seen[w] \subseteq lapsed[w] /\ rule[w] \in rules[w]
        BY <2>1, <3>1 DEF Lapse, Sight
      <3>3. /\ Cardinality(want'[w]) <= Limit
            /\ \A m \in S \ want'[w] : Promise!Crowded(m, want'[w])
        BY <3>1, FirstInOrder DEF Passing
      <3>4. MeetsAll(rules[w]) \subseteq Passing(rule[w])
        BY <3>2, RuleOfWindow
      <3>5. \A m \in Member \ S : m \in lapsed[w]
        BY <2>2, <3>2, <3>4
      <3> HIDE DEF S
      <3> QED
        BY <2>1, <2>2, <3>1, <3>3, <3>5 DEF Lapse
    <2>16. CASE Compare(w)
      <3>1. pc[w] = "compare" /\ pc'[w] = "put" /\ want'[w] = want[w]
        BY <1>2, <2>3, <2>16 DEF Compare, Finish
      <3> QED
        BY <2>1, <2>2, <3>1 DEF Lapse
    <2>17. CASE Put(w)
      <3>1. pc'[w] = "store"
        BY <1>2, <2>3, <2>17 DEF Put, Held, Replaced, DeleteOrphan, Finish, Retry
      <3> QED
        BY <2>1, <2>2, <3>1 DEF Lapse
    <2> QED
      BY <2>7, <2>8, <2>9, <2>10, <2>11, <2>12, <2>13, <2>14, <2>15, <2>16, <2>17 DEF Step
  <1> QED
    BY <1>1, <1>2

LEMMA SteppingLapse ==
  ASSUME TypeOK, SightInv, LapseInv, NEW w \in Worker, Step(w)
  PROVE  LapseInv'
  <1>1. UNCHANGED <<optout, facts>>
    BY RowStaysOrGoes
  <1>2. ASSUME NEW v \in Worker \ {w} PROVE Lapse(v)'
    <2>1. Lapse(v) /\ UNCHANGED <<pc[v], job[v], Noted(v), rules[v], lapsed[v]>>
      BY StepElsewhere DEF LapseInv
    <2> QED
      BY <1>1, <2>1, SameFacts DEF Lapse, Noted
  <1> QED
    BY <1>2, OwnLapse DEF LapseInv

LEMMA NextLapse == TypeOK /\ TypeOK' /\ SightInv /\ LapseInv /\ [Next]_vars => LapseInv'
  <1> SUFFICES ASSUME TypeOK, TypeOK', SightInv, LapseInv, [Next]_vars PROVE LapseInv'
    OBVIOUS
  <1>1. CASE World
    BY <1>1, WorldLapse
  <1>2. CASE UNCHANGED vars
    BY <1>2, SameFacts DEF LapseInv, Lapse
  <1> QED
    BY <1>1, <1>2, TakingLapse, FailingLapse, SteppingLapse DEF Next

LEMMA RevocationStep == TypeOK /\ LapseInv /\ [Next]_vars =>
    (upToken' = upToken =>
       \A m \in roles \ roles' :
          \/ \E w \in Worker : pc'[w] # pc[w] /\ m \in lapsed[w]
          \/ Cardinality(roles') >= Limit)
  <1> SUFFICES ASSUME TypeOK, LapseInv, [Next]_vars, upToken' = upToken, NEW m \in roles \ roles'
               PROVE  \/ \E w \in Worker : pc'[w] # pc[w] /\ m \in lapsed[w]
                      \/ Cardinality(roles') >= Limit
    OBVIOUS
  <1>1. CASE World
    BY <1>1 DEF World, ChangeFacts, Refresh, ChangeOptout, SaveRule, Disconnect, Connect, Pause,
                Reconcile, DeleteUpstream, Register, Outside
  <1>2. CASE UNCHANGED vars
    BY <1>2
  <1>3. ASSUME NEW w \in Worker, NEW j \in Jobs, Take(w, j) PROVE FALSE
    BY <1>3 DEF Take
  <1>4. ASSUME NEW w \in Worker, Fail(w) PROVE FALSE
    BY <1>4 DEF Fail
  <1>5. ASSUME NEW w \in Worker, Step(w)
        PROVE  (pc'[w] # pc[w] /\ m \in lapsed[w]) \/ Cardinality(roles') >= Limit
    <2>1. /\ Leave(w) => pc'[w] = "idle"
          /\ \A l : Await(w, l) => pc'[w] = l
      BY PlacesDiffer DEF TypeOK, Leave, Await
    <2>2. CASE Remove(w)
      <3>1. pc[w] = "remove" /\ m = job[w] /\ Accepted(w)
        BY <2>2 DEF Remove, DeleteOrphan
      <3>2. pc'[w] # pc[w]
        BY <2>1, <3>1 DEF Accepted, Finish
      <3> QED
        BY <3>1, <3>2 DEF LapseInv, Lapse
    <2>3. CASE Put(w)
      <3>1. pc[w] = "put" /\ roles' = want[w] /\ Replaced(w)
        BY <2>3 DEF Put, DeleteOrphan, Held, Replaced
      <3>2. pc'[w] # pc[w]
        BY <2>1, <3>1 DEF Replaced, Retry
      <3>3. m \in Member \ want[w]
        BY <3>1 DEF TypeOK
      <3>4. m \in lapsed[w] \/ Promise!Crowded(m, want[w])
        BY <3>1, <3>3 DEF LapseInv, Lapse
      <3> QED
        BY <3>1, <3>2, <3>4, SameCardinality, RoleSyncAssumption DEF Promise!Crowded
    <2>4. CASE Add(w)
      BY <2>4 DEF Add, DeleteOrphan
    <2>5. CASE Guilds(w) \/ Customer(w) \/ Vet(w) \/ Links(w) \/ Assigned(w) \/ Decide(w)
               \/ Record(w) \/ Store(w)
      BY <2>5 DEF Guilds, Customer, Vet, Links, Assigned, Decide, Record, Store
    <2>6. CASE Read(w) \/ Optouts(w) \/ Info(w) \/ Query(w) \/ Compare(w)
      BY <2>6 DEF Read, Optouts, Info, Query, Compare, DeleteOrphan
    <2> QED
      BY <1>5, <2>2, <2>3, <2>4, <2>5, <2>6 DEF Step
  <1> QED
    BY <1>1, <1>2, <1>3, <1>4, <1>5 DEF Next

(* No interleaving, error, retry or new token takes a role from a member   *)
(* who, all through the revoking job, had not opted out and met every rule *)
(* that was in force then or earlier in the job, unless the list is full.  *)
THEOREM Revocations == Spec => RevocationsAreJustified
  <1>1. Init => TypeOK /\ SightInv /\ LapseInv
    BY InitTypeOK, InitSight, InitLapse
  <1>2. TypeOK /\ SightInv /\ LapseInv /\ [Next]_vars => TypeOK' /\ SightInv' /\ LapseInv'
    BY NextTypeOK, NextSight, NextLapse
  <1>3. TypeOK /\ LapseInv /\ [Next]_vars =>
          [upToken' = upToken =>
             \A m \in roles \ roles' :
                \/ \E w \in Worker : pc'[w] # pc[w] /\ m \in lapsed[w]
                \/ Cardinality(roles') >= Limit]_vars
    BY RevocationStep
  <1> QED
    BY <1>1, <1>2, <1>3, PTL DEF Spec, RevocationsAreJustified

-----------------------------------------------------------------------------
(* Tokens: which link a job means, and which one RoleLogic has.            *)

(* The awaits at which a job holds the token it has read.                  *)
Holding == {"assigned", "strip", "facts", "add", "remove", "record",
            "optouts", "info", "query", "compare", "put", "store"}

(* RoleLogic accepts the latest token or none; nobody holds a later one.   *)
TokenInv ==
    /\ upToken \in {0, relinks + 1} /\ token <= relinks + 1
    /\ relinks = 0 => token = 1 /\ upToken = 1
    /\ \A w \in Worker :
         /\ tok[w] <= relinks + 1
         /\ pc[w] \in Holding => tok[w] >= 1

LEMMA InitTokens == Init => TokenInv
  BY PlacesDiffer DEF Init, TokenInv, Holding

LEMMA WorldTokens == TypeOK /\ TokenInv /\ World => TokenInv'
  <1> SUFFICES ASSUME TypeOK, TokenInv, World PROVE TokenInv'
    OBVIOUS
  <1>1. CASE UNCHANGED <<token, upToken, relinks, tok, pc>>
    BY <1>1 DEF TokenInv
  <1>2. CASE DeleteUpstream
    <2>1. /\ relinks' = relinks + 1 /\ upToken' = 0 /\ UNCHANGED <<tok, pc>>
          /\ token' \in {0, token}
      BY <1>2 DEF DeleteUpstream, DropRow
    <2>2. relinks \in Nat /\ token \in Nat /\ \A w \in Worker : tok[w] \in Nat
      BY DEF TypeOK
    <2> QED
      BY <2>1, <2>2 DEF TokenInv
  <1>3. CASE Register
    <2>1. /\ upToken = 0 /\ upToken' = relinks + 1 /\ token' = relinks + 1
          /\ UNCHANGED <<relinks, tok, pc>>
      BY <1>3 DEF Register, Outside
    <2> QED
      BY <2>1 DEF TokenInv, TypeOK
  <1> QED
    BY <1>1, <1>2, <1>3 DEF World, ChangeFacts, Refresh, ChangeOptout, SaveRule, Disconnect, Connect,
                            Pause, Reconcile, Change, Outside

(* A worker drops its token, keeps it, or reads the row's; the row goes    *)
(* only to a worker whose token RoleLogic refused.                         *)
LEMMA StepTokens ==
  ASSUME TypeOK, NEW w \in Worker, Step(w)
  PROVE  /\ UNCHANGED <<upToken, relinks>>
         /\ \/ token' = token
            \/ token' = 0 /\ Gone(w) /\ pc[w] \in Holding /\ Leave(w)
         /\ \/ Leave(w)
            \/ \E l : /\ Await(w, l) /\ UNCHANGED tok
                      /\ pc[w] \in Holding \/ l \notin Holding
            \/ tok' = [tok EXCEPT ![w] = token] /\ token # 0 /\ \E l : Await(w, l)
  <1>1. ASSUME DeleteOrphan(w), pc[w] \in Holding
        PROVE  /\ UNCHANGED <<upToken, relinks>> /\ Leave(w)
               /\ token' \in {0, token} /\ Gone(w) /\ pc[w] \in Holding
    BY <1>1 DEF DeleteOrphan, DropRow, Finish, Error
  <1>2. Accepted(w) => /\ Leave(w) \/ (UNCHANGED tok /\ Await(w, "record"))
                       /\ UNCHANGED relinks
    BY DEF Accepted, Finish, Torn, Await
  <1>3. Replaced(w) => /\ Leave(w) \/ (UNCHANGED tok /\ Await(w, "store"))
                       /\ UNCHANGED relinks
    BY DEF Replaced, Retry, Torn, Await
  <1>4. Error => UNCHANGED relinks
    BY DEF Error
  <1>5. CASE Guilds(w) \/ Customer(w) \/ Vet(w)
    BY <1>5 DEF Guilds, Customer, Vet, Finish, Await, Holding
  <1>6. CASE Links(w) \/ Read(w)
    BY <1>6 DEF Links, Read, Finish, Await
  <1>7. CASE Assigned(w)
    BY <1>7 DEF Assigned, Finish, Await, Holding
  <1>8. CASE Decide(w)
    BY <1>8 DEF Decide, Finish, Await, Holding
  <1>9. CASE Add(w)
    <2>1. pc[w] \in Holding
      BY <1>9 DEF Add, Holding
    <2> QED
      BY <1>1, <1>2, <1>4, <1>9, <2>1 DEF Add, Finish
  <1>10. CASE Remove(w)
    <2>1. pc[w] \in Holding
      BY <1>10 DEF Remove, Holding
    <2> QED
      BY <1>1, <1>2, <1>4, <1>10, <2>1 DEF Remove, Finish
  <1>11. CASE Record(w)
    BY <1>11 DEF Record, Finish, Torn
  <1>12. CASE Optouts(w) \/ Query(w)
    BY <1>12 DEF Optouts, Query, Await, Holding
  <1>13. CASE Info(w)
    <2>1. pc[w] \in Holding
      BY <1>13 DEF Info, Holding
    <2> QED
      BY <1>1, <1>13, <2>1 DEF Info, Finish, Await
  <1>14. CASE Compare(w)
    BY <1>14 DEF Compare, Finish, Await, Holding
  <1>15. CASE Put(w)
    <2>1. pc[w] \in Holding
      BY <1>15 DEF Put, Holding
    <2> QED
      BY <1>1, <1>3, <1>15, <2>1 DEF Put, Held, Finish
  <1>16. CASE Store(w)
    BY <1>16 DEF Store, Finish, Retry
  <1> QED
    BY <1>5, <1>6, <1>7, <1>8, <1>9, <1>10, <1>11, <1>12, <1>13, <1>14, <1>15, <1>16 DEF Step

(* With the first link still at RoleLogic, no token is refused.            *)
LEMMA FirstTokenIsGood ==
  ASSUME TypeOK, TokenInv, NEW w \in Worker, pc[w] \in Holding, relinks = 0
  PROVE  ~Gone(w)
  BY DEF TypeOK, TokenInv, Gone

LEMMA NextTokens == TypeOK /\ TokenInv /\ [Next]_vars => TokenInv'
  <1> SUFFICES ASSUME TypeOK, TokenInv, [Next]_vars PROVE TokenInv'
    OBVIOUS
  <1>1. CASE World
    BY <1>1, WorldTokens
  <1>2. CASE UNCHANGED vars
    BY <1>2 DEF TokenInv
  <1>3. ASSUME NEW w \in Worker, Leave(w)
        PROVE  \A v \in Worker : /\ tok'[v] <= relinks + 1
                                 /\ pc'[v] \in Holding => tok'[v] >= 1
    BY <1>3, PlacesDiffer DEF TypeOK, TokenInv, Leave, Holding
  <1>4. ASSUME NEW w \in Worker, Fail(w) PROVE TokenInv'
    <2>1. Leave(w) /\ UNCHANGED <<token, upToken, relinks>>
      BY <1>4 DEF Fail, Retry, Error, Torn
    <2> QED
      BY <1>3, <2>1 DEF TokenInv
  <1>5. ASSUME NEW w \in Worker, NEW j \in Jobs, Take(w, j) PROVE TokenInv'
    BY <1>5, PlacesDiffer DEF Take, TypeOK, TokenInv, Holding
  <1>6. ASSUME NEW w \in Worker, Step(w) PROVE TokenInv'
    <2>1. UNCHANGED <<upToken, relinks>> /\ token' <= relinks + 1
      BY <1>6, StepTokens DEF TypeOK, TokenInv
    <2>2. relinks = 0 => token' = token
      BY <1>6, StepTokens, FirstTokenIsGood
    <2>3. \A v \in Worker : /\ tok'[v] <= relinks + 1
                            /\ pc'[v] \in Holding => tok'[v] >= 1
      <3>1. CASE Leave(w)
        BY <1>3, <3>1
      <3>2. ASSUME NEW l, Await(w, l), UNCHANGED tok, pc[w] \in Holding \/ l \notin Holding
            PROVE  \A v \in Worker : /\ tok'[v] <= relinks + 1
                                     /\ pc'[v] \in Holding => tok'[v] >= 1
        BY <3>2 DEF TypeOK, TokenInv, Await
      <3>3. ASSUME NEW l, Await(w, l), tok' = [tok EXCEPT ![w] = token], token # 0
            PROVE  \A v \in Worker : /\ tok'[v] <= relinks + 1
                                     /\ pc'[v] \in Holding => tok'[v] >= 1
        BY <3>3 DEF TypeOK, TokenInv, Await
      <3> QED
        BY <1>6, <3>1, <3>2, <3>3, StepTokens
    <2> QED
      BY <2>1, <2>2, <2>3 DEF TokenInv
  <1> QED
    BY <1>1, <1>2, <1>4, <1>5, <1>6 DEF Next

LEMMA RowGoesToOldToken == TypeOK /\ TokenInv /\ [Next]_vars =>
    (token # 0 /\ token = upToken /\ token' = 0 /\ upToken' = upToken =>
       \E w \in Worker : pc'[w] # pc[w] /\ tok[w] \in 1..(token - 1))
  <1> SUFFICES ASSUME TypeOK, TokenInv, [Next]_vars,
                      token # 0, token = upToken, token' = 0, upToken' = upToken
               PROVE  \E w \in Worker : pc'[w] # pc[w] /\ tok[w] \in 1..(token - 1)
    OBVIOUS
  <1>1. CASE World
    BY <1>1 DEF World, ChangeFacts, Refresh, ChangeOptout, SaveRule, Disconnect, Connect, Pause,
                Reconcile, DeleteUpstream, Register, Outside, TypeOK
  <1>2. CASE UNCHANGED vars
    BY <1>2
  <1>3. ASSUME NEW w \in Worker, NEW j \in Jobs, Take(w, j) PROVE FALSE
    BY <1>3 DEF Take
  <1>4. ASSUME NEW w \in Worker, Fail(w) PROVE FALSE
    BY <1>4 DEF Fail
  <1>5. ASSUME NEW w \in Worker, Step(w)
        PROVE  pc'[w] # pc[w] /\ tok[w] \in 1..(token - 1)
    <2>1. Gone(w) /\ pc[w] \in Holding /\ Leave(w)
      BY <1>5, StepTokens
    <2>2. pc'[w] # pc[w]
      BY <2>1, PlacesDiffer DEF Leave, TypeOK, Holding
    <2>3. /\ tok[w] # token /\ tok[w] >= 1 /\ tok[w] <= relinks + 1 /\ token = relinks + 1
          /\ tok[w] \in Nat /\ token \in Nat /\ relinks \in Nat
      BY <2>1 DEF Gone, TypeOK, TokenInv
    <2> QED
      BY <2>2, <2>3
  <1> QED
    BY <1>1, <1>2, <1>3, <1>4, <1>5 DEF Next

(* A row whose token RoleLogic accepts falls only to a job that holds an   *)
(* earlier token, however the jobs, the failures, the deletions upstream   *)
(* and the registrations interleave.                                       *)
THEOREM OldTokens == Spec => LiveRowsFallToOldTokens
  <1>1. Init => TypeOK /\ TokenInv
    BY InitTypeOK, InitTokens
  <1>2. TypeOK /\ TokenInv /\ [Next]_vars => TypeOK' /\ TokenInv'
    BY NextTypeOK, NextTokens
  <1>3. TypeOK /\ TokenInv /\ [Next]_vars =>
          [token # 0 /\ token = upToken /\ token' = 0 /\ upToken' = upToken =>
             \E w \in Worker : pc'[w] # pc[w] /\ tok[w] \in 1..(token - 1)]_vars
    BY RowGoesToOldToken
  <1> QED
    BY <1>1, <1>2, <1>3, PTL DEF Spec, LiveRowsFallToOldTokens

-----------------------------------------------------------------------------
(* The mirror is exact.                                                    *)

(* What want[w] says before the job has worked out its list.               *)
WantInv == \A w \in Worker :
    /\ pc[w] \in {"guilds", "customer", "vet", "links", "assigned", "strip", "remove",
                  "link", "optouts", "info", "query"} => want[w] = {}
    /\ pc[w] = "add" => want[w] # {}

(* Between a RoleLogic call and its record the lists differ by that call.  *)
Recording(w) ==
    /\ pc[w] = "record" =>
         roles = IF want[w] = {} THEN mirror \ {job[w]} ELSE mirror \cup {job[w]}
    /\ pc[w] = "store" => roles = want[w]

MirrorInv ==
    torn = 0 /\ relinks = 0 =>
      /\ (\A w \in Worker : pc[w] \notin {"record", "store"}) => mirror = roles
      /\ \A w \in Worker : Recording(w)

LEMMA InitMirror == Init => WantInv /\ MirrorInv
  BY PlacesDiffer DEF Init, WantInv, MirrorInv, Recording

(* What a worker writes down is its own.                                   *)
LEMMA OwnWant ==
  ASSUME TypeOK, WantInv, NEW w \in Worker, Step(w)
  PROVE  WantInv'
  <1>1. ASSUME NEW v \in Worker \ {w}
        PROVE  pc'[v] = pc[v] /\ want'[v] = want[v]
    BY StepMoves, LeaveAlone DEF Leave, TypeOK, Noted
  <1>2. /\ Leave(w) => pc'[w] = "idle"
        /\ \A l : Await(w, l) => pc'[w] = l
        /\ \A W : want' = [want EXCEPT ![w] = W] => want'[w] = W
    BY PlacesDiffer DEF TypeOK, Leave, Await
  <1> DEFINE Says ==
        /\ pc[w] \in {"guilds", "customer", "vet", "links", "assigned", "strip", "remove",
                      "link", "optouts", "info", "query"} => want[w] = {}
        /\ pc[w] = "add" => want[w] # {}
  <1>3. Says
    BY DEF WantInv
  <1>4. Says'
    <2>1. CASE Leave(w)
      BY <1>2, <2>1
    <2>2. CASE ~Leave(w)
      <3>1. CASE Guilds(w) \/ Customer(w) \/ Vet(w)
        BY <1>2, <1>3, <2>2, <3>1 DEF Guilds, Customer, Vet, Finish
      <3>2. CASE Links(w) \/ Read(w)
        BY <1>2, <1>3, <2>2, <3>2 DEF Links, Read, Finish
      <3>3. CASE Assigned(w)
        BY <1>2, <1>3, <2>2, <3>3 DEF Assigned, Finish
      <3>4. CASE Decide(w)
        BY <1>2, <1>3, <2>2, <3>4 DEF Decide, Finish
      <3>5. CASE Add(w) \/ Remove(w)
        BY <1>2, <2>2, <3>5 DEF Add, Remove, Accepted, DeleteOrphan, Finish
      <3>6. CASE Record(w) \/ Store(w)
        BY <2>2, <3>6 DEF Record, Store, Finish, Retry
      <3>7. CASE Optouts(w) \/ Query(w)
        BY <1>2, <1>3, <3>7 DEF Optouts, Query
      <3>8. CASE Info(w)
        BY <1>2, <1>3, <2>2, <3>8 DEF Info, DeleteOrphan, Finish
      <3>9. CASE Compare(w) \/ Put(w)
        BY <1>2, <2>2, <3>9 DEF Compare, Put, Held, Replaced, DeleteOrphan, Finish, Retry
      <3> QED
        BY <3>1, <3>2, <3>3, <3>4, <3>5, <3>6, <3>7, <3>8, <3>9 DEF Step
    <2> QED
      BY <2>1, <2>2
  <1> QED
    BY <1>1, <1>4 DEF WantInv

LEMMA NextWant == TypeOK /\ WantInv /\ [Next]_vars => WantInv'
  <1> SUFFICES ASSUME TypeOK, WantInv, [Next]_vars PROVE WantInv'
    OBVIOUS
  <1>1. CASE UNCHANGED <<pc, want>>
    BY <1>1 DEF WantInv
  <1>2. World => UNCHANGED <<pc, want>>
    BY DEF World, ChangeFacts, Refresh, ChangeOptout, SaveRule, Disconnect, Connect, Pause,
           Reconcile, DeleteUpstream, Register, Outside
  <1>3. ASSUME NEW w \in Worker, Fail(w) PROVE WantInv'
    BY <1>3, PlacesDiffer DEF Fail, Retry, Leave, WantInv, TypeOK
  <1>4. ASSUME NEW w \in Worker, NEW j \in Jobs, Take(w, j) PROVE WantInv'
    BY <1>4, PlacesDiffer DEF Take, WantInv, TypeOK
  <1> QED
    BY <1>1, <1>2, <1>3, <1>4, OwnWant DEF Next

(* One replica with WORKER_CONCURRENCY=1, the least that main.rs:89 allows;*)
(* DriftHeals shows that two workers part the lists for good.              *)
OneAtATime == \A v, w \in Worker : v = w

LEMMA WorldMirror ==
  ASSUME TypeOK, MirrorInv, World
  PROVE  MirrorInv'
  <1>1. CASE UNCHANGED <<listVars, job, pc, want, torn, relinks>>
    BY <1>1 DEF MirrorInv, Recording
  <1>2. CASE DeleteUpstream
    <2>1. relinks' # 0
      BY <1>2 DEF DeleteUpstream, TypeOK
    <2> QED
      BY <2>1 DEF MirrorInv
  <1> QED
    BY <1>1, <1>2 DEF World, ChangeFacts, Refresh, ChangeOptout, SaveRule, Disconnect, Connect, Pause,
                      Reconcile, Register, Change, Outside

LEMMA FailMirror ==
  ASSUME TypeOK, MirrorInv, NEW w \in Worker, Fail(w), OneAtATime
  PROVE  MirrorInv'
  <1>1. CASE pc[w] \in {"record", "store"}
    <2>1. torn' # 0
      BY <1>1 DEF Fail, Torn, TypeOK
    <2> QED
      BY <2>1 DEF MirrorInv
  <1>2. CASE pc[w] \notin {"record", "store"}
    <2>1. UNCHANGED <<torn, relinks, listVars>> /\ pc'[w] = "idle"
      BY <1>2, PlacesDiffer DEF Fail, Error, Retry, Leave, TypeOK
    <2>2. \A v \in Worker : v = w
      BY DEF OneAtATime
    <2> QED
      BY <1>2, <2>1, <2>2 DEF MirrorInv, Recording
  <1> QED
    BY <1>1, <1>2

LEMMA TakeMirror ==
  ASSUME TypeOK, MirrorInv, NEW w \in Worker, NEW j \in Jobs, Take(w, j), OneAtATime
  PROVE  MirrorInv'
  <1>1. /\ UNCHANGED <<torn, relinks, listVars>>
        /\ pc[w] = "idle" /\ pc'[w] \in {"link", "guilds"}
    BY PlacesDiffer DEF Take, TypeOK
  <1>2. \A v \in Worker : v = w
    BY DEF OneAtATime
  <1> QED
    BY <1>1, <1>2 DEF MirrorInv, Recording

LEMMA StepMirror ==
  ASSUME TypeOK, TokenInv, WantInv, MirrorInv, NEW w \in Worker, Step(w), OneAtATime
  PROVE  MirrorInv'
  <1> SUFFICES ASSUME torn' = 0, relinks' = 0
               PROVE  /\ pc'[w] \notin {"record", "store"} => mirror' = roles'
                      /\ Recording(w)'
    BY DEF OneAtATime, MirrorInv
  <1>1. relinks = 0
    BY StepTokens
  <1>2. ~Torn
    BY DEF Torn, TypeOK
  <1>3. torn = 0
    BY <1>2 DEF Step, Guilds, Customer, Vet, Links, Assigned, Decide, Add, Remove, Record, Read, Optouts, Info,
                Query, Compare, Put, Store, DeleteOrphan, Held, Replaced, Accepted, Error, Await
  <1>4. ~DeleteOrphan(w) \/ pc[w] \notin Holding
    BY <1>1, FirstTokenIsGood DEF DeleteOrphan
  <1>5. token # 0
    BY <1>1 DEF TokenInv
  <1>6. /\ pc[w] \notin {"record", "store"} => mirror = roles
        /\ Recording(w)
    BY <1>1, <1>3 DEF MirrorInv, OneAtATime
  <1>7. /\ Leave(w) => pc'[w] = "idle"
        /\ \A l : Await(w, l) => pc'[w] = l /\ job' = job
    BY PlacesDiffer DEF TypeOK, Leave, Await
  <1>8. CASE Guilds(w) \/ Customer(w) \/ Vet(w) \/ Links(w) \/ Read(w)
    <2>1. pc[w] \notin {"record", "store"} /\ pc'[w] \notin {"record", "store"} /\ UNCHANGED listVars
      BY <1>7, <1>8 DEF Guilds, Customer, Vet, Links, Read, Finish
    <2> QED
      BY <1>6, <2>1 DEF Recording
  <1>9. CASE Assigned(w) \/ Decide(w) \/ Optouts(w) \/ Query(w)
    <2>1. pc[w] \notin {"record", "store"} /\ pc'[w] \notin {"record", "store"} /\ UNCHANGED listVars
      BY <1>7, <1>9 DEF Assigned, Decide, Optouts, Query, Finish
    <2> QED
      BY <1>6, <2>1 DEF Recording
  <1>10. CASE Info(w) \/ Compare(w)
    <2>1. pc[w] \notin {"record", "store"} /\ pc'[w] \notin {"record", "store"} /\ UNCHANGED listVars
      BY <1>4, <1>7, <1>10 DEF Info, Compare, Finish, Holding
    <2> QED
      BY <1>6, <2>1 DEF Recording
  <1>11. CASE Add(w)
    <2>1. /\ pc[w] = "add" /\ UNCHANGED mirror /\ want[w] # {}
          /\ \/ Finish(w) /\ UNCHANGED roles
             \/ roles' = roles \cup {job[w]} /\ Await(w, "record") /\ UNCHANGED want
      BY <1>2, <1>4, <1>11 DEF Add, Accepted, Holding, WantInv
    <2> QED
      BY <1>6, <1>7, <2>1 DEF Recording, Finish
  <1>12. CASE Remove(w)
    <2>1. /\ pc[w] = "remove" /\ UNCHANGED mirror /\ want[w] = {}
          /\ \/ Finish(w) /\ UNCHANGED roles
             \/ roles' = roles \ {job[w]} /\ Await(w, "record") /\ UNCHANGED want
      BY <1>2, <1>4, <1>12 DEF Remove, Accepted, Holding, WantInv
    <2> QED
      BY <1>6, <1>7, <2>1 DEF Recording, Finish
  <1>13. CASE Record(w)
    <2>1. /\ pc[w] = "record" /\ UNCHANGED roles /\ Leave(w)
          /\ mirror' = IF want[w] = {} THEN mirror \ {job[w]} ELSE mirror \cup {job[w]}
      BY <1>2, <1>5, <1>13 DEF Record, Finish
    <2> QED
      BY <1>6, <1>7, <2>1 DEF Recording
  <1>14. CASE Put(w)
    <2>1. /\ pc[w] = "put" /\ UNCHANGED mirror
          /\ \/ Leave(w) /\ UNCHANGED roles
             \/ roles' = want[w] /\ Await(w, "store") /\ UNCHANGED want
      BY <1>2, <1>4, <1>14 DEF Put, Held, Replaced, Finish, Holding
    <2> QED
      BY <1>6, <1>7, <2>1 DEF Recording
  <1>15. CASE Store(w)
    <2>1. pc[w] = "store" /\ UNCHANGED roles /\ Leave(w) /\ mirror' = want[w]
      BY <1>5, <1>15 DEF Store, Finish
    <2> QED
      BY <1>6, <1>7, <2>1 DEF Recording
  <1> QED
    BY <1>8, <1>9, <1>10, <1>11, <1>12, <1>13, <1>14, <1>15 DEF Step

LEMMA NextMirror ==
  ASSUME OneAtATime
  PROVE  TypeOK /\ TokenInv /\ WantInv /\ MirrorInv /\ [Next]_vars => MirrorInv'
  <1> SUFFICES ASSUME TypeOK, TokenInv, WantInv, MirrorInv, [Next]_vars PROVE MirrorInv'
    OBVIOUS
  <1>1. CASE UNCHANGED vars
    BY <1>1 DEF MirrorInv, Recording
  <1> QED
    BY <1>1, WorldMirror, FailMirror, TakeMirror, StepMirror DEF Next

(* When one worker runs the jobs, the mirror equals RoleLogic's list       *)
(* between jobs, whatever fails without effect, is held, paused, opted out *)
(* or saved meanwhile: only an unrecorded call or a new link parts them.   *)
THEOREM MirrorOfOneWorker ==
  ASSUME OneAtATime
  PROVE  Spec => []MirrorIsExact
  <1>1. Init => TypeOK /\ TokenInv /\ WantInv /\ MirrorInv
    BY InitTypeOK, InitTokens, InitMirror
  <1>2. TypeOK /\ TokenInv /\ WantInv /\ MirrorInv /\ [Next]_vars
          => TypeOK' /\ TokenInv' /\ WantInv' /\ MirrorInv'
    BY NextTypeOK, NextTokens, NextWant, NextMirror
  <1>3. MirrorInv => MirrorIsExact
    BY PlacesDiffer DEF MirrorInv, MirrorIsExact, Quiet
  <1> QED
    BY <1>1, <1>2, <1>3, PTL DEF Spec
-----------------------------------------------------------------------------
(* The jobs keep the promise of RoleList.                                  *)

Running == {w \in Worker : pc[w] # Idle}

LEMMA SamePromise ==
  /\ Promise!None = None
  /\ \A R : Promise!MeetsOne(R) = MeetsOne(R) /\ Promise!MeetsAll(R) = MeetsAll(R)
  /\ Promise!Entitled = Entitled
  BY DEF Promise!None, None, Promise!MeetsOne, MeetsOne, Promise!MeetsAll, MeetsAll,
         Promise!Entitled, Entitled, Passing

LEMMA InitPromise == Init => Promise!Init
  <1> SUFFICES ASSUME Init PROVE Promise!Init
    OBVIOUS
  <1>1. roles \in SUBSET Promise!Entitled /\ Cardinality(roles) <= Limit
    <2>1. Entitled \in SUBSET Member
      BY DEF Entitled, Passing
    <2> QED
      BY <2>1, FirstIsPart, FirstInOrder, SamePromise DEF Init
  <1>2. Running = {}
    BY DEF Init, Running
  <1>3. /\ Member \ optout \in SUBSET Member /\ facts \in [Member -> SUBSET Rule]
        /\ InForce \in Rule \cup {Promise!None}
    BY SamePromise DEF Init, InForce
  <1> QED
    BY <1>1, <1>2, <1>3, SameCardinality DEF Init, Promise!Init, Running

(* A step that opens and closes no window changes nothing of the promise   *)
(* if it leaves the world and the list alone.                              *)
LEMMA PromiseStutters ==
  ASSUME UNCHANGED <<roles, upToken, token, config, optout, facts, historyVars>>, Running' = Running
  PROVE  UNCHANGED Promise!vars
  BY SameRule DEF Promise!vars, Promise!worldVars, Promise!jobVars, Running

LEMMA GrowingPromise ==
  ASSUME WindowsGrow, UNCHANGED pc
  PROVE  Promise!Seen /\ Running' = Running
  <1>1. /\ \A w \in Worker : Promise!MeetsOne(rules[w])' = MeetsOne(rules[w])'
        /\ \A w \in Worker : Promise!MeetsAll(rules[w])' = MeetsAll(rules[w])'
    BY DEF Promise!MeetsOne, MeetsOne, Promise!MeetsAll, MeetsAll
  <1> QED
    BY <1>1 DEF WindowsGrow, Promise!Seen, Running

LEMMA TurningPromise ==
  ASSUME WindowsGrow, UNCHANGED <<pc, roles>>, TypeOK',
         (upToken' # 0) = (upToken # 0) \/ upToken' # 0
  PROVE  Promise!Turn
  <1>1. /\ Member \ optout' \in SUBSET Member /\ facts' \in [Member -> SUBSET Rule]
        /\ InForce' \in Rule \cup {Promise!None}
    BY SamePromise DEF TypeOK, InForce
  <1> QED
    BY <1>1, GrowingPromise DEF Promise!Turn, Running

LEMMA WorldPromise ==
  ASSUME TypeOK, TypeOK', TokenInv, World
  PROVE  Promise!Turn \/ Promise!Delete \/ UNCHANGED Promise!vars
  <1>1. CASE Reconcile \/ \E m \in Member : Refresh(m)
    <2>1. /\ UNCHANGED <<roles, upToken, token, config, optout, facts, historyVars, pc>>
      BY <1>1 DEF Reconcile, Refresh
    <2>2. Running' = Running
      BY <2>1 DEF Running
    <2> QED
      BY <2>1, <2>2, PromiseStutters
  <1>2. CASE DeleteUpstream
    <2>1. /\ WindowsGrow /\ UNCHANGED <<pc, optout, facts>>
          /\ upToken # 0 /\ upToken' = 0 /\ roles' = {}
          /\ token' = 0 \/ UNCHANGED <<token, config>>
      BY <1>2 DEF DeleteUpstream, DropRow
    <2>2. InForce' \in {InForce, Promise!None}
      BY <2>1, SameRule, SamePromise DEF InForce
    <2> QED
      BY <2>1, <2>2, GrowingPromise DEF Promise!Delete
  <1>3. CASE /\ WindowsGrow /\ UNCHANGED <<pc, roles>>
             /\ upToken' = upToken \/ upToken' # 0
    BY <1>3, TurningPromise
  <1>4. Register => upToken' # 0
    BY DEF Register, TypeOK
  <1> QED
    BY <1>1, <1>2, <1>3, <1>4 DEF World, ChangeFacts, ChangeOptout, SaveRule, Disconnect, Connect, Pause,
                            Register, Outside

LEMMA TakingPromise ==
  ASSUME TypeOK, NEW w \in Worker, NEW j \in Jobs, Take(w, j)
  PROVE  Promise!Begin(w)
  <1>1. pc[w] = Idle /\ pc'[w] # Idle /\ \A v \in Worker \ {w} : pc'[v] = pc[v]
    BY PlacesDiffer DEF Take, TypeOK
  <1>2. w \notin Running /\ Running' = Running \cup {w}
    BY <1>1 DEF Running
  <1>3. /\ UNCHANGED <<roles, upToken, token, config, optout, facts>> /\ WindowOpens(w)
        /\ InForce' = InForce /\ Passing(InForce) = MeetsOne({InForce})
    BY SameRule DEF Take, Passing, MeetsOne
  <1> QED
    BY <1>2, <1>3, SamePromise
    DEF WindowOpens, Promise!Begin, Promise!Window, Promise!worldVars, Running

(* The two ways a worker's step may go on.                                 *)
LEMMA LeavingPromise ==
  ASSUME TypeOK, NEW w \in Worker, pc[w] # Idle, Leave(w)
  PROVE  w \in Running /\ Promise!Ends(w)
  <1>1. pc'[w] = Idle /\ \A v \in Worker \ {w} : pc'[v] = pc[v]
    BY DEF Leave, TypeOK
  <1>2. w \in Running /\ Running' = Running \ {w}
    BY <1>1 DEF Running
  <1> QED
    BY <1>2 DEF Leave, WindowCloses, Promise!Ends, Promise!Window, Running

LEMMA AwaitingPromise ==
  ASSUME TypeOK, NEW w \in Worker, pc[w] # Idle, NEW l, Await(w, l), l # Idle
  PROVE  w \in Running /\ Running' = Running /\ UNCHANGED historyVars
  <1>1. pc'[w] = l /\ \A v \in Worker \ {w} : pc'[v] = pc[v]
    BY DEF Await, TypeOK
  <1> QED
    BY <1>1 DEF Await, Running

LEMMA EndingPromise ==
  ASSUME TypeOK, NEW w \in Worker, pc[w] # Idle, Leave(w),
         UNCHANGED <<roles, upToken, optout, facts>>,
         token' = 0 \/ UNCHANGED <<token, config>>
  PROVE  Promise!End(w)
  <1>1. InForce' \in {InForce, Promise!None}
    BY SameRule, SamePromise DEF InForce
  <1> QED
    BY <1>1, LeavingPromise DEF Promise!End, Running

(* A call that RoleLogic accepts is made on a link that is there.          *)
LEMMA CallingPromise ==
  ASSUME TypeOK, TokenInv, NEW w \in Worker, pc[w] \in Holding, ~Gone(w),
         Leave(w) \/ \E l : l # Idle /\ Await(w, l),
         UNCHANGED envVars
  PROVE  Promise!Call(w)
  <1>1. upToken # 0
    BY DEF TypeOK, TokenInv, Gone
  <1>2. pc[w] # Idle
    BY PlacesDiffer DEF Holding
  <1>3. w \in Running /\ (Promise!Ends(w) \/ (Running' = Running /\ UNCHANGED historyVars))
    BY <1>2, LeavingPromise, AwaitingPromise
  <1>4. UNCHANGED Promise!worldVars
    BY SameRule DEF Promise!worldVars
  <1> QED
    BY <1>1, <1>3, <1>4 DEF Promise!Call, Promise!jobVars, Running

LEMMA AddingPromise ==
  ASSUME TypeOK, TokenInv, SightInv, NEW w \in Worker, Add(w), ~DeleteOrphan(w)
  PROVE  Promise!Grant(w) \/ Promise!End(w)
  <1>1. pc[w] = "add" /\ pc[w] # Idle /\ pc[w] \in Holding /\ ~Gone(w) /\ UNCHANGED <<envVars, mirror>>
    BY PlacesDiffer DEF Add, Holding
  <1>2. CASE Finish(w) /\ UNCHANGED roles
    BY <1>1, <1>2, EndingPromise DEF Finish
  <1>3. CASE /\ Cardinality(roles \cup {job[w]}) <= Limit
             /\ roles' = roles \cup {job[w]} /\ Accepted(w)
    <2>1. Leave(w) \/ Await(w, "record")
      BY <1>3 DEF Accepted, Finish
    <2>2. Promise!Call(w)
      BY <1>1, <2>1, CallingPromise, PlacesDiffer
    <2>3. job[w] \in admitted[w] \cap passing[w]
      BY <1>1 DEF SightInv, Sight
    <2>4. Promise!Cardinality(roles') <= Limit
      BY <1>3, SameCardinality
    <2> QED
      BY <1>3, <2>2, <2>3, <2>4 DEF Promise!Grant
  <1>4. ~(Cardinality(roles \cup {job[w]}) > Limit) => Cardinality(roles \cup {job[w]}) <= Limit
    <2>1. IsFiniteSet(roles \cup {job[w]})
      <3>1. IsFiniteSet(Member)
        BY FS_Interval, RoleSyncAssumption DEF Member
      <3>2. IsFiniteSet(roles)
        BY <3>1, FS_Subset DEF TypeOK
      <3> QED
        BY <3>2, FS_AddElement
    <2>2. Cardinality(roles \cup {job[w]}) \in Nat /\ Limit \in Nat
      BY <2>1, FS_CardinalityType, RoleSyncAssumption
    <2> QED
      BY <2>2
  <1> QED
    BY <1>1, <1>2, <1>3, <1>4 DEF Add

LEMMA RemovingPromise ==
  ASSUME TypeOK, TokenInv, LapseInv, NEW w \in Worker, Remove(w), ~DeleteOrphan(w)
  PROVE  Promise!Revoke(w) \/ Promise!End(w)
  <1>1. /\ pc[w] = "remove" /\ pc[w] # Idle /\ pc[w] \in Holding /\ ~Gone(w)
        /\ UNCHANGED <<envVars, mirror>>
    BY PlacesDiffer DEF Remove, Holding
  <1>2. CASE Finish(w) /\ UNCHANGED roles
    BY <1>1, <1>2, EndingPromise DEF Finish
  <1>3. CASE roles' = roles \ {job[w]} /\ Accepted(w)
    <2>1. Leave(w) \/ Await(w, "record")
      BY <1>3 DEF Accepted, Finish
    <2>2. Promise!Call(w)
      BY <1>1, <2>1, CallingPromise, PlacesDiffer
    <2>3. job[w] \in lapsed[w]
      BY <1>1 DEF LapseInv, Lapse
    <2> QED
      BY <1>3, <2>2, <2>3 DEF Promise!Revoke
  <1> QED
    BY <1>1, <1>2, <1>3 DEF Remove

LEMMA PuttingPromise ==
  ASSUME TypeOK, TokenInv, SightInv, LapseInv, NEW w \in Worker, Put(w), ~DeleteOrphan(w)
  PROVE  Promise!Replace(w) \/ Promise!End(w)
  <1>1. /\ pc[w] = "put" /\ pc[w] # Idle /\ pc[w] \in Holding /\ ~Gone(w)
        /\ UNCHANGED <<envVars, mirror>>
    BY PlacesDiffer DEF Put, Holding
  <1>2. CASE Leave(w) /\ UNCHANGED roles
    BY <1>1, <1>2, EndingPromise
  <1>3. CASE Replaced(w)
    <2>1. roles' = want[w] /\ (Leave(w) \/ Await(w, "store"))
      BY <1>3 DEF Replaced, Retry
    <2>2. Promise!Call(w)
      BY <1>1, <2>1, CallingPromise, PlacesDiffer
    <2>3. want[w] \in SUBSET (admitted[w] \cap passing[w])
      BY <1>1 DEF SightInv, Sight
    <2>4. /\ Promise!Cardinality(want[w]) <= Limit
          /\ \A m \in Member \ want[w] : m \in lapsed[w] \/ Promise!Crowded(m, want[w])
      BY <1>1, SameCardinality DEF LapseInv, Lapse
    <2> QED
      BY <2>1, <2>2, <2>3, <2>4 DEF Promise!Replace
  <1> QED
    BY <1>1, <1>2, <1>3 DEF Put, Held, Finish

LEMMA SteppingPromise ==
  ASSUME TypeOK, TokenInv, SightInv, LapseInv, NEW w \in Worker, Step(w)
  PROVE  \/ Promise!End(w) \/ Promise!Grant(w) \/ Promise!Revoke(w) \/ Promise!Replace(w)
         \/ UNCHANGED Promise!vars
  <1>1. pc[w] # Idle
    BY PlacesDiffer DEF Step, Guilds, Customer, Vet, Links, Assigned, Decide, Add, Remove, Record,
                        Read, Optouts, Info, Query, Compare, Put, Store
  <1>2. CASE DeleteOrphan(w)
    BY <1>1, <1>2, EndingPromise DEF DeleteOrphan, DropRow, Finish
  <1>3. CASE (Add(w) \/ Remove(w) \/ Put(w)) /\ ~DeleteOrphan(w)
    BY <1>3, AddingPromise, RemovingPromise, PuttingPromise
  <1>4. CASE ~Add(w) /\ ~Remove(w) /\ ~Put(w) /\ ~DeleteOrphan(w)
    <2>1. UNCHANGED <<envVars, roles>>
      BY <1>4 DEF Step, Guilds, Customer, Vet, Links, Assigned, Decide, Record, Read, Optouts, Info,
                  Query, Compare, Store
    <2>2. CASE Leave(w)
      BY <1>1, <2>1, <2>2, EndingPromise
    <2>3. ASSUME NEW l, Await(w, l), l # Idle PROVE UNCHANGED Promise!vars
      BY <1>1, <2>1, <2>3, AwaitingPromise, PromiseStutters
    <2>4. Leave(w) \/ \E l \in PlayerPC \cup BulkPC : Await(w, l)
      BY <1>4, PlacesDiffer
      DEF Step, Guilds, Customer, Vet, Links, Assigned, Decide, Record, Read, Optouts, Info, Query,
          Compare, Store, Finish, Retry
    <2> QED
      BY <2>2, <2>3, <2>4, PlacesDiffer
  <1> QED
    BY <1>2, <1>3, <1>4

LEMMA NextPromise ==
  ASSUME TypeOK, TypeOK', TokenInv, SightInv, LapseInv, [Next]_vars
  PROVE  [Promise!Next]_(Promise!vars)
  <1>1. CASE World
    BY <1>1, WorldPromise DEF Promise!Next
  <1>2. ASSUME NEW w \in Worker, Step(w) PROVE [Promise!Next]_(Promise!vars)
    BY <1>2, SteppingPromise DEF Promise!Next
  <1>3. ASSUME NEW w \in Worker, Fail(w) PROVE Promise!Next
    BY <1>3, EndingPromise DEF Fail, Retry, Promise!Next
  <1>4. ASSUME NEW w \in Worker, NEW j \in Jobs, Take(w, j) PROVE Promise!Next
    BY <1>4, TakingPromise DEF Promise!Next
  <1>5. CASE UNCHANGED vars
    BY <1>5, PromiseStutters DEF Running
  <1> QED
    BY <1>1, <1>2, <1>3, <1>4, <1>5 DEF Next

(* For any members, limit, workers and faults, every step of the sync jobs *)
(* and of the world around them is a step of RoleList or a stutter: the    *)
(* list at RoleLogic changes only by justified calls of running jobs, on a *)
(* link that is there, within the limit and in the members' order.         *)
THEOREM JobsImplementRoleList == Spec => ImplementsRoleList
  <1>1. Init => TypeOK /\ TokenInv /\ SightInv /\ LapseInv
    BY InitTypeOK, InitTokens, InitSight, InitLapse
  <1>2. TypeOK /\ TokenInv /\ SightInv /\ LapseInv /\ [Next]_vars
          => TypeOK' /\ TokenInv' /\ SightInv' /\ LapseInv'
    BY NextTypeOK, NextTokens, NextSight, NextLapse
  <1>3. TypeOK /\ TypeOK' /\ TokenInv /\ SightInv /\ LapseInv /\ [Next]_vars
          => [Promise!Next]_(Promise!vars)
    BY NextPromise
  <1> QED
    BY <1>1, <1>2, <1>3, InitPromise, PTL DEF Spec, ImplementsRoleList, Promise!Spec

=============================================================================
