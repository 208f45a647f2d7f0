--------------------------- MODULE StripeIngestProofs ---------------------------
(* What a request or an import may do to the events and to the mirror, for *)
(* any number of either, any Discord ids and any bounds.                   *)
EXTENDS StripeIngest, SequenceTheorems, FiniteSetTheorems, TLAPS

Rebuilding == {"customers", "subs", "write"}
Upserting  == {"resolve sub", "upsert sub", "spread sub",
               "resolve cust", "upsert cust", "spread cust"}

(* The statements of a request, and those of an import.                    *)
Requested == Applying \cup Rebuilding \cup {"result", "enqueue", "reopen"}
Imported  == Upserting \cup Rebuilding
             \cup {"list", "touch", "customer list", "sum", "reset", "set", "next"}

(* t may come after s in a plan: nothing is counted but first, reopening   *)
(* is a plan of its own, and nothing is rebuilt before the result.         *)
Follows(s, t) ==
    /\ t \notin {"count", "reopen"}
    /\ t \in Rebuilding \cup {"enqueue"} => s \in Rebuilding \cup {"result"}
Chain(s) == \A i \in 1..(Len(s) - 1) : Follows(s[i], s[i + 1])

(* What a request may have before it, and what an import.                  *)
RequestPlan(s) ==
    s \in Seq(Requested) /\ Chain(s) /\ (s # <<>> => s[Len(s)] \in {"enqueue", "reopen"})
ImportPlan(s) == s \in Seq(Imported) /\ Chain(s)

(* What is in the rows and in a process's hands.                          *)
DataInv ==
    /\ stripe \in Object
    /\ log \in Seq([kind : Kinds, data : Object])
    /\ sub \in [status : {"none", "active", "canceled"}, did : Owner]
    /\ cust \in [here : BOOLEAN, did : Owner, paid : Nat]
    /\ ~cust.here => cust.did = NoOne /\ cust.paid = 0
    /\ facts \in [Did -> Facts] /\ untold \subseteq Did
    /\ obj \in [Process -> Object] /\ view \in [Process -> Facts]
    /\ touched \in [Process -> SUBSET Did]

(* Events are places in Stripe's log.                                      *)
EventInv ==
    /\ open \cup seen \subseteq DOMAIN log
    /\ acked \cup applied \cup counted \cup twice \cup undone \cup dropped \subseteq DOMAIN log

(* What is left to do fits, and a rebuild has found its member: a          *)
(* rebuild comes after a result, and a result without one drops it.        *)
PlanInv ==
    /\ did \in [Process -> Owner] /\ plan \in [Process -> Seq(Statement)]
    /\ \A h \in Handler : RequestPlan(plan[h])
    /\ \A i \in Importer : ImportPlan(plan[i])
    /\ \A p \in Process : plan[p] # <<>> /\ Head(plan[p]) \in Rebuilding => did[p] \in Did

(* A request holds an event exactly while it has statements to go, that    *)
(* event is in webhook_deliveries, and no other request holds it.          *)
RequestInv ==
    /\ ev \in [Process -> 0..Len(log)]
    /\ \A p \in Importer : ev[p] = 0
    /\ \A h \in Handler : ev[h] = 0 <=> plan[h] = <<>>
    /\ \A h \in Handler : ev[h] # 0 => ev[h] \in seen
    /\ \A h, g \in Handler : ev[h] = ev[g] /\ ev[h] # 0 => h = g

(* Behind the result an event is applied; an event in webhook_deliveries   *)
(* is applied, or a request died with it, or one still holds it.           *)
AppliedInv ==
    /\ \A h \in Handler :
         plan[h] # <<>> /\ Head(plan[h]) \in Rebuilding \cup {"enqueue"} => ev[h] \in applied
    /\ \A e \in seen : e \in applied \cup dropped \/ \E h \in Handler : ev[h] = e
    /\ AckedIsApplied

(* A counted event that was not undone is either not to be delivered again *)
(* or held, and whoever holds an event it has yet to count, or reopens it, *)
(* has not counted it.                                                     *)
CountInv ==
    /\ \A e \in counted \ undone : e \notin open \/ \E h \in Handler : ev[h] = e
    /\ \A h \in Handler : At(h, "count") \/ At(h, "reopen") => ev[h] \notin counted \ undone
    /\ CountedOnce

Control == EventInv /\ PlanInv /\ RequestInv /\ AppliedInv /\ CountInv
IInv == DataInv /\ Control
-----------------------------------------------------------------------------
(* Plans.                                                                  *)

LEMMA StatementSets == Requested \subseteq Statement /\ Imported \subseteq Statement
BY DEF Requested, Imported, Statement, Upserting, Rebuilding, Applying

(* A plan that goes on with the next statement is still a plan.            *)
LEMMA TailOfChain ==
    ASSUME NEW S, NEW s \in Seq(S), s # <<>>, Chain(s)
    PROVE  /\ Head(s) \in S /\ Head(s) = s[1] /\ Tail(s) \in Seq(S) /\ Chain(Tail(s))
           /\ Tail(s) = <<>> <=> Len(s) = 1
           /\ Tail(s) # <<>> =>
                /\ Follows(Head(s), Head(Tail(s)))
                /\ Tail(s)[Len(Tail(s))] = s[Len(s)]
<1>1. /\ Head(s) \in S /\ Tail(s) \in Seq(S) /\ Len(Tail(s)) = Len(s) - 1
      /\ \A i \in 1..Len(Tail(s)) : Tail(s)[i] = s[i + 1]
  BY HeadTailProperties
<1>2. Head(s) = s[1]
  OBVIOUS
<1>3. Len(s) \in Nat \ {0}
  BY EmptySeq
<1>4. Chain(Tail(s))
  BY <1>1, <1>3 DEF Chain
<1>5. Tail(s) = <<>> <=> Len(s) = 1
  BY <1>1, <1>3
<1>6. ASSUME Tail(s) # <<>>
      PROVE  Follows(Head(s), Head(Tail(s))) /\ Tail(s)[Len(Tail(s))] = s[Len(s)]
  <2>1. Len(s) - 1 \in Nat \ {0}
    BY <1>1, <1>3, <1>5, <1>6
  <2>2. Head(Tail(s)) = Tail(s)[1] /\ Tail(s)[1] = s[2]
    BY <1>1, <1>6, <2>1
  <2>3. 1 \in 1..(Len(s) - 1) /\ 1 + 1 = 2
    BY <2>1
  <2>4. Follows(s[1], s[2])
    BY <2>3 DEF Chain
  <2> QED BY <1>1, <1>2, <2>1, <2>2, <2>4
<1> QED BY <1>1, <1>2, <1>4, <1>5, <1>6

LEMMA HeadIsFirst == ASSUME NEW S, NEW s \in Seq(S), s # <<>> PROVE Head(s) = s[1] /\ Head(s) \in S
BY HeadTailProperties

(* So are two plans one after the other, if the second may follow.         *)
LEMMA ConcatOfChains ==
    ASSUME NEW S, NEW s \in Seq(S), NEW t \in Seq(S), s # <<>>, t # <<>>, Chain(s), Chain(t),
           Follows(s[Len(s)], t[1])
    PROVE  /\ s \o t \in Seq(S) /\ s \o t # <<>> /\ Chain(s \o t)
           /\ (s \o t)[1] = s[1] /\ (s \o t)[Len(s \o t)] = t[Len(t)]
<1>1. /\ s \o t \in Seq(S) /\ Len(s \o t) = Len(s) + Len(t)
      /\ \A i \in 1..Len(s) + Len(t) :
           (s \o t)[i] = IF i <= Len(s) THEN s[i] ELSE t[i - Len(s)]
  BY ConcatProperties
<1>2. Len(s) \in Nat \ {0} /\ Len(t) \in Nat \ {0}
  BY EmptySeq
<1>3. ASSUME NEW i \in 1..(Len(s \o t) - 1) PROVE Follows((s \o t)[i], (s \o t)[i + 1])
  <2>1. CASE i < Len(s)
    BY <1>1, <1>2, <2>1 DEF Chain
  <2>2. CASE i = Len(s)
    BY <1>1, <1>2, <2>2
  <2>3. CASE i > Len(s)
    <3>1. i - Len(s) \in 1..(Len(t) - 1) /\ (i + 1) - Len(s) = (i - Len(s)) + 1
      BY <1>1, <1>2, <2>3
    <3>2. (s \o t)[i] = t[i - Len(s)] /\ (s \o t)[i + 1] = t[(i - Len(s)) + 1]
      BY <1>1, <1>2, <2>3, <3>1
    <3> QED BY <3>1, <3>2 DEF Chain
  <2> QED BY <1>2, <2>1, <2>2, <2>3
<1>4. (s \o t)[1] = s[1] /\ (s \o t)[Len(s \o t)] = t[Len(t)]
  BY <1>1, <1>2
<1>5. s \o t # <<>>
  BY <1>1, <1>2
<1> QED BY <1>1, <1>3, <1>4, <1>5 DEF Chain

(* The pieces that plans are made of.                                      *)
Piece(s, S, first, last) ==
    s \in Seq(S) /\ s # <<>> /\ Chain(s) /\ s[1] = first /\ s[Len(s)] = last

LEMMA JoinedPieces ==
    ASSUME NEW S, NEW s, NEW t, NEW a, NEW b, NEW c, NEW d,
           Piece(s, S, a, b), Piece(t, S, c, d), Follows(b, c)
    PROVE  Piece(s \o t, S, a, d)
BY ConcatOfChains DEF Piece

LEMMA SmallPieces ==
    ASSUME NEW S, NEW x \in S, NEW y \in S, NEW z \in S
    PROVE  /\ Piece(<<x>>, S, x, x)
           /\ Follows(x, y) => Piece(<<x, y>>, S, x, y)
           /\ Follows(x, y) /\ Follows(y, z) => Piece(<<x, y, z>>, S, x, z)
<1>1. Piece(<<x>>, S, x, x)
  BY DEF Piece, Chain
<1>2. Follows(x, y) => Piece(<<x, y>>, S, x, y)
  BY DEF Piece, Chain
<1>3. ASSUME Follows(x, y), Follows(y, z) PROVE Piece(<<x, y, z>>, S, x, z)
  <2> DEFINE s == <<x, y, z>>
  <2>1. s \in Seq(S) /\ s # <<>> /\ Len(s) = 3 /\ s[1] = x /\ s[2] = y /\ s[3] = z
    OBVIOUS
  <2> HIDE DEF s
  <2>2. ASSUME NEW i \in 1..(Len(s) - 1) PROVE Follows(s[i], s[i + 1])
    <3>1. i = 1 \/ i = 2
      BY <2>1
    <3>2. CASE i = 1
      BY <1>3, <2>1, <3>2
    <3>3. CASE i = 2
      BY <1>3, <2>1, <3>3
    <3> QED BY <3>1, <3>2, <3>3
  <2>3. Piece(s, S, x, z)
    BY <2>1, <2>2 DEF Piece, Chain
  <2> QED BY <2>3 DEF s
<1> QED BY <1>1, <1>2, <1>3

LEMMA Pieces ==
    ASSUME NEW S, Upserting \cup Rebuilding \subseteq S
    PROVE  /\ Piece(UpsertSub, S, "resolve sub", "spread sub")
           /\ Piece(UpsertCust, S, "resolve cust", "spread cust")
           /\ Piece(Rebuild, S, "customers", "write")
<1>0. Upserting \subseteq S /\ Rebuilding \subseteq S
  OBVIOUS
<1>1. /\ Follows("resolve sub", "upsert sub") /\ Follows("upsert sub", "spread sub")
      /\ Follows("resolve cust", "upsert cust") /\ Follows("upsert cust", "spread cust")
      /\ Follows("customers", "subs") /\ Follows("subs", "write")
  BY DEF Follows, Rebuilding
<1>2. Piece(UpsertSub, S, "resolve sub", "spread sub")
  BY <1>0, <1>1, SmallPieces DEF UpsertSub, Upserting
<1>3. Piece(UpsertCust, S, "resolve cust", "spread cust")
  BY <1>0, <1>1, SmallPieces DEF UpsertCust, Upserting
<1>4. Piece(Rebuild, S, "customers", "write")
  BY <1>0, <1>1, SmallPieces DEF Rebuild, Rebuilding
<1> QED BY <1>2, <1>3, <1>4

(* What a request may be asked to do.                                      *)
LEMMA RequestPlans ==
    ASSUME NEW kind \in Kinds
    PROVE  /\ RequestPlan(Plan(kind)) /\ Plan(kind) # <<>>
           /\ Head(Plan(kind)) \notin Rebuilding \cup {"enqueue", "reopen"}
<1> DEFINE R == Requested
<1>0. Upserting \cup Rebuilding \subseteq R /\ Applying \subseteq R /\ {"result", "enqueue"} \subseteq R
  BY DEF Requested, Applying, Upserting
<1>1. /\ Follows("spread sub", "result") /\ Follows("spread cust", "result")
      /\ Follows("erase", "result") /\ Follows("owner", "result")
      /\ Follows("fetch", "resolve cust") /\ Follows("spread cust", "resolve sub")
      /\ Follows("owner", "erase") /\ Follows("count", "owner")
      /\ Follows("result", "customers") /\ Follows("write", "enqueue")
  BY DEF Follows, Rebuilding
<1>2. /\ Piece(<<"fetch">>, R, "fetch", "fetch") /\ Piece(<<"owner", "erase">>, R, "owner", "erase")
      /\ Piece(<<"count", "owner">>, R, "count", "owner")
      /\ Piece(<<"result">>, R, "result", "result") /\ Piece(<<"enqueue">>, R, "enqueue", "enqueue")
  BY <1>0, <1>1, SmallPieces DEF Applying
<1>3. /\ Piece(UpsertSub, R, "resolve sub", "spread sub")
      /\ Piece(UpsertCust, R, "resolve cust", "spread cust")
      /\ Piece(Rebuild, R, "customers", "write")
  BY <1>0, Pieces
<1> DEFINE Applies(a, b) == Piece(Apply(kind), R, a, b)
<1>4. \/ Applies("resolve sub", "spread sub") \/ Applies("fetch", "spread sub")
      \/ Applies("resolve cust", "spread cust") \/ Applies("owner", "erase")
      \/ Applies("count", "owner")
  <2>1. CASE kind = "sub"
    BY <1>3, <2>1 DEF Apply
  <2>2. CASE kind \in {"checkout", "invoice"}
    <3>1. Piece(<<"fetch">> \o UpsertCust, R, "fetch", "spread cust")
      BY <1>1, <1>2, <1>3, JoinedPieces
    <3>2. Piece(<<"fetch">> \o UpsertCust \o UpsertSub, R, "fetch", "spread sub")
      BY <1>1, <1>3, <3>1, JoinedPieces
    <3>3. Apply(kind) = <<"fetch">> \o UpsertCust \o UpsertSub
      BY <2>2 DEF Apply
    <3> QED BY <3>2, <3>3
  <2>3. CASE kind = "customer"
    BY <1>3, <2>3 DEF Apply
  <2>4. CASE kind = "deleted"
    BY <1>2, <2>4 DEF Apply
  <2>5. CASE kind = "charge"
    BY <1>2, <2>5 DEF Apply
  <2> QED BY <2>1, <2>2, <2>3, <2>4, <2>5 DEF Kinds
<1>5. \E a \in {"resolve sub", "fetch", "resolve cust", "owner", "count"} :
         Piece(Apply(kind) \o <<"result">>, R, a, "result")
  <2>1. ASSUME NEW a, NEW b, Applies(a, b), Follows(b, "result")
        PROVE  Piece(Apply(kind) \o <<"result">>, R, a, "result")
    BY <1>2, <2>1, JoinedPieces
  <2> HIDE DEF Applies
  <2> QED BY <1>1, <1>4, <2>1
<1>6. PICK a \in {"resolve sub", "fetch", "resolve cust", "owner", "count"} :
         Piece(Apply(kind) \o <<"result">>, R, a, "result")
  BY <1>5
<1>7. Piece(Apply(kind) \o <<"result">> \o Rebuild, R, a, "write")
  BY <1>1, <1>3, <1>6, JoinedPieces
<1>8. Piece(Plan(kind), R, a, "enqueue")
  BY <1>1, <1>2, <1>7, JoinedPieces DEF Plan
<1>9. Head(Plan(kind)) = Plan(kind)[1]
  BY <1>8, HeadIsFirst DEF Piece
<1> QED BY <1>8, <1>9 DEF Piece, RequestPlan, Rebuilding

(* What an import may go on with, besides rebuilding a member.             *)
Listing == {<<"list">>, <<"customer list">>, <<"sum">>, <<"next">>, <<"reset", "next">>,
            <<"reset", "set", "next">>, UpsertCust \o <<"touch", "sum">>,
            UpsertCust \o UpsertSub \o <<"touch", "customer list">>}

LEMMA ImportPlans ==
    /\ \A s \in Listing : ImportPlan(s) /\ s # <<>> /\ Head(s) \notin Rebuilding
    /\ ImportPlan(Rebuild \o <<"next">>)
<1> DEFINE I == Imported
<1>0. /\ Upserting \cup Rebuilding \subseteq I
      /\ {"list", "customer list", "touch", "sum", "reset", "set", "next"} \subseteq I
  BY DEF Imported
<1>1. /\ Follows("spread cust", "resolve sub") /\ Follows("spread sub", "touch")
      /\ Follows("spread cust", "touch") /\ Follows("touch", "customer list")
      /\ Follows("touch", "sum") /\ Follows("reset", "next") /\ Follows("reset", "set")
      /\ Follows("set", "next") /\ Follows("write", "next")
  BY DEF Follows, Rebuilding
<1>2. /\ Piece(UpsertSub, I, "resolve sub", "spread sub")
      /\ Piece(UpsertCust, I, "resolve cust", "spread cust")
      /\ Piece(Rebuild, I, "customers", "write")
  BY <1>0, Pieces
<1>3. /\ Piece(<<"list">>, I, "list", "list") /\ Piece(<<"sum">>, I, "sum", "sum")
      /\ Piece(<<"customer list">>, I, "customer list", "customer list")
      /\ Piece(<<"next">>, I, "next", "next") /\ Piece(<<"reset", "next">>, I, "reset", "next")
      /\ Piece(<<"touch", "customer list">>, I, "touch", "customer list")
      /\ Piece(<<"touch", "sum">>, I, "touch", "sum")
  BY <1>0, <1>1, SmallPieces
<1>4. Piece(<<"reset", "set", "next">>, I, "reset", "next")
  BY <1>0, <1>1, SmallPieces
<1>5. Piece(UpsertCust \o UpsertSub, I, "resolve cust", "spread sub")
  BY <1>1, <1>2, JoinedPieces
<1>6. /\ Piece(UpsertCust \o UpsertSub \o <<"touch", "customer list">>, I, "resolve cust", "customer list")
      /\ Piece(UpsertCust \o <<"touch", "sum">>, I, "resolve cust", "sum")
      /\ Piece(Rebuild \o <<"next">>, I, "customers", "next")
  BY <1>1, <1>2, <1>3, <1>5, JoinedPieces
<1>7. ASSUME NEW s, NEW a, NEW b, Piece(s, I, a, b)
      PROVE  ImportPlan(s) /\ s # <<>> /\ Head(s) = a
  BY <1>7 DEF Piece, ImportPlan
<1>8. ASSUME NEW s \in Listing PROVE ImportPlan(s) /\ s # <<>> /\ Head(s) \notin Rebuilding
  <2>1. \E a, b : /\ a \in {"list", "customer list", "sum", "next", "reset", "resolve cust"}
                 /\ Piece(s, I, a, b)
    BY <1>3, <1>4, <1>6 DEF Listing
  <2> QED BY <1>7, <2>1 DEF Rebuilding
<1> QED BY <1>6, <1>7, <1>8

-----------------------------------------------------------------------------
(* Steps of the control: what a statement does to its plan, to the events  *)
(* and to what is known of them.                                           *)

Known  == <<acked, applied, counted, twice, undone, dropped>>
Events == <<log, open, seen>>

(* A process goes on with its next statement.  Its member may change, but  *)
(* not from the result on.                                                 *)
Steady(p) ==
    /\ did' \in [Process -> Owner]
    /\ \A q \in Process : q # p \/ Head(plan[p]) \in Rebuilding \cup {"result"} => did'[q] = did[q]

LEMMA PopPlans ==
    ASSUME Control, NEW p \in Process, plan[p] # <<>>, Next1(p), Steady(p),
           Head(plan[p]) \notin {"enqueue", "reopen"},
           Head(plan[p]) = "result" => did[p] \in Did,
           UNCHANGED <<log, seen, ev>>
    PROVE  /\ PlanInv' /\ RequestInv'
           /\ plan' = [plan EXCEPT ![p] = Tail(plan[p])]
           /\ plan'[p] # <<>> => Follows(Head(plan[p]), Head(plan'[p]))
<1> DEFINE s == plan[p]
<1> USE DEF Control
<1>1. s \in Seq(Statement) /\ Chain(s)
  BY DEF PlanInv, RequestPlan, ImportPlan, Process
<1>2. plan' = [plan EXCEPT ![p] = Tail(s)] /\ plan \in [Process -> Seq(Statement)]
  BY DEF Next1, PlanInv
<1>3. plan'[p] = Tail(s) /\ \A q \in Process : q # p => plan'[q] = plan[q]
  BY <1>2
<1>4. /\ Tail(s) \in Seq(Statement) /\ Chain(Tail(s))
      /\ Tail(s) # <<>> => Follows(Head(s), Head(Tail(s)))
  BY <1>1, TailOfChain
<1>5. ASSUME NEW h \in Handler PROVE RequestPlan(plan'[h]) /\ (plan'[h] = <<>> <=> plan[h] = <<>>)
  <2>1. CASE h = p
    <3>1. s \in Seq(Requested) /\ Chain(s) /\ s[Len(s)] \in {"enqueue", "reopen"}
      BY <2>1 DEF PlanInv, RequestPlan
    <3>2. /\ Tail(s) \in Seq(Requested) /\ Chain(Tail(s)) /\ Head(s) = s[1]
          /\ Tail(s) = <<>> <=> Len(s) = 1
          /\ Tail(s) # <<>> => Tail(s)[Len(Tail(s))] = s[Len(s)]
      BY <3>1, TailOfChain
    <3>3. Tail(s) # <<>>
      BY <3>1, <3>2
    <3> QED BY <1>3, <2>1, <3>1, <3>2, <3>3 DEF RequestPlan
  <2>2. CASE h # p
    BY <1>3, <2>2 DEF PlanInv, Process
  <2> QED BY <2>1, <2>2
<1>6. ASSUME NEW i \in Importer PROVE ImportPlan(plan'[i])
  <2>1. CASE i = p
    <3>1. s \in Seq(Imported)
      BY <2>1 DEF PlanInv, ImportPlan
    <3>2. Tail(s) \in Seq(Imported)
      BY <1>1, <3>1, TailOfChain
    <3> QED BY <1>3, <1>4, <2>1, <3>2 DEF ImportPlan
  <2>2. CASE i # p
    BY <1>3, <2>2 DEF PlanInv, Process
  <2> QED BY <2>1, <2>2
<1>7. ASSUME NEW q \in Process, plan'[q] # <<>>, Head(plan'[q]) \in Rebuilding PROVE did'[q] \in Did
  <2>1. CASE q = p
    <3>1. Head(s) \in Rebuilding \cup {"result"}
      BY <1>3, <1>4, <1>7, <2>1 DEF Follows
    <3>2. did[p] \in Did
      BY <3>1 DEF PlanInv
    <3> QED BY <2>1, <3>1, <3>2 DEF Steady
  <2>2. CASE q # p
    BY <1>3, <1>7, <2>2 DEF PlanInv, Steady
  <2> QED BY <2>1, <2>2
<1>8. plan' \in [Process -> Seq(Statement)]
  BY <1>2, <1>4
<1>9. PlanInv'
  BY <1>5, <1>6, <1>7, <1>8 DEF PlanInv, Steady
<1>10. RequestInv'
  BY <1>5 DEF RequestInv
<1> QED BY <1>2, <1>3, <1>4, <1>9, <1>10

(* Only the head of a process's plan has changed.                          *)
LEMMA PopStep ==
    ASSUME Control, NEW p \in Process, plan[p] # <<>>, Next1(p), Steady(p),
           Head(plan[p]) \notin {"result", "count", "enqueue", "reopen"},
           UNCHANGED <<Events, ev, Known>>
    PROVE  Control'
<1> USE DEF Control, Events, Known
<1>1. /\ PlanInv' /\ RequestInv' /\ plan' = [plan EXCEPT ![p] = Tail(plan[p])]
      /\ plan'[p] # <<>> => Follows(Head(plan[p]), Head(plan'[p]))
  BY PopPlans
<1>2. \A q \in Process : q # p => plan'[q] = plan[q]
  BY <1>1 DEF PlanInv
<1>3. EventInv'
  BY DEF EventInv
<1>4. AppliedInv'
  <2>1. ASSUME NEW h \in Handler, plan'[h] # <<>>, Head(plan'[h]) \in Rebuilding \cup {"enqueue"}
        PROVE  ev[h] \in applied
    <3>1. CASE h = p
      <4>1. Head(plan[p]) \in Rebuilding
        BY <1>1, <2>1, <3>1 DEF Follows
      <4> QED BY <3>1, <4>1 DEF AppliedInv
    <3>2. CASE h # p
      BY <1>2, <2>1, <3>2 DEF AppliedInv, Process
    <3> QED BY <3>1, <3>2
  <2> QED BY <2>1 DEF AppliedInv, AckedIsApplied
<1>5. CountInv'
  <2>1. ASSUME NEW h \in Handler, At(h, "count")' \/ At(h, "reopen")'
        PROVE  ev[h] \notin counted \ undone
    <3>1. CASE h = p
      BY <1>1, <2>1, <3>1 DEF Follows, At
    <3>2. CASE h # p
      BY <1>2, <2>1, <3>2 DEF CountInv, Process, At
    <3> QED BY <3>1, <3>2
  <2> QED BY <2>1 DEF CountInv, CountedOnce
<1> QED BY <1>1, <1>3, <1>4, <1>5

(* An import goes on with other statements.                                *)
LEMMA GotoStep ==
    ASSUME Control, NEW p \in Importer, NEW s, Goto(p, s), ImportPlan(s),
           did' \in [Process -> Owner], \A q \in Process : q # p => did'[q] = did[q],
           s # <<>> /\ Head(s) \in Rebuilding => did'[p] \in Did,
           UNCHANGED <<Events, ev, Known>>
    PROVE  Control'
<1> USE DEF Control, Events, Known
<1>0. p \in Process /\ \A h \in Handler : h # p /\ h \in Process
  BY StripeIngestAssumption DEF Process
<1>1. plan' = [plan EXCEPT ![p] = s] /\ s \in Seq(Statement)
  <2>1. s \in Seq(Statement)
    BY StatementSets, SeqMonotonic DEF ImportPlan
  <2> QED BY <2>1 DEF Goto
<1>2. plan'[p] = s /\ \A q \in Process : q # p => plan'[q] = plan[q]
  BY <1>0, <1>1 DEF PlanInv
<1>3. PlanInv'
  <2>1. plan' \in [Process -> Seq(Statement)]
    BY <1>1 DEF PlanInv
  <2>2. \A i \in Importer : ImportPlan(plan'[i])
    BY <1>2 DEF PlanInv, Process
  <2> QED BY <1>0, <1>2, <2>1, <2>2 DEF PlanInv
<1>4. RequestInv'
  BY <1>0, <1>2 DEF RequestInv
<1>5. EventInv' /\ AppliedInv' /\ CountInv'
  BY <1>0, <1>2 DEF EventInv, AppliedInv, AckedIsApplied, CountInv, CountedOnce, At
<1> QED BY <1>3, <1>4, <1>5

(* A process that is done, or dead, forgets its event.  Whatever it leaves *)
(* behind must be accounted for: the event is unseen again or applied or   *)
(* known to be dropped, and its charge is not to be counted again unless   *)
(* that is known too.                                                      *)
LEMMA ForgetStep ==
    ASSUME Control, NEW p \in Process, Forget(p), UNCHANGED <<log, counted, twice>>,
           open \ {ev[p]} \subseteq open', open' \subseteq open,
           seen \ {ev[p]} \subseteq seen', seen' \subseteq seen,
           applied \subseteq applied', undone \subseteq undone', dropped \subseteq dropped',
           acked' \cup applied' \cup undone' \cup dropped' \subseteq DOMAIN log,
           acked' \subseteq acked \cup ({ev[p]} \cap (applied' \cup dropped')),
           p \in Handler /\ ev[p] \in seen' => ev[p] \in applied' \cup dropped',
           p \in Handler /\ ev[p] \in open' => ev[p] \notin counted \ undone'
    PROVE  Control'
<1> USE DEF Control
<1>1. /\ plan'[p] = <<>> /\ \A q \in Process : q # p => plan'[q] = plan[q]
      /\ ev'[p] = 0 /\ \A q \in Process : q # p => ev'[q] = ev[q]
  BY DEF Forget, PlanInv, RequestInv
<1>2. EventInv'
  BY DEF EventInv
<1>3. PlanInv'
  <2>1. RequestPlan(<<>>) /\ ImportPlan(<<>>)
    BY DEF RequestPlan, ImportPlan, Chain
  <2>2. plan' \in [Process -> Seq(Statement)]
    BY DEF Forget, PlanInv
  <2>3. did' \in [Process -> Owner] /\ \A q \in Process : q # p => did'[q] = did[q]
    BY DEF Forget, PlanInv, Owner
  <2>4. (\A h \in Handler : RequestPlan(plan'[h])) /\ (\A i \in Importer : ImportPlan(plan'[i]))
    BY <1>1, <2>1 DEF PlanInv, Process
  <2> QED BY <1>1, <2>2, <2>3, <2>4 DEF PlanInv
<1>4. RequestInv'
  <2>1. ev' \in [Process -> 0..Len(log)]
    <3>1. Len(log) \in Nat
      BY DEF RequestInv, EventInv, Forget
    <3> QED BY <3>1 DEF Forget, RequestInv
  <2>2. \A i \in Importer : ev'[i] = 0
    BY <1>1 DEF RequestInv, Process
  <2>3. \A h \in Handler : ev'[h] = 0 <=> plan'[h] = <<>>
    BY <1>1 DEF RequestInv, Process
  <2>4. ASSUME NEW h \in Handler, ev'[h] # 0 PROVE ev'[h] \in seen'
    <3>1. h # p /\ ev'[h] = ev[h] /\ ev[h] \in seen
      BY <1>1, <2>4 DEF RequestInv, Process
    <3>2. ev[h] # ev[p]
      BY <2>4, <3>1 DEF RequestInv, Process
    <3> QED BY <3>1, <3>2
  <2>5. \A h, g \in Handler : ev'[h] = ev'[g] /\ ev'[h] # 0 => h = g
    BY <1>1 DEF RequestInv, Process
  <2> QED BY <2>1, <2>2, <2>3, <2>4, <2>5 DEF RequestInv
<1>5. AppliedInv'
  <2>1. ASSUME NEW h \in Handler, plan'[h] # <<>>, Head(plan'[h]) \in Rebuilding \cup {"enqueue"}
        PROVE  ev'[h] \in applied'
    BY <1>1, <2>1 DEF AppliedInv, Process
  <2>2. ASSUME NEW e \in seen', e \notin applied' \cup dropped' PROVE \E h \in Handler : ev'[h] = e
    <3> PICK h \in Handler : ev[h] = e
      BY <2>2 DEF AppliedInv
    <3>1. h # p
      BY <2>2
    <3> QED BY <1>1, <3>1 DEF Process
  <2>3. AckedIsApplied'
    BY DEF AppliedInv, AckedIsApplied
  <2> QED BY <2>1, <2>2, <2>3 DEF AppliedInv
<1>6. CountInv'
  <2>1. ASSUME NEW e \in counted \ undone', e \in open' PROVE \E h \in Handler : ev'[h] = e
    <3> PICK h \in Handler : ev[h] = e
      BY <2>1 DEF CountInv
    <3>1. h # p
      BY <2>1
    <3> QED BY <1>1, <3>1 DEF Process
  <2>2. ASSUME NEW h \in Handler, At(h, "count")' \/ At(h, "reopen")'
        PROVE  ev'[h] \notin counted \ undone'
    BY <1>1, <2>2 DEF CountInv, Process, At
  <2>3. CountedOnce'
    BY DEF CountInv, CountedOnce
  <2> QED BY <2>1, <2>2, <2>3 DEF CountInv
<1> QED BY <1>2, <1>3, <1>4, <1>5, <1>6

(* An event is taken up.                                                   *)
LEMMA AcceptStep ==
    ASSUME IInv, NEW h \in Handler, NEW e \in 1..Len(log), Accept(h, e)
    PROVE  Control'
<1> USE DEF IInv, Control
<1>0. h \in Process /\ UNCHANGED <<log, open, did, acked, applied, counted, twice, undone, dropped>>
  BY DEF Accept, Process, stripeVars, historyVars
<1>1. e \in open /\ e \notin seen
  BY DEF Accept, Again
<1>2. log[e].kind \in Kinds /\ e # 0 /\ Len(log) \in Nat
  <2>1. log \in Seq([kind : Kinds, data : Object])
    BY DEF DataInv
  <2>2. log[e] \in [kind : Kinds, data : Object] /\ Len(log) \in Nat
    BY <2>1, ElementOfSeq, LenProperties
  <2> QED BY <2>2
<1> DEFINE s == Plan(log[e].kind)
<1>3. /\ RequestPlan(s) /\ s # <<>>
      /\ Head(s) \notin Rebuilding \cup {"enqueue", "reopen"}
  BY <1>2, RequestPlans
<1> HIDE DEF s
<1>4. /\ plan' = [plan EXCEPT ![h] = s] /\ plan'[h] = s
      /\ \A q \in Process : q # h => plan'[q] = plan[q]
  BY <1>0 DEF Accept, PlanInv, s
<1>5. /\ ev' = [ev EXCEPT ![h] = e] /\ ev'[h] = e /\ ev[h] = 0
      /\ \A q \in Process : q # h => ev'[q] = ev[q]
  BY <1>0 DEF Accept, RequestInv, Idle
<1>6. seen' = seen \cup {e}
  BY DEF Accept
<1>7. \A g \in Handler : ev[g] # e
  BY <1>1, <1>2 DEF RequestInv
<1>8. EventInv'
  BY <1>0, <1>1, <1>6 DEF EventInv
<1>9. PlanInv'
  <2>1. s \in Seq(Statement)
    BY <1>3, StatementSets, SeqMonotonic DEF RequestPlan
  <2>2. plan' \in [Process -> Seq(Statement)]
    BY <1>4, <2>1 DEF PlanInv
  <2>3. \A i \in Importer : i # h /\ i \in Process
    BY StripeIngestAssumption DEF Process
  <2> QED BY <1>0, <1>3, <1>4, <2>2, <2>3 DEF PlanInv, Process
<1>10. RequestInv'
  <2>1. \A i \in Importer : i # h /\ i \in Process
    BY StripeIngestAssumption DEF Process
  <2>2. ev' \in [Process -> 0..Len(log)]
    BY <1>2, <1>5 DEF RequestInv
  <2>3. \A g \in Handler : ev'[g] = 0 <=> plan'[g] = <<>>
    BY <1>2, <1>3, <1>4, <1>5 DEF RequestInv, Process
  <2>4. \A g \in Handler : ev'[g] # 0 => ev'[g] \in seen'
    BY <1>5, <1>6 DEF RequestInv, Process
  <2>5. \A f, g \in Handler : ev'[f] = ev'[g] /\ ev'[f] # 0 => f = g
    BY <1>5, <1>7 DEF RequestInv, Process
  <2> QED BY <1>0, <1>5, <2>1, <2>2, <2>3, <2>4, <2>5 DEF RequestInv
<1>11. AppliedInv'
  <2>1. ASSUME NEW g \in Handler, plan'[g] # <<>>, Head(plan'[g]) \in Rebuilding \cup {"enqueue"}
        PROVE  ev'[g] \in applied
    <3>1. g # h
      BY <1>3, <1>4, <2>1
    <3> QED BY <1>4, <1>5, <2>1, <3>1 DEF AppliedInv, Process
  <2>2. ASSUME NEW d \in seen', d \notin applied \cup dropped PROVE \E g \in Handler : ev'[g] = d
    <3>1. CASE d = e
      BY <1>5, <3>1
    <3>2. CASE d # e
      <4> PICK g \in Handler : ev[g] = d
        BY <1>6, <2>2, <3>2 DEF AppliedInv
      <4>1. g # h
        BY <1>5, <1>8, <2>2 DEF EventInv
      <4> QED BY <1>5, <4>1 DEF Process
    <3> QED BY <3>1, <3>2
  <2> QED BY <1>0, <2>1, <2>2 DEF AppliedInv, AckedIsApplied
<1>12. CountInv'
  <2>1. ASSUME NEW d \in counted \ undone, d \in open PROVE \E g \in Handler : ev'[g] = d
    <3> PICK g \in Handler : ev[g] = d
      BY <2>1 DEF CountInv
    <3>1. g # h
      BY <1>5, <2>1 DEF EventInv
    <3> QED BY <1>5, <3>1 DEF Process
  <2>2. ASSUME NEW g \in Handler, At(g, "count")' \/ At(g, "reopen")'
        PROVE  ev'[g] \notin counted \ undone
    <3>1. CASE g = h
      BY <1>1, <1>5, <1>7, <3>1 DEF CountInv
    <3>2. CASE g # h
      BY <1>4, <1>5, <2>2, <3>2 DEF CountInv, Process, At
    <3> QED BY <3>1, <3>2
  <2> QED BY <1>0, <2>1, <2>2 DEF CountInv, CountedOnce
<1> QED BY <1>8, <1>9, <1>10, <1>11, <1>12

(* Stripe makes events, or gives one up.                                   *)
LEMMA OutsideStep ==
    ASSUME Control, UNCHANGED <<seen, plan, did, ev, Known>>, Len(log) <= Len(log'),
           Len(log) \in Nat, Len(log') \in Nat, DOMAIN log = 1..Len(log), DOMAIN log' = 1..Len(log'),
           open' \subseteq open \cup (DOMAIN log' \ DOMAIN log)
    PROVE  Control'
<1> USE DEF Control, Known
<1>0. DOMAIN log \subseteq DOMAIN log' /\ 0..Len(log) \subseteq 0..Len(log')
  OBVIOUS
<1>1. EventInv'
  BY <1>0 DEF EventInv
<1>2. PlanInv'
  BY DEF PlanInv
<1>3. RequestInv'
  <2>1. ev' \in [Process -> 0..Len(log')]
    BY <1>0 DEF RequestInv
  <2> QED BY <2>1 DEF RequestInv
<1>4. AppliedInv'
  BY DEF AppliedInv, AckedIsApplied
<1>5. CountInv'
  <2>1. \A e \in counted : e \in open' => e \in open
    BY DEF EventInv
  <2> QED BY <2>1 DEF CountInv, CountedOnce, At
<1> QED BY <1>1, <1>2, <1>3, <1>4, <1>5

LEMMA EmitStep ==
    ASSUME IInv, Outside
    PROVE  Control' /\ log' \in Seq([kind : Kinds, data : Object]) /\ stripe' \in Object
<1> DEFINE Log == Seq([kind : Kinds, data : Object])
<1> USE DEF IInv
<1>0. stripe \in Object /\ log \in Log /\ Len(log) \in Nat /\ DOMAIN log = 1..Len(log)
  BY LenProperties DEF DataInv
<1>1. ASSUME NEW k \in Kinds, Emit(k), stripe' \in Object, Unseen PROVE Control' /\ log' \in Log
  <2>1. log' = Append(log, [kind |-> k, data |-> stripe'])
    BY <1>1 DEF Emit
  <2>2. [kind |-> k, data |-> stripe'] \in [kind : Kinds, data : Object]
    BY <1>1
  <2>3. log' \in Log /\ Len(log') = Len(log) + 1
    BY <1>0, <2>1, <2>2, AppendProperties
  <2>4. DOMAIN log' = 1..Len(log') /\ open' \subseteq open \cup (DOMAIN log' \ DOMAIN log)
    BY <1>0, <1>1, <2>3, LenProperties DEF Emit
  <2> QED BY <1>0, <1>1, <2>3, <2>4, OutsideStep DEF Unseen, localVars, historyVars, Known
<1>2. CASE Subscribe
  <2>1. stripe' \in Object
    BY <1>0, <1>2 DEF Subscribe, Object
  <2> QED BY <1>1, <1>2, <2>1 DEF Subscribe, Kinds
<1>3. CASE Cancel
  <2>1. stripe' \in Object
    BY <1>0, <1>3 DEF Cancel, Object
  <2> QED BY <1>1, <1>3, <2>1 DEF Cancel, Kinds
<1>4. CASE Pay
  <2>1. stripe' \in Object
    <3>1. stripe.charges + 1 \in Nat
      BY <1>0 DEF Object
    <3> QED BY <1>0, <1>4, <3>1 DEF Pay, Object
  <2> QED BY <1>1, <1>4, <2>1 DEF Pay, Kinds
<1>5. CASE Relink
  <2>1. stripe' \in Object
    BY <1>0, <1>5 DEF Relink, Object, Owner
  <2> QED BY <1>1, <1>5, <2>1 DEF Relink, Kinds
<1>6. CASE DeleteCustomer
  <2>1. stripe' \in Object
    BY <1>0, <1>6 DEF DeleteCustomer, Object, Owner
  <2> QED BY <1>1, <1>6, <2>1 DEF DeleteCustomer, Kinds
<1>7. CASE DeleteSubscriber
  <2>1. stripe' \in Object
    BY <1>0, <1>7 DEF DeleteSubscriber, Object, Owner
  <2> DEFINE two == <<[kind |-> "sub", data |-> stripe'], [kind |-> "deleted", data |-> stripe']>>
  <2>2. two \in Log /\ Len(two) = 2
    BY <2>1 DEF Kinds
  <2>3. log' = log \o two
    BY <1>7 DEF DeleteSubscriber
  <2> HIDE DEF two
  <2>4. log' \in Log /\ Len(log') = Len(log) + 2
    <3>1. \A S : log \in Seq(S) /\ two \in Seq(S) =>
                  log \o two \in Seq(S) /\ Len(log \o two) = Len(log) + Len(two)
      BY ConcatProperties
    <3> QED BY <1>0, <2>2, <2>3, <3>1
  <2>5. DOMAIN log' = 1..Len(log') /\ open' \subseteq open \cup (DOMAIN log' \ DOMAIN log)
    BY <1>0, <1>7, <2>4, LenProperties DEF DeleteSubscriber
  <2>6. Len(log) <= Len(log') /\ Len(log') \in Nat
    BY <1>0, <2>4
  <2> QED BY <1>0, <1>7, <2>1, <2>4, <2>5, <2>6, OutsideStep
          DEF DeleteSubscriber, Unseen, localVars, historyVars, Known
<1>8. ASSUME NEW e \in open, Lose(e) PROVE Control' /\ log' \in Log /\ stripe' \in Object
  <2>1. UNCHANGED <<stripe, log>> /\ open' \subseteq open
    BY <1>8 DEF Lose
  <2> QED BY <1>0, <1>8, <2>1, OutsideStep DEF Lose, Unseen, localVars, historyVars, Known
<1> QED BY <1>2, <1>3, <1>4, <1>5, <1>6, <1>7, <1>8 DEF Outside

(* Answers to duplicates, and the garbage collection.                      *)
LEMMA DuplicateStep == ASSUME IInv, NEW e \in 1..Len(log), Duplicate(e) PROVE Control'
<1> USE DEF IInv, Control
<1>1. /\ UNCHANGED <<log, seen, plan, did, ev, applied, counted, twice, undone>>
      /\ open' = open \ {e} /\ acked' = acked \cup {e} /\ e \in seen
      /\ dropped' = IF Handling(e) # {} THEN dropped \cup {e} ELSE dropped
  BY DEF Duplicate, Ack, localVars
<1>2. e \in DOMAIN log
  BY <1>1 DEF EventInv
<1>3. e \in applied \cup dropped'
  BY <1>1 DEF AppliedInv, Handling
<1>4. EventInv'
  BY <1>1, <1>2 DEF EventInv
<1>5. PlanInv' /\ RequestInv'
  BY <1>1 DEF PlanInv, RequestInv
<1>6. AppliedInv'
  BY <1>1, <1>3 DEF AppliedInv, AckedIsApplied
<1>7. CountInv'
  BY <1>1 DEF CountInv, CountedOnce, At
<1> QED BY <1>4, <1>5, <1>6, <1>7

LEMMA CollectStep == ASSUME IInv, NEW e \in seen, Collect(e) PROVE Control'
<1> USE DEF IInv, Control
<1>1. /\ UNCHANGED <<log, open, plan, did, ev, acked, applied, counted, twice, undone, dropped>>
      /\ seen' = seen \ {e} /\ \A h \in Handler : ev[h] # e
  BY DEF Collect, localVars, historyVars, stripeVars, Handling
<1>2. EventInv' /\ PlanInv'
  BY <1>1 DEF EventInv, PlanInv
<1>3. RequestInv'
  BY <1>1 DEF RequestInv
<1>4. AppliedInv' /\ CountInv'
  BY <1>1 DEF AppliedInv, AckedIsApplied, CountInv, CountedOnce, At
<1> QED BY <1>2, <1>3, <1>4

-----------------------------------------------------------------------------
(* Statements.                                                             *)

LEMMA WhoIsAt ==
    ASSUME Control, NEW p \in Process, NEW s, At(p, s)
    PROVE  /\ plan[p] # <<>> /\ Head(plan[p]) = s
           /\ s \notin Imported => p \in Handler
           /\ s \notin Requested => p \in Importer
           /\ p \in Handler => ev[p] # 0 /\ ev[p] \in seen /\ ev[p] \in DOMAIN log
<1>1. plan[p] # <<>> /\ Head(plan[p]) = s
  BY DEF At
<1>2. p \in Importer => s \in Imported
  BY <1>1, HeadIsFirst DEF Control, PlanInv, ImportPlan
<1>3. p \in Handler => s \in Requested
  BY <1>1, HeadIsFirst DEF Control, PlanInv, RequestPlan
<1>4. p \in Handler => ev[p] # 0 /\ ev[p] \in seen /\ ev[p] \in DOMAIN log
  BY <1>1 DEF Control, RequestInv, EventInv
<1> QED BY <1>1, <1>2, <1>3, <1>4 DEF Process

Popping(p) ==
    \/ Fetch(p) \/ ResolveCust(p) \/ UpsertCustRow(p) \/ SpreadCust(p)
    \/ ResolveSub(p) \/ UpsertSubRow(p) \/ SpreadSub(p) \/ FindOwner(p) \/ Erase(p)
    \/ ReadCustomers(p) \/ ReadSubs(p) \/ WriteFacts(p) \/ Touch(p) \/ Reset(p) \/ Set(p)

LEMMA PoppingControl == ASSUME IInv, NEW p \in Process, Popping(p) PROVE Control'
<1> USE DEF IInv
<1>1. /\ plan[p] # <<>> /\ Next1(p) /\ UNCHANGED <<Events, ev, Known>>
      /\ Head(plan[p]) \notin {"result", "count", "enqueue", "reopen"}
  BY DEF Popping, Fetch, ResolveCust, UpsertCustRow, SpreadCust, ResolveSub, UpsertSubRow, SpreadSub,
     FindOwner, Erase, ReadCustomers, ReadSubs, WriteFacts, Touch, Reset, Set,
     At, Quietly, Events, Known, stripeVars, historyVars, localVars
<1>2. did \in [Process -> Owner]
  BY DEF Control, PlanInv
<1>3. CASE UNCHANGED did
  BY <1>1, <1>2, <1>3, PopStep DEF Steady
<1>4. ASSUME NEW d \in Owner, did' = [did EXCEPT ![p] = d], Head(plan[p]) \notin Rebuilding
      PROVE  Control'
  BY <1>1, <1>2, <1>4, PopStep DEF Steady
<1>5. CASE ResolveCust(p) \/ ResolveSub(p) \/ FindOwner(p) \/ Touch(p)
  <2>1. sub.did \in Owner /\ cust.did \in Owner /\ did[p] \in Owner /\ ClientRef \in Owner /\ NoOne \in Owner
    BY <1>2, StripeIngestAssumption DEF DataInv, Owner
  <2>2. obj[p].cmeta \in Owner /\ obj[p].smeta \in Owner
    BY DEF DataInv, Object
  <2>3. \E d \in Owner : did' = [did EXCEPT ![p] = d]
    BY <1>5, <2>1, <2>2 DEF ResolveCust, ResolveSub, FindOwner, Touch, Or
  <2>4. Head(plan[p]) \notin Rebuilding
    BY <1>5 DEF ResolveCust, ResolveSub, FindOwner, Touch, At, Rebuilding
  <2> QED BY <1>4, <2>3, <2>4
<1>6. CASE ~(ResolveCust(p) \/ ResolveSub(p) \/ FindOwner(p) \/ Touch(p))
  <2>1. UNCHANGED did
    BY <1>6 DEF Popping, Fetch, UpsertCustRow, SpreadCust, UpsertSubRow, SpreadSub,
       Erase, ReadCustomers, ReadSubs, WriteFacts, Reset, Set, localVars
  <2> QED BY <1>3, <2>1
<1> QED BY <1>5, <1>6

(* A charge is counted: again only if it is known that its request failed. *)
LEMMA CountControl == ASSUME IInv, NEW p \in Process, Count(p) PROVE Control'
<1> USE DEF IInv, Control
<1>1. /\ p \in Handler /\ plan[p] # <<>> /\ Head(plan[p]) = "count"
      /\ ev[p] # 0 /\ ev[p] \in seen /\ ev[p] \in DOMAIN log
  <2>1. At(p, "count") /\ "count" \notin Imported
    BY DEF Count, Imported, Upserting, Rebuilding
  <2> QED BY <2>1, WhoIsAt
<1>2. /\ Next1(p) /\ UNCHANGED <<log, open, seen, did, ev, acked, applied, undone, dropped>>
      /\ counted' = counted \cup {ev[p]}
      /\ twice' = IF ev[p] \in counted THEN twice \cup {ev[p]} ELSE twice
  BY DEF Count, stripeVars, localVars
<1>3. Steady(p)
  BY <1>2 DEF Steady, PlanInv
<1>4. /\ PlanInv' /\ RequestInv' /\ plan' = [plan EXCEPT ![p] = Tail(plan[p])]
      /\ plan'[p] # <<>> => Follows(Head(plan[p]), Head(plan'[p]))
  BY <1>1, <1>2, <1>3, PopPlans
<1>5. \A q \in Process : q # p => plan'[q] = plan[q]
  BY <1>4 DEF PlanInv
<1>6. EventInv'
  BY <1>1, <1>2 DEF EventInv
<1>7. AppliedInv'
  <2>1. ASSUME NEW h \in Handler, plan'[h] # <<>>, Head(plan'[h]) \in Rebuilding \cup {"enqueue"}
        PROVE  ev[h] \in applied
    <3>1. h # p
      BY <1>1, <1>4, <2>1 DEF Follows, Rebuilding
    <3> QED BY <1>5, <2>1, <3>1 DEF AppliedInv, Process
  <2> QED BY <1>2, <2>1 DEF AppliedInv, AckedIsApplied
<1>8. CountInv'
  <2>1. twice' \subseteq undone
    BY <1>1, <1>2 DEF CountInv, CountedOnce, At
  <2>2. ASSUME NEW h \in Handler, At(h, "count")' \/ At(h, "reopen")'
        PROVE  ev[h] \notin counted' \ undone
    <3>1. h # p
      BY <1>4, <2>2 DEF Follows, At
    <3>2. ev[h] \notin counted \ undone
      BY <1>5, <2>2, <3>1 DEF CountInv, Process, At
    <3>3. ev[h] # ev[p]
      BY <1>1, <3>1 DEF RequestInv
    <3> QED BY <1>2, <3>2, <3>3
  <2>3. \A e \in counted' \ undone : e \notin open \/ \E h \in Handler : ev[h] = e
    BY <1>1, <1>2 DEF CountInv
  <2> QED BY <1>2, <2>1, <2>2, <2>3 DEF CountInv, CountedOnce
<1> QED BY <1>4, <1>6, <1>7, <1>8

(* apply_event is done.                                                    *)
LEMMA ResultControl == ASSUME IInv, NEW p \in Process, Result(p) PROVE Control'
<1> USE DEF IInv, Control
<1>1. /\ p \in Handler /\ plan[p] # <<>> /\ Head(plan[p]) = "result"
      /\ ev[p] # 0 /\ ev[p] \in seen /\ ev[p] \in DOMAIN log
  <2>1. At(p, "result") /\ "result" \notin Imported
    BY DEF Result, Imported, Upserting, Rebuilding
  <2> QED BY <2>1, WhoIsAt
<1>2. /\ UNCHANGED <<log, seen, counted, twice, undone, dropped>>
      /\ applied' = applied \cup {ev[p]}
  BY DEF Result
<1>3. CASE did[p] = NoOne
  <2>1. Forget(p) /\ acked' = acked \cup {ev[p]} /\ open' = open \ {ev[p]}
    BY <1>3 DEF Result, Ack
  <2>2. acked' \cup applied' \cup undone' \cup dropped' \subseteq DOMAIN log
    BY <1>1, <1>2, <2>1 DEF EventInv
  <2> QED BY <1>1, <1>2, <2>1, <2>2, ForgetStep
<1>4. CASE did[p] # NoOne
  <2>1. Next1(p) /\ UNCHANGED <<open, acked, did, ev>>
    BY <1>4 DEF Result, localVars
  <2>2. did[p] \in Did /\ Steady(p)
    BY <1>4, <2>1 DEF PlanInv, Owner, Steady
  <2>3. /\ PlanInv' /\ RequestInv' /\ plan' = [plan EXCEPT ![p] = Tail(plan[p])]
        /\ plan'[p] # <<>> => Follows(Head(plan[p]), Head(plan'[p]))
    BY <1>1, <1>2, <2>1, <2>2, PopPlans
  <2>4. \A q \in Process : q # p => plan'[q] = plan[q]
    BY <2>3 DEF PlanInv
  <2>5. EventInv'
    BY <1>1, <1>2, <2>1 DEF EventInv
  <2>6. AppliedInv'
    <3>1. ASSUME NEW h \in Handler, plan'[h] # <<>>, Head(plan'[h]) \in Rebuilding \cup {"enqueue"}
          PROVE  ev[h] \in applied'
      BY <1>2, <2>4, <3>1 DEF AppliedInv, Process
    <3> QED BY <1>2, <2>1, <3>1 DEF AppliedInv, AckedIsApplied
  <2>7. CountInv'
    <3>1. ASSUME NEW h \in Handler, At(h, "count")' \/ At(h, "reopen")'
          PROVE  ev[h] \notin counted \ undone
      <4>1. h # p
        BY <2>3, <3>1 DEF Follows, At
      <4> QED BY <2>4, <3>1, <4>1 DEF CountInv, Process, At
    <3> QED BY <1>2, <2>1, <3>1 DEF CountInv, CountedOnce
  <2> QED BY <2>3, <2>5, <2>6, <2>7
<1> QED BY <1>3, <1>4

LEMMA EndControl ==
    ASSUME IInv, NEW p \in Process, Enqueue(p) \/ Reopen(p) \/ FanOut(p) PROVE Control'
<1> USE DEF IInv
<1>0. acked \cup applied \cup undone \cup dropped \subseteq DOMAIN log
  BY DEF Control, EventInv
<1>1. CASE Enqueue(p)
  <2>1. /\ Forget(p) /\ acked' = acked \cup {ev[p]} /\ open' = open \ {ev[p]}
        /\ UNCHANGED <<log, seen, applied, counted, twice, undone, dropped>>
    BY <1>1 DEF Enqueue, Ack
  <2>2. At(p, "enqueue") /\ "enqueue" \notin Imported
    BY <1>1 DEF Enqueue, Imported, Upserting, Rebuilding
  <2>3. p \in Handler /\ ev[p] \in DOMAIN log
    BY <2>2, WhoIsAt
  <2>4. ev[p] \in applied
    BY <2>2, <2>3 DEF Control, AppliedInv, At
  <2> QED BY <1>0, <2>1, <2>3, <2>4, ForgetStep
<1>2. CASE Reopen(p)
  <2>1. /\ Forget(p) /\ seen' = seen \ {ev[p]}
        /\ UNCHANGED <<log, open, acked, applied, counted, twice, undone, dropped>>
    BY <1>2 DEF Reopen, stripeVars, historyVars
  <2>2. At(p, "reopen") /\ "reopen" \notin Imported
    BY <1>2 DEF Reopen, Imported, Upserting, Rebuilding
  <2>3. p \in Handler
    BY <2>2, WhoIsAt
  <2>4. ev[p] \notin counted \ undone
    BY <2>2, <2>3 DEF Control, CountInv
  <2> QED BY <1>0, <2>1, <2>3, <2>4, ForgetStep
<1>3. CASE FanOut(p)
  <2>1. Forget(p) /\ UNCHANGED <<log, open, seen, acked, applied, counted, twice, undone, dropped>>
    BY <1>3 DEF FanOut, stripeVars, historyVars
  <2>2. At(p, "next") /\ "next" \notin Requested
    BY <1>3 DEF FanOut, Requested, Applying, Rebuilding
  <2>3. p \in Importer /\ p \notin Handler
    BY <2>2, WhoIsAt, StripeIngestAssumption
  <2> QED BY <1>0, <2>1, <2>3, ForgetStep
<1> QED BY <1>1, <1>2, <1>3

LEMMA ListControl ==
    ASSUME IInv, NEW p \in Process,
           StartImport(p) \/ ListSubs(p) \/ ListCustomers(p) \/ Sum(p) \/ PickMember(p)
    PROVE  Control'
<1> USE DEF IInv
<1>1. p \in Importer
  <2>1. "list" \notin Requested /\ "customer list" \notin Requested /\ "sum" \notin Requested /\ "next" \notin Requested
    BY DEF Requested, Applying, Rebuilding
  <2> QED BY <2>1, WhoIsAt DEF StartImport, ListSubs, ListCustomers, Sum, PickMember
<1>2. UNCHANGED <<Events, ev, Known>> /\ did \in [Process -> Owner]
  BY DEF StartImport, ListSubs, ListCustomers, Sum, PickMember, Quietly, Events, Known,
     stripeVars, historyVars, Control, PlanInv
<1>3. CASE PickMember(p)
  <2>1. Goto(p, Rebuild \o <<"next">>)
    BY <1>3 DEF PickMember
  <2>2. ImportPlan(Rebuild \o <<"next">>)
    BY ImportPlans
  <2> PICK d \in touched[p] : did' = [did EXCEPT ![p] = d]
    BY <1>3 DEF PickMember
  <2>3. d \in Did
    BY DEF DataInv
  <2>4. did' \in [Process -> Owner] /\ did'[p] \in Did /\ \A q \in Process : q # p => did'[q] = did[q]
    BY <1>2, <2>3 DEF Owner
  <2> QED BY <1>1, <1>2, <2>1, <2>2, <2>4, GotoStep
<1>4. ASSUME NEW s \in Listing, Goto(p, s), UNCHANGED did PROVE Control'
  <2>1. ImportPlan(s) /\ s # <<>> /\ Head(s) \notin Rebuilding
    BY ImportPlans
  <2> QED BY <1>1, <1>2, <1>4, <2>1, GotoStep
<1>5. CASE StartImport(p)
  BY <1>4, <1>5 DEF StartImport, Listing
<1>6. CASE ListSubs(p)
  BY <1>4, <1>6 DEF ListSubs, Listing
<1>7. CASE ListCustomers(p)
  BY <1>4, <1>7 DEF ListCustomers, Listing
<1>8. CASE Sum(p)
  BY <1>4, <1>8 DEF Sum, Listing
<1> QED BY <1>3, <1>5, <1>6, <1>7, <1>8

LEMMA WorkControl == ASSUME IInv, NEW p \in Process, Work(p) PROVE Control'
BY PoppingControl, CountControl, ResultControl, EndControl, ListControl DEF Work, Popping

-----------------------------------------------------------------------------
(* Failures.                                                               *)

LEMMA FailControl == ASSUME IInv, NEW p \in Process, Fail(p) PROVE Control'
<1> USE DEF IInv, Control
<1>0. /\ UNCHANGED <<log, open, seen, acked, applied, counted, twice, dropped>>
      /\ plan[p] # <<>>
  BY DEF Fail, stripeVars, Idle
<1>1. ASSUME p \in Handler, NEW s \in {"reopen", "enqueue"}, Goto(p, <<s>>), UNCHANGED <<did, ev>>,
             undone \subseteq undone', undone' \subseteq DOMAIN log,
             s = "reopen" => ev[p] \notin counted \ undone',
             s = "enqueue" => ev[p] \in applied
      PROVE  Control'
  <2>1. /\ plan' = [plan EXCEPT ![p] = <<s>>] /\ plan'[p] = <<s>>
        /\ \A q \in Process : q # p => plan'[q] = plan[q]
    BY <1>1 DEF Goto, PlanInv
  <2>2. s \in Requested /\ s \in Statement /\ s \notin Rebuilding \cup {"count"}
    BY StatementSets DEF Requested, Rebuilding
  <2>3. /\ RequestPlan(<<s>>) /\ <<s>> # <<>> /\ Head(<<s>>) = s /\ <<s>> \in Seq(Statement)
    BY <2>2 DEF RequestPlan, Chain
  <2> HIDE DEF Control
  <2>4. EventInv'
    BY <1>0, <1>1 DEF EventInv, Control
  <2>5. PlanInv'
    <3>1. plan' \in [Process -> Seq(Statement)]
      BY <2>1, <2>3 DEF PlanInv, Control
    <3>2. \A i \in Importer : i # p /\ i \in Process
      BY <1>1, StripeIngestAssumption DEF Process
    <3>3. \A h \in Handler : RequestPlan(plan'[h])
      BY <2>1, <2>3 DEF PlanInv, Process, Control
    <3>4. \A q \in Process : plan'[q] # <<>> /\ Head(plan'[q]) \in Rebuilding => did[q] \in Did
      BY <2>1, <2>2, <2>3 DEF PlanInv, Control
    <3> QED BY <1>1, <2>1, <3>1, <3>2, <3>3, <3>4 DEF PlanInv, Control
  <2>6. RequestInv'
    <3>1. \A h \in Handler : plan'[h] = <<>> <=> plan[h] = <<>>
      BY <1>0, <2>1, <2>3 DEF Process
    <3> QED BY <1>0, <1>1, <3>1 DEF RequestInv, Control
  <2>7. AppliedInv'
    <3>1. ASSUME NEW h \in Handler, plan'[h] # <<>>, Head(plan'[h]) \in Rebuilding \cup {"enqueue"}
          PROVE  ev[h] \in applied
      BY <1>1, <2>1, <2>3, <3>1 DEF AppliedInv, Process, Rebuilding, Control
    <3> QED BY <1>0, <1>1, <3>1 DEF AppliedInv, AckedIsApplied, Control
  <2>8. CountInv'
    <3>1. ASSUME NEW h \in Handler, At(h, "count")' \/ At(h, "reopen")'
          PROVE  ev[h] \notin counted \ undone'
      BY <1>1, <2>1, <2>2, <2>3, <3>1 DEF CountInv, Process, At, Control
    <3> QED BY <1>0, <1>1, <3>1 DEF CountInv, CountedOnce, Control
  <2> QED BY <2>4, <2>5, <2>6, <2>7, <2>8 DEF Control
<1>2. CASE /\ p \in Handler /\ Goto(p, <<"reopen">>)
           /\ undone' = undone \cup ({ev[p]} \cap counted) /\ UNCHANGED localVars
  <2>1. undone' \subseteq DOMAIN log /\ undone \subseteq undone' /\ ev[p] \notin counted \ undone'
    BY <1>2 DEF EventInv
  <2> QED BY <1>1, <1>2, <2>1 DEF localVars
<1>3. CASE /\ p \in Handler /\ Head(plan[p]) \in Rebuilding /\ Goto(p, <<"enqueue">>)
           /\ UNCHANGED <<undone, localVars>>
  <2>1. ev[p] \in applied /\ undone \subseteq DOMAIN log
    BY <1>0, <1>3 DEF AppliedInv, EventInv
  <2> QED BY <1>1, <1>3, <2>1 DEF localVars
<1>4. CASE p \in Importer /\ Goto(p, <<"next">>) /\ UNCHANGED <<undone, localVars>>
  <2>1. ImportPlan(<<"next">>) /\ Head(<<"next">>) \notin Rebuilding
    BY ImportPlans DEF Listing
  <2>2. UNCHANGED <<Events, ev, Known, did>> /\ did \in [Process -> Owner]
    BY <1>0, <1>4 DEF Events, Known, localVars, PlanInv
  <2> QED BY <1>4, <2>1, <2>2, GotoStep
<1>5. CASE p \in Importer /\ Forget(p) /\ UNCHANGED undone
  <2>1. p \notin Handler
    BY <1>5, StripeIngestAssumption
  <2>2. acked \cup applied \cup undone \cup dropped \subseteq DOMAIN log
    BY DEF EventInv
  <2> QED BY <1>0, <1>5, <2>1, <2>2, ForgetStep
<1> QED BY <1>2, <1>3, <1>4, <1>5 DEF Fail, Rebuilding

LEMMA DieControl == ASSUME IInv, NEW p \in Process, Die(p) PROVE Control'
<1> USE DEF IInv
<1>1. /\ Forget(p) /\ UNCHANGED <<log, open, seen, acked, applied, counted, twice>>
      /\ dropped' = dropped \cup ({ev[p]} \ {0}) /\ undone' = undone \cup ({ev[p]} \cap counted)
  BY DEF Die, stripeVars
<1>2. /\ acked \cup applied \cup counted \cup undone \cup dropped \subseteq DOMAIN log
      /\ DOMAIN log = 1..Len(log) /\ Len(log) \in Nat /\ ev[p] \in 0..Len(log)
  <2>1. log \in Seq([kind : Kinds, data : Object])
    BY DEF DataInv
  <2>2. DOMAIN log = 1..Len(log) /\ Len(log) \in Nat
    BY <2>1, LenProperties
  <2> QED BY <2>2 DEF Control, EventInv, RequestInv
<1>3. acked' \cup applied' \cup undone' \cup dropped' \subseteq DOMAIN log
  <2>1. {ev[p]} \ {0} \subseteq DOMAIN log
    BY <1>2
  <2> QED BY <1>1, <1>2, <2>1
<1>4. p \in Handler => ev[p] # 0
  BY DEF Die, Idle, Control, RequestInv
<1> QED BY <1>1, <1>3, <1>4, ForgetStep

-----------------------------------------------------------------------------
(* The data.                                                               *)

LEMMA InitData == Init => DataInv
<1> SUFFICES ASSUME Init PROVE DataInv
  OBVIOUS
<1> USE DEF Init
<1>0. NoOne \in Owner /\ NoFacts \in Facts /\ Nothing \in Object
  BY DEF Owner, NoFacts, Facts, Nothing, Object
<1>1. stripe \in Object
  <2> PICK c \in Case :
        stripe = [sub |-> c.sub, smeta |-> c.smeta, cmeta |-> c.cmeta, here |-> TRUE, charges |-> 0]
    OBVIOUS
  <2>1. c.sub \in {"none", "active"} /\ c.smeta \in Owner /\ c.cmeta \in Owner
    BY StripeIngestAssumption
  <2> QED BY <2>1 DEF Object
<1>2. log \in Seq([kind : Kinds, data : Object])
  OBVIOUS
<1> QED BY <1>0, <1>1, <1>2 DEF DataInv

(* What no statement disturbs.                                             *)
LEMMA ForgetData ==
    ASSUME DataInv, NEW p \in Process, Forget(p), UNCHANGED <<stripe, log, sub, cust, facts>>,
           untold' \subseteq Did
    PROVE  DataInv'
<1>1. NoFacts \in Facts /\ Nothing \in Object
  BY DEF Owner, NoFacts, Facts, Nothing, Object
<1>2. obj' \in [Process -> Object] /\ view' \in [Process -> Facts] /\ touched' \in [Process -> SUBSET Did]
  BY <1>1 DEF Forget, DataInv
<1> QED BY <1>2 DEF DataInv

LEMMA RowData ==
    ASSUME IInv, NEW p \in Process,
           \/ UpsertCustRow(p) \/ SpreadCust(p) \/ UpsertSubRow(p) \/ SpreadSub(p)
           \/ Erase(p) \/ Count(p) \/ Reset(p) \/ Set(p)
    PROVE  DataInv'
<1> USE DEF IInv
<1>0. /\ UNCHANGED <<stripe, log, facts, untold, view>>
      /\ obj' = obj \/ obj' = [obj EXCEPT ![p] = Nothing]
      /\ touched' = touched \/ touched' = [touched EXCEPT ![p] = (@ \cup {cust.did}) \ {NoOne}]
  BY DEF UpsertCustRow, SpreadCust, UpsertSubRow, SpreadSub, Erase, Count, Reset, Set,
     Quietly, stripeVars, localVars
<1>1. /\ sub \in [status : {"none", "active", "canceled"}, did : Owner]
      /\ cust \in [here : BOOLEAN, did : Owner, paid : Nat]
      /\ ~cust.here => cust.did = NoOne /\ cust.paid = 0
      /\ obj[p] \in Object /\ did[p] \in Owner /\ NoOne \in Owner
  BY DEF DataInv, Control, PlanInv, Owner
<1>2. touched' \in [Process -> SUBSET Did]
  BY <1>0, <1>1 DEF DataInv, Owner
<1>3. sub' \in [status : {"none", "active", "canceled"}, did : Owner]
  <2>1. CASE UNCHANGED sub
    BY <1>1, <2>1
  <2>2. CASE SpreadCust(p)
    BY <1>1, <2>2 DEF SpreadCust, Or
  <2>3. CASE UpsertSubRow(p)
    BY <1>1, <2>3 DEF UpsertSubRow, Or, Object
  <2> QED BY <2>1, <2>2, <2>3 DEF UpsertCustRow, SpreadSub, Erase, Count, Reset, Set
<1>4. /\ cust' \in [here : BOOLEAN, did : Owner, paid : Nat]
      /\ ~cust'.here => cust'.did = NoOne /\ cust'.paid = 0
  <2>1. CASE UNCHANGED cust
    BY <1>1, <2>1
  <2>2. CASE UpsertCustRow(p)
    BY <1>1, <2>2 DEF UpsertCustRow, Or
  <2>3. CASE SpreadSub(p)
    BY <1>1, <2>3 DEF SpreadSub, Or
  <2>4. CASE Erase(p)
    BY <1>1, <2>4 DEF Erase
  <2>5. CASE Count(p)
    <3>1. cust.paid + 1 \in Nat
      BY <1>1
    <3> QED BY <1>1, <2>5, <3>1 DEF Count
  <2>6. CASE Reset(p)
    BY <1>1, <2>6 DEF Reset
  <2>7. CASE Set(p)
    BY <1>1, <2>7 DEF Set, Object
  <2> QED BY <2>1, <2>2, <2>3, <2>4, <2>5, <2>6, <2>7 DEF SpreadCust, UpsertSubRow
<1>5. obj' \in [Process -> Object]
  <2>1. Nothing \in Object
    BY <1>1 DEF Nothing, Object
  <2> QED BY <1>0, <2>1 DEF DataInv
<1> QED BY <1>0, <1>2, <1>3, <1>4, <1>5 DEF DataInv

LEMMA WorkData == ASSUME IInv, NEW p \in Process, Work(p) PROVE DataInv'
<1> USE DEF IInv
<1>1. CASE Fetch(p) \/ ListSubs(p) \/ ListCustomers(p) \/ Sum(p)
  <2>1. UNCHANGED <<stripe, log, sub, cust, facts, untold, view, touched>>
    BY <1>1 DEF Fetch, ListSubs, ListCustomers, Sum, mirrorVars, Quietly, stripeVars
  <2>2. stripe \in Object /\ obj \in [Process -> Object] /\ Nothing \in Object
    BY DEF DataInv, Nothing, Object, Owner
  <2>3. \E o \in Object : obj' = [obj EXCEPT ![p] = o]
    BY <1>1, <2>2 DEF Fetch, ListSubs, ListCustomers, Sum, Object, Nothing
  <2>4. obj' \in [Process -> Object]
    BY <2>2, <2>3
  <2> QED BY <2>1, <2>4 DEF DataInv
<1>2. CASE ResolveCust(p) \/ ResolveSub(p) \/ FindOwner(p) \/ StartImport(p)
  BY <1>2 DEF ResolveCust, ResolveSub, FindOwner, StartImport, mirrorVars, Quietly, stripeVars, DataInv
<1>3. CASE ReadCustomers(p) \/ ReadSubs(p)
  <2>1. UNCHANGED <<stripe, log, sub, cust, facts, untold, obj, touched>>
    BY <1>3 DEF ReadCustomers, ReadSubs, mirrorVars, Quietly, stripeVars
  <2>2. view' \in [Process -> Facts]
    <3>1. NoFacts \in Facts /\ view[p] \in Facts /\ cust.paid \in Nat
      BY DEF DataInv, NoFacts, Facts
    <3>2. [row |-> TRUE, active |-> FALSE, paid |-> cust.paid] \in Facts
      BY <3>1 DEF Facts
    <3>3. [view[p] EXCEPT !.row = TRUE, !.active = sub.status = "active"] \in Facts
      BY <3>1 DEF Facts
    <3>4. \E f \in Facts : view' = [view EXCEPT ![p] = f]
      BY <1>3, <3>1, <3>2, <3>3 DEF ReadCustomers, ReadSubs
    <3> QED BY <3>4 DEF DataInv
  <2> QED BY <2>1, <2>2 DEF DataInv
<1>4. CASE WriteFacts(p)
  <2>1. did[p] \in Did
    BY <1>4 DEF WriteFacts, At, Control, PlanInv, Rebuilding
  <2>2. facts' \in [Did -> Facts] /\ untold' \subseteq Did
    BY <1>4, <2>1 DEF WriteFacts, DataInv
  <2>3. view' \in [Process -> Facts] /\ UNCHANGED <<stripe, log, sub, cust, obj, touched>>
    BY <1>4 DEF WriteFacts, stripeVars, mirrorVars, DataInv, NoFacts, Facts
  <2> QED BY <2>2, <2>3 DEF DataInv
<1>5. CASE Result(p)
  <2>1. CASE did[p] = NoOne
    BY <1>5, <2>1, ForgetData DEF Result, mirrorVars, DataInv
  <2>2. CASE did[p] # NoOne
    <3>1. /\ obj' = [obj EXCEPT ![p] = Nothing]
          /\ UNCHANGED <<stripe, log, sub, cust, facts, untold, view, touched>>
      BY <1>5, <2>2 DEF Result, mirrorVars
    <3>2. obj' \in [Process -> Object]
      BY <3>1 DEF DataInv, Nothing, Object, Owner
    <3> QED BY <3>1, <3>2 DEF DataInv
  <2> QED BY <2>1, <2>2
<1>6. CASE Enqueue(p) \/ Reopen(p) \/ FanOut(p)
  <2>1. untold' \subseteq Did
    BY <1>6 DEF Enqueue, Reopen, FanOut, DataInv
  <2> QED BY <1>6, <2>1, ForgetData DEF Enqueue, Reopen, FanOut, mirrorVars, stripeVars
<1>7. CASE Touch(p) \/ PickMember(p)
  <2>1. UNCHANGED <<stripe, log, sub, cust, facts, untold, view>>
    BY <1>7 DEF Touch, PickMember, mirrorVars, Quietly, stripeVars
  <2>3. obj' \in [Process -> Object]
    <3>1. Nothing \in Object
      BY DEF Nothing, Object, Owner
    <3>2. obj' = obj \/ obj' = [obj EXCEPT ![p] = Nothing]
      BY <1>7 DEF Touch, PickMember
    <3> QED BY <3>1, <3>2 DEF DataInv
  <2>2. touched' \in [Process -> SUBSET Did]
    <3>1. CASE Touch(p)
      BY <3>1 DEF Touch, DataInv, Control, PlanInv, Owner
    <3>2. CASE PickMember(p)
      BY <3>2 DEF PickMember, DataInv
    <3> QED BY <1>7, <3>1, <3>2
  <2> QED BY <2>1, <2>2, <2>3 DEF DataInv
<1> QED BY <1>1, <1>2, <1>3, <1>4, <1>5, <1>6, <1>7, RowData DEF Work

LEMMA FailData == ASSUME IInv, NEW p \in Process, Fail(p) \/ Die(p) PROVE DataInv'
<1>1. UNCHANGED <<stripe, log, sub, cust, facts, untold>> /\ DataInv /\ untold \subseteq Did
  BY DEF Fail, Die, stripeVars, mirrorVars, IInv, DataInv
<1>2. Forget(p) \/ UNCHANGED localVars
  BY DEF Fail, Die
<1>3. CASE Forget(p)
  BY <1>1, <1>3, ForgetData
<1>4. CASE UNCHANGED localVars
  BY <1>1, <1>4 DEF DataInv, localVars
<1> QED BY <1>2, <1>3, <1>4

-----------------------------------------------------------------------------
LEMMA InvInit == Init => IInv
<1> SUFFICES ASSUME Init PROVE IInv
  OBVIOUS
<1> USE DEF Init
<1>1. EventInv
  BY DEF EventInv
<1>2. PlanInv
  <2>1. RequestPlan(<<>>) /\ ImportPlan(<<>>) /\ <<>> \in Seq(Statement)
    BY DEF RequestPlan, ImportPlan, Chain
  <2> QED BY <2>1 DEF PlanInv, Process, Owner
<1>3. RequestInv
  BY DEF RequestInv, Process
<1>4. AppliedInv /\ CountInv
  BY DEF AppliedInv, AckedIsApplied, CountInv, CountedOnce, At, Process
<1> QED BY <1>1, <1>2, <1>3, <1>4, InitData DEF IInv, Control

LEMMA InvStep == IInv /\ [Next]_vars => IInv'
<1> SUFFICES ASSUME IInv, [Next]_vars PROVE IInv'
  OBVIOUS
<1>1. CASE Outside
  <2>1. UNCHANGED <<sub, cust, facts, untold, obj, view, touched>>
    BY <1>1 DEF Outside, Subscribe, Cancel, Pay, Relink, DeleteCustomer, DeleteSubscriber, Lose,
       Unseen, mirrorVars, localVars
  <2> QED BY <1>1, <2>1, EmitStep DEF IInv, DataInv
<1>2. ASSUME NEW e \in 1..Len(log), NEW h \in Handler, Accept(h, e) PROVE IInv'
  <2>1. obj' \in [Process -> Object]
    <3>1. log \in Seq([kind : Kinds, data : Object]) /\ obj \in [Process -> Object]
      BY DEF IInv, DataInv
    <3>2. log[e] \in [kind : Kinds, data : Object]
      BY <3>1, ElementOfSeq
    <3> QED BY <1>2, <3>1, <3>2 DEF Accept
  <2>2. DataInv'
    BY <1>2, <2>1 DEF Accept, stripeVars, mirrorVars, IInv, DataInv
  <2> QED BY <1>2, <2>2, AcceptStep DEF IInv
<1>3. ASSUME NEW e \in 1..Len(log), Duplicate(e) PROVE IInv'
  <2>1. DataInv'
    BY <1>3 DEF Duplicate, mirrorVars, localVars, IInv, DataInv
  <2> QED BY <1>3, <2>1, DuplicateStep DEF IInv
<1>4. ASSUME NEW e \in seen, Collect(e) PROVE IInv'
  <2>1. DataInv'
    BY <1>4 DEF Collect, stripeVars, mirrorVars, localVars, IInv, DataInv
  <2> QED BY <1>4, <2>1, CollectStep DEF IInv
<1>5. ASSUME NEW p \in Process, Work(p) \/ Fail(p) \/ Die(p) PROVE IInv'
  BY <1>5, WorkData, FailData, WorkControl, FailControl, DieControl DEF IInv
<1>6. CASE UNCHANGED vars
  <2>1. UNCHANGED <<stripe, log, open, seen, sub, cust, facts, untold, plan, ev, obj, did, view, touched,
                    acked, applied, counted, twice, undone, dropped>>
    BY <1>6 DEF vars, stripeVars, mirrorVars, localVars, historyVars
  <2>2. DataInv' /\ EventInv' /\ PlanInv'
    BY <2>1 DEF IInv, Control, DataInv, EventInv, PlanInv
  <2>3. RequestInv' /\ AppliedInv' /\ CountInv'
    BY <2>1 DEF IInv, Control, RequestInv, AppliedInv, AckedIsApplied, CountInv, CountedOnce, At
  <2> QED BY <2>2, <2>3 DEF IInv, Control
<1> QED BY <1>1, <1>2, <1>3, <1>4, <1>5, <1>6 DEF Next, Request

THEOREM Invariance == Spec => []IInv
BY InvInit, InvStep, PTL DEF Spec

(* The rows, the events and the plans stay well formed, whatever fails or  *)
(* dies in between; in particular no facts are written for nobody.         *)
THEOREM TypeCorrect == Spec => []TypeOK
<1>1. ASSUME IInv PROVE TypeOK
  <2>1. \A p \in Process : At(p, "write") => did[p] # NoOne
    BY <1>1, StripeIngestAssumption DEF IInv, Control, PlanInv, At, Rebuilding
  <2> QED BY <1>1, <2>1 DEF TypeOK, IInv, DataInv, Control, EventInv, PlanInv, RequestInv
<1> QED BY <1>1, Invariance, PTL

(* A charge is added again only if the request that added it failed or     *)
(* died.                                                                   *)
THEOREM ChargesCountOnce == Spec => []CountedOnce
<1>1. IInv => CountedOnce
  BY DEF IInv, Control, CountInv
<1> QED BY <1>1, Invariance, PTL

(* What Stripe was told is done was applied, or its request died, or a     *)
(* duplicate was answered too early.                                       *)
THEOREM AnswersAreTrue == Spec => []AckedIsApplied
<1>1. IInv => AckedIsApplied
  BY DEF IInv, Control, AppliedInv
<1> QED BY <1>1, Invariance, PTL

-----------------------------------------------------------------------------
(* The charge pass of the imports, step by step, as ChargeImport has it:   *)
(* it sums every settled charge exactly once, for any number of customers, *)
(* charges and imports at once, and any size and number of pages.          *)
CONSTANTS Customer, PageLimit, MaxPages, MaxCharges, Paying
VARIABLES made, payer, good, refunded, events, sums, pc, cursor, pages, listed, left, calm, settled
Pass == INSTANCE ChargeImport WITH counted <- sums

Val(i) == IF i \in good THEN 1 ELSE 0

(* The newest charges, which the pages can hold; there are ever more.      *)
Newest(i) == i + PageLimit * MaxPages > made

(* While the list is read: nothing behind the cursor is added up yet,      *)
(* every calm charge in front of it is as it counts, and the full pages    *)
(* read so far hold all that is in front of it.                            *)
ListInv == \A p \in Importer : pc[p] = "list" =>
    /\ \A i \in Pass!Num : cursor[p] = 0 \/ i < cursor[p] => listed[p][i] = 0
    /\ \A i \in calm[p] : cursor[p] # 0 /\ cursor[p] <= i => listed[p][i] = Val(i)
    /\ pages[p] < MaxPages
    /\ IF cursor[p] = 0 THEN pages[p] = 0
                        ELSE cursor[p] + pages[p] * PageLimit <= made + 1

(* When it was read, all of the newest ones are.                           *)
SumInv == \A p \in Importer : pc[p] \in {"reset", "set"} =>
    \A i \in calm[p] : Newest(i) => listed[p][i] = Val(i)

CalmInv ==
    /\ settled \cap events = {}
    /\ \A p \in Importer :
         /\ calm[p] \cap events = {}
         /\ pc[p] = "idle" =>
              cursor[p] = 0 /\ pages[p] = 0 /\ \A i \in Pass!Num : listed[p][i] = 0

PassInv == /\ Pass!ImportAssumption /\ Pass!TypeOK
           /\ ListInv /\ SumInv /\ CalmInv /\ Pass!SettledChargesAreExact

-----------------------------------------------------------------------------
LEMMA PassInit == ASSUME Pass!ImportAssumption PROVE Pass!Init => PassInv
<1> SUFFICES ASSUME Pass!Init PROVE PassInv
  OBVIOUS
<1>1. /\ made = 0 /\ good = {} /\ refunded = {} /\ events = {} /\ settled = {}
      /\ payer \in [Pass!Num -> Customer]
  BY DEF Pass!Init, Pass!ImportAssumption, Pass!Num
<1>2. sums \in [Pass!Num -> Nat] /\ Pass!NoSums \in [Pass!Num -> 0..1]
  BY DEF Pass!Init, Pass!NoSums
<1>3. /\ pc = [p \in Importer |-> "idle"] /\ cursor = [p \in Importer |-> 0]
      /\ pages = [p \in Importer |-> 0] /\ listed = [p \in Importer |-> Pass!NoSums]
      /\ left = [p \in Importer |-> {}] /\ calm = [p \in Importer |-> {}]
  BY DEF Pass!Init
<1>4. Pass!TypeOK
  <2>1. made \in 0..MaxCharges /\ 0 \in 0..made /\ 0 \in 0..MaxPages
    BY <1>1 DEF Pass!ImportAssumption
  <2> QED BY <1>1, <1>2, <1>3, <2>1 DEF Pass!TypeOK
<1>5. \A p \in Importer : pc[p] = "idle"
  BY <1>3
<1>6. ListInv /\ SumInv
  BY <1>5 DEF ListInv, SumInv
<1>7. CalmInv /\ Pass!SettledChargesAreExact
  BY <1>1, <1>3 DEF CalmInv, Pass!SettledChargesAreExact, Pass!NoSums
<1> QED BY <1>4, <1>6, <1>7 DEF PassInv

LEMMA ChargeIsNum ==
    ASSUME Pass!ImportAssumption, Pass!TypeOK
    PROVE  /\ Pass!Charge \subseteq Pass!Num /\ Pass!Num \subseteq Nat \ {0}
           /\ made \in Nat /\ PageLimit \in Nat \ {0} /\ MaxPages \in Nat \ {0}
           /\ PageLimit * MaxPages \in Nat
BY DEF Pass!ImportAssumption, Pass!TypeOK, Pass!Charge, Pass!Num

(* What happens at Stripe: a charge it happens to is not calm any more.    *)
LEMMA PassOutsideStep == PassInv /\ Pass!Outside => PassInv'
<1> SUFFICES ASSUME PassInv, Pass!Outside PROVE PassInv'
  OBVIOUS
<1> USE DEF PassInv, Pass!stripe, Pass!import, Pass!history
<1>0. /\ Pass!Charge \subseteq Pass!Num /\ made \in Nat /\ PageLimit * MaxPages \in Nat
      /\ settled \subseteq Pass!Charge /\ \A p \in Importer : calm[p] \subseteq Pass!Charge
      /\ Pass!Num \subseteq Nat \ {0}
  BY ChargeIsNum DEF Pass!TypeOK
<1>1. ASSUME NEW ok \in BOOLEAN, Pass!Make(ok) PROVE PassInv'
  <2>0. made' = made + 1
    BY <1>1 DEF Pass!Make
  <2>1. made + 1 \notin Pass!Charge /\ Pass!Charge \subseteq Pass!Charge'
    BY <1>0, <2>0 DEF Pass!Charge
  <2>2. UNCHANGED <<payer, sums, Pass!import, Pass!history>>
    BY <1>1 DEF Pass!Make
  <2>3. Pass!TypeOK'
    <3>1. good' \subseteq Pass!Charge' /\ events' \subseteq Pass!Charge'
      <4>1. made + 1 \in Pass!Charge'
        BY <1>0, <2>0 DEF Pass!Charge
      <4>2. good \subseteq Pass!Charge /\ events \subseteq Pass!Charge
        BY DEF Pass!TypeOK
      <4> QED BY <1>1, <2>1, <4>1, <4>2 DEF Pass!Make
    <3>2. refunded' \subseteq Pass!Charge' \ good'
      BY <1>1, <2>1 DEF Pass!Make, Pass!TypeOK
    <3>3. made' \in 0..MaxCharges
      BY <1>0, <1>1, <2>0 DEF Pass!ImportAssumption, Pass!Make
    <3>4. cursor' \in [Importer -> 0..made']
      <4>1. 0..made \subseteq 0..made'
        BY <1>0, <2>0
      <4> QED BY <2>2, <4>1 DEF Pass!TypeOK
    <3>5. settled' \subseteq Pass!Charge' /\ calm' \in [Importer -> SUBSET (Pass!Charge')]
      BY <2>1, <2>2 DEF Pass!TypeOK
    <3> QED BY <2>2, <3>1, <3>2, <3>3, <3>4, <3>5 DEF Pass!TypeOK
  <2>4. /\ \A i \in settled : i \in good' <=> i \in good
        /\ \A p \in Importer : \A i \in calm[p] : i \in good' <=> i \in good
    BY <1>0, <1>1, <2>1 DEF Pass!Make
  <2>5. CalmInv'
    BY <1>0, <1>1, <2>1, <2>2 DEF Pass!Make, CalmInv
  <2>6. \A i \in Pass!Num : Newest(i)' => Newest(i)
    BY <1>0, <2>0 DEF Newest
  <2>7. ListInv'
    <3> SUFFICES ASSUME NEW p \in Importer, pc[p] = "list"
                 PROVE  /\ \A i \in Pass!Num : cursor[p] = 0 \/ i < cursor[p] => listed[p][i] = 0
                        /\ \A i \in calm[p] : cursor[p] # 0 /\ cursor[p] <= i => listed[p][i] = Val(i)'
                        /\ pages[p] < MaxPages
                        /\ IF cursor[p] = 0 THEN pages[p] = 0
                                            ELSE cursor[p] + pages[p] * PageLimit <= made' + 1
      BY <2>2 DEF ListInv
    <3>1. cursor[p] \in Nat /\ pages[p] * PageLimit \in Nat
      BY ChargeIsNum DEF Pass!TypeOK
    <3> QED BY <1>0, <2>0, <2>4, <3>1 DEF ListInv, Val
  <2>8. SumInv' /\ Pass!SettledChargesAreExact'
    BY <1>0, <2>2, <2>4, <2>6 DEF SumInv, Pass!SettledChargesAreExact, Val, Newest
  <2> QED BY <2>3, <2>5, <2>7, <2>8
<1>2. ASSUME NEW i \in Pass!Charge, Pass!Succeed(i) \/ Pass!Refund(i) PROVE PassInv'
  <2>0. UNCHANGED <<made, payer, sums, Pass!import>> /\ Pass!Touch(i)
    BY <1>2 DEF Pass!Succeed, Pass!Refund
  <2>1. /\ settled' = settled \ {i}
        /\ \A p \in Importer : calm'[p] = calm[p] \ {i}
        /\ calm' \in [Importer -> SUBSET Pass!Charge]
    BY <1>0, <2>0 DEF Pass!Touch
  <2>2. /\ good' \subseteq Pass!Charge /\ events' \subseteq Pass!Charge
        /\ refunded' \subseteq Pass!Charge \ good'
        /\ \A j \in Pass!Charge \ {i} : (j \in good' <=> j \in good) /\ (j \in events' <=> j \in events)
    BY <1>2 DEF Pass!Succeed, Pass!Refund, Pass!TypeOK
  <2>3. Pass!TypeOK'
    BY <2>0, <2>1, <2>2 DEF Pass!TypeOK, Pass!Charge
  <2>4. CalmInv'
    BY <1>0, <2>0, <2>1, <2>2 DEF CalmInv
  <2>5. \A p \in Importer : \A j \in calm'[p] : j \in calm[p] /\ Val(j)' = Val(j)
    BY <1>0, <2>1, <2>2 DEF Val, Pass!TypeOK
  <2>6. UNCHANGED <<made, pc, cursor, pages, listed>>
    BY <2>0 DEF Pass!import
  <2>7. ListInv'
    <3> HIDE DEF PassInv
    <3>1. ListInv
      BY DEF PassInv
    <3> QED BY <2>5, <2>6, <3>1 DEF ListInv
  <2>8. SumInv'
    <3> HIDE DEF PassInv
    <3>1. SumInv
      BY DEF PassInv
    <3> QED BY <2>5, <2>6, <3>1 DEF SumInv, Newest
  <2>9. Pass!SettledChargesAreExact'
    BY <1>0, <2>0, <2>1, <2>2 DEF Pass!SettledChargesAreExact
  <2> QED BY <2>3, <2>4, <2>7, <2>8, <2>9
<1>3. ASSUME NEW i \in Pass!Charge, Pass!LoseEvent(i) PROVE PassInv'
  <2>0. UNCHANGED <<made, payer, good, refunded, sums, Pass!import, Pass!history>> /\ events' \subseteq events
    BY <1>3 DEF Pass!LoseEvent
  <2>1. Pass!TypeOK'
    BY <2>0 DEF Pass!TypeOK, Pass!Charge
  <2> QED BY <2>0, <2>1
          DEF ListInv, SumInv, CalmInv, Pass!SettledChargesAreExact, Val, Newest
<1> QED BY <1>1, <1>2, <1>3 DEF Pass!Outside

(* The webhook adds charges that are neither calm nor settled.             *)
LEMMA ApplyStep == ASSUME PassInv, NEW i \in Pass!Charge, Pass!ApplyCharge(i) PROVE PassInv'
<1> USE DEF PassInv, Pass!ApplyCharge, Pass!import, Pass!history
<1>1. i \in Pass!Num /\ settled \subseteq Pass!Num
  BY ChargeIsNum DEF Pass!TypeOK
<1>2. Pass!TypeOK'
  BY <1>1 DEF Pass!TypeOK, Pass!Charge
<1>3. \A j \in settled : sums'[j] = sums[j]
  BY <1>1 DEF CalmInv, Pass!TypeOK
<1>4. CalmInv' /\ ListInv' /\ SumInv'
  BY DEF ListInv, SumInv, CalmInv, Val, Newest
<1> QED BY <1>2, <1>3, <1>4 DEF Pass!SettledChargesAreExact

-----------------------------------------------------------------------------
(* What an import does to its own sums does not touch another's.           *)
LEMMA OtherImports ==
    ASSUME PassInv, NEW p \in Importer, NEW q \in Importer \ {p}, Pass!Import(p)
    PROVE  UNCHANGED <<pc[q], cursor[q], pages[q], listed[q], left[q], calm[q]>>
<1> USE DEF Pass!history
<1>0. /\ pc \in [Importer -> {"idle", "list", "reset", "set"}] /\ cursor \in [Importer -> 0..made]
      /\ pages \in [Importer -> 0..MaxPages] /\ listed \in [Importer -> [Pass!Num -> 0..1]]
      /\ left \in [Importer -> SUBSET Customer] /\ calm \in [Importer -> SUBSET Pass!Charge]
  BY DEF PassInv, Pass!TypeOK
<1>1. CASE Pass!Start(p)
  BY <1>0, <1>1 DEF Pass!Start
<1>2. CASE Pass!Page(p)
  <2>1. UNCHANGED <<left, calm>> /\ pc'[q] = pc[q] /\ cursor'[q] = cursor[q]
    BY <1>0, <1>2 DEF Pass!Page
  <2>2. pages'[q] = pages[q] /\ listed'[q] = listed[q]
    BY <1>0, <1>2 DEF Pass!Page
  <2> QED BY <2>1, <2>2
<1>3. CASE Pass!Reset(p) \/ \E c \in Customer : Pass!SetSpend(p, c)
  BY <1>0, <1>3 DEF Pass!Reset, Pass!SetSpend
<1>4. CASE Pass!Finish(p) \/ Pass!Fail(p)
  BY <1>0, <1>4 DEF Pass!Finish, Pass!Fail, Pass!End
<1> QED BY <1>1, <1>2, <1>3, <1>4 DEF Pass!Import

LEMMA SameCardinality == \A S : Pass!Cardinality(S) = Cardinality(S)
BY DEF Pass!Cardinality, Cardinality

(* A page that is not the last one is full, and so were those before it:   *)
(* as many charges as they hold are at f and in front of it.               *)
LEMMA PageReach ==
    ASSUME PassInv, NEW p \in Importer, pc[p] = "list",
           NEW page \in SUBSET Pass!Behind(p), Pass!IsPage(p, page), page # Pass!Behind(p),
           NEW f \in Nat, \A i \in page : f <= i
    PROVE  f + (pages[p] + 1) * PageLimit <= made + 1
<1> DEFINE top == IF cursor[p] = 0 THEN made ELSE cursor[p] - 1
<1>1. /\ made \in Nat /\ PageLimit \in Nat \ {0} /\ top \in Nat /\ pages[p] \in Nat
      /\ Pass!Behind(p) = 1..top
  BY ChargeIsNum DEF PassInv, Pass!TypeOK, Pass!Behind, Pass!Charge
<1>2. Cardinality(page) = PageLimit
  BY SameCardinality DEF Pass!IsPage
<1>3. top + pages[p] * PageLimit <= made
  <2>1. pages[p] * PageLimit \in Nat /\ cursor[p] \in Nat
    BY <1>1 DEF PassInv, Pass!TypeOK
  <2>2. CASE cursor[p] = 0
    <3>1. pages[p] = 0
      BY <2>2 DEF PassInv, ListInv
    <3> QED BY <1>1, <2>2, <3>1
  <2>3. CASE cursor[p] # 0
    <3>1. cursor[p] + pages[p] * PageLimit <= made + 1
      BY <2>3 DEF PassInv, ListInv
    <3>2. \A c, n, m \in Nat : c + n <= m + 1 => (c - 1) + n <= m
      OBVIOUS
    <3>3. top = cursor[p] - 1
      BY <2>3
    <3> HIDE DEF top
    <3> QED BY <1>1, <2>1, <3>1, <3>2, <3>3
  <2> QED BY <2>2, <2>3
<1> HIDE DEF top
<1>4. page \subseteq f..top
  BY <1>1
<1>5. IsFiniteSet(f..top) /\ Cardinality(f..top) = IF f > top THEN 0 ELSE top - f + 1
  BY <1>1, FS_Interval, f \in Int, top \in Int
<1>6. Cardinality(page) <= Cardinality(f..top)
  BY <1>4, <1>5, FS_Subset
<1>7. PageLimit <= top - f + 1
  BY <1>1, <1>2, <1>5, <1>6
<1>8. (pages[p] + 1) * PageLimit = pages[p] * PageLimit + PageLimit /\ pages[p] * PageLimit \in Nat
  BY <1>1
<1> DEFINE before == pages[p] * PageLimit
<1>9. before \in Nat /\ (pages[p] + 1) * PageLimit = before + PageLimit /\ top + before <= made
  BY <1>3, <1>8
<1> HIDE DEF before
<1>10. f + (before + PageLimit) <= made + 1
  BY <1>1, <1>7, <1>9
<1> QED BY <1>9, <1>10

LEMMA PageStep == ASSUME PassInv, NEW p \in Importer, Pass!Page(p) PROVE PassInv'
<1> USE DEF PassInv, Pass!stripe, Pass!history
<1> PICK page \in SUBSET Pass!Behind(p) :
       /\ Pass!IsPage(p, page)
       /\ listed' = [listed EXCEPT ![p] =
                       [i \in Pass!Num |-> @[i] + IF i \in page \cap good THEN 1 ELSE 0]]
       /\ pages' = [pages EXCEPT ![p] = @ + 1]
       /\ IF page # Pass!Behind(p) /\ pages[p] + 1 < MaxPages
            THEN \E i \in page : /\ \A j \in page : i <= j
                                 /\ cursor' = [cursor EXCEPT ![p] = i]
                                 /\ UNCHANGED pc
            ELSE pc' = [pc EXCEPT ![p] = "reset"] /\ UNCHANGED cursor
  BY DEF Pass!Page
<1>1. pc[p] = "list" /\ UNCHANGED <<made, payer, good, refunded, events, sums, left, calm, settled>>
  BY DEF Pass!Page
<1>2. /\ page \subseteq Pass!Charge /\ Pass!Charge \subseteq Pass!Num /\ calm[p] \subseteq Pass!Charge
      /\ made \in Nat /\ PageLimit \in Nat \ {0} /\ MaxPages \in Nat \ {0}
      /\ cursor[p] \in 0..made /\ pages[p] \in Nat /\ pages[p] < MaxPages
      /\ Pass!Num \subseteq Nat \ {0}
  <2>1. calm[p] \subseteq Pass!Charge /\ cursor[p] \in 0..made /\ made \in Nat /\ pages[p] \in Nat
    BY ChargeIsNum DEF Pass!TypeOK
  <2>2. Pass!Behind(p) \subseteq Pass!Charge
    BY <2>1 DEF Pass!Behind, Pass!Charge
  <2> QED BY <1>1, <2>1, <2>2, ChargeIsNum DEF ListInv
<1>3. \A i \in Pass!Num : i \in page => listed[p][i] = 0 /\ (cursor[p] = 0 \/ i < cursor[p])
  <2> SUFFICES ASSUME NEW i \in Pass!Num, i \in page PROVE cursor[p] = 0 \/ i < cursor[p]
    BY <1>1 DEF ListInv
  <2> QED BY <1>2 DEF Pass!Behind
<1>4. \A i \in Pass!Num : listed'[p][i] = listed[p][i] + IF i \in page \cap good THEN 1 ELSE 0
  BY DEF Pass!TypeOK
<1>5. /\ \A i \in calm[p] : i \in page => listed'[p][i] = Val(i)
      /\ \A i \in Pass!Num : i \notin page => listed'[p][i] = listed[p][i]
      /\ listed'[p] \in [Pass!Num -> 0..1]
  <2>1. listed'[p] = [i \in Pass!Num |-> listed[p][i] + IF i \in page \cap good THEN 1 ELSE 0]
    BY DEF Pass!TypeOK
  <2>2. \A i \in Pass!Num : listed[p][i] \in 0..1
    BY DEF Pass!TypeOK
  <2>3. ASSUME NEW i \in Pass!Num
        PROVE  /\ i \in page => listed'[p][i] = Val(i)
               /\ i \notin page => listed'[p][i] = listed[p][i]
               /\ listed'[p][i] \in 0..1
    <3>1. CASE i \in page
      BY <1>3, <1>4, <3>1 DEF Val
    <3>2. CASE i \notin page
      BY <1>4, <2>2, <3>2
    <3> QED BY <3>1, <3>2 DEF Val
  <2>4. listed'[p] \in [Pass!Num -> 0..1]
    <3> DEFINE F(i) == listed[p][i] + IF i \in page \cap good THEN 1 ELSE 0
    <3>1. listed'[p] = [i \in Pass!Num |-> F(i)]
      BY <2>1
    <3>2. \A i \in Pass!Num : F(i) \in 0..1
      BY <1>4, <2>3
    <3> HIDE DEF F
    <3> QED BY <3>1, <3>2
  <2> QED BY <1>2, <2>3, <2>4
<1>6. pages'[p] = pages[p] + 1
  BY DEF Pass!TypeOK
<1>7. Pass!TypeOK'
  <2>1. listed' \in [Importer -> [Pass!Num -> 0..1]]
    BY <1>5 DEF Pass!TypeOK
  <2>2. pages' \in [Importer -> 0..MaxPages]
    BY <1>2 DEF Pass!TypeOK
  <2>3. pc' \in [Importer -> {"idle", "list", "reset", "set"}]
    BY DEF Pass!TypeOK
  <2>4. cursor' \in [Importer -> 0..made]
    <3>1. page \subseteq 0..made
      BY <1>2 DEF Pass!Charge
    <3> QED BY <3>1 DEF Pass!TypeOK
  <2> QED BY <1>1, <2>1, <2>2, <2>3, <2>4 DEF Pass!TypeOK, Pass!Charge
<1>8. ASSUME NEW q \in Importer \ {p}
      PROVE  UNCHANGED <<pc[q], cursor[q], pages[q], listed[q], calm[q]>>
  BY OtherImports DEF Pass!Import
<1>9. CalmInv'
  BY <1>1, <1>8 DEF CalmInv, Pass!TypeOK
<1>10. Pass!SettledChargesAreExact'
  BY <1>1 DEF Pass!SettledChargesAreExact
<1>11. CASE page # Pass!Behind(p) /\ pages[p] + 1 < MaxPages
  <2> PICK first \in page : /\ \A j \in page : first <= j
                            /\ cursor' = [cursor EXCEPT ![p] = first] /\ UNCHANGED pc
    BY <1>11
  <2>0. cursor'[p] = first /\ pc'[p] = "list"
    BY <1>1 DEF Pass!TypeOK
  <2>1. first \in Pass!Num /\ first \in Nat \ {0} /\ (cursor[p] = 0 \/ first < cursor[p])
    BY <1>2, <1>3
  <2>2. \A i \in Pass!Num : i < first => listed'[p][i] = 0
    <3> SUFFICES ASSUME NEW i \in Pass!Num, i < first PROVE listed'[p][i] = 0
      OBVIOUS
    <3>1. i \notin page /\ (cursor[p] = 0 \/ i < cursor[p])
      BY <1>2, <2>1
    <3> QED BY <1>1, <1>5, <3>1 DEF ListInv
  <2>3. \A i \in calm[p] : first <= i => listed'[p][i] = Val(i)
    <3> SUFFICES ASSUME NEW i \in calm[p], first <= i, i \notin page PROVE listed'[p][i] = Val(i)
      BY <1>5
    <3>1. i \notin Pass!Behind(p)
      <4>1. i \in Pass!Behind(p) => i < first
        BY DEF Pass!IsPage
      <4>2. ~(i < first)
        <5>1. i \in Nat /\ first \in Nat
          BY <1>2, <2>1
        <5> QED BY <5>1
      <4> QED BY <4>1, <4>2
    <3>2. cursor[p] # 0 /\ cursor[p] <= i
      BY <1>2, <3>1 DEF Pass!Behind, Pass!Charge
    <3> QED BY <1>1, <1>2, <1>5, <3>2 DEF ListInv
  <2>4. first + (pages[p] + 1) * PageLimit <= made + 1
    BY <1>1, <1>11, <2>1, PageReach
  <2>5. ListInv'
    <3> SUFFICES ASSUME NEW q \in Importer, pc'[q] = "list"
                 PROVE  /\ \A i \in Pass!Num : cursor'[q] = 0 \/ i < cursor'[q] => listed'[q][i] = 0
                        /\ \A i \in calm'[q] : cursor'[q] # 0 /\ cursor'[q] <= i => listed'[q][i] = Val(i)'
                        /\ pages'[q] < MaxPages
                        /\ IF cursor'[q] = 0 THEN pages'[q] = 0
                                             ELSE cursor'[q] + pages'[q] * PageLimit <= made' + 1
      BY DEF ListInv
    <3>1. CASE q = p
      BY <1>1, <1>6, <1>11, <2>0, <2>1, <2>2, <2>3, <2>4, <3>1 DEF Val
    <3>2. CASE q # p
      BY <1>1, <1>8, <3>2 DEF ListInv, Val
    <3> QED BY <3>1, <3>2
  <2>6. SumInv'
    BY <1>1, <1>8, <2>0 DEF SumInv, Val, Newest
  <2> QED BY <1>7, <1>9, <1>10, <2>5, <2>6
<1>12. CASE ~(page # Pass!Behind(p) /\ pages[p] + 1 < MaxPages)
  <2>0. pc'[p] = "reset"
    BY <1>12 DEF Pass!TypeOK
  <2>1. ASSUME NEW i \in calm[p], Newest(i) PROVE listed'[p][i] = Val(i)
    <3>1. CASE i \in page
      BY <1>5, <3>1
    <3>2. CASE i \notin page /\ i \notin Pass!Behind(p)
      <4>1. cursor[p] # 0 /\ cursor[p] <= i
        BY <1>2, <3>2 DEF Pass!Behind, Pass!Charge
      <4> QED BY <1>1, <1>2, <1>5, <3>2, <4>1 DEF ListInv
    <3>3. CASE i \notin page /\ i \in Pass!Behind(p)
      <4>1. i \in Nat /\ i + 1 \in Nat /\ page # Pass!Behind(p) /\ \A j \in page : i + 1 <= j
        <5>1. \A j \in page : i < j
          BY <3>3 DEF Pass!IsPage
        <5>2. i \in Nat /\ page \subseteq Nat
          BY <1>2
        <5>3. page # Pass!Behind(p)
          BY <3>3
        <5> QED BY <5>1, <5>2, <5>3
      <4>2. pages[p] + 1 = MaxPages
        BY <1>2, <1>12, <4>1
      <4>3. (i + 1) + (pages[p] + 1) * PageLimit <= made + 1
        BY <1>1, <4>1, PageReach
      <4>4. (i + 1) + MaxPages * PageLimit <= made + 1
        BY <4>2, <4>3
      <4>5. i + PageLimit * MaxPages > made /\ MaxPages * PageLimit = PageLimit * MaxPages
            /\ PageLimit * MaxPages \in Nat
        BY <1>2, <2>1 DEF Newest
      <4> QED BY <1>2, <4>1, <4>4, <4>5
    <3> QED BY <3>1, <3>2, <3>3
  <2>2. SumInv'
    <3> SUFFICES ASSUME NEW q \in Importer, pc'[q] \in {"reset", "set"},
                        NEW i \in calm'[q], Newest(i)'
                 PROVE  listed'[q][i] = Val(i)'
      BY DEF SumInv
    <3>1. CASE q = p
      BY <1>1, <2>1, <3>1 DEF Val, Newest
    <3>2. CASE q # p
      BY <1>1, <1>8, <3>2 DEF SumInv, Val, Newest
    <3> QED BY <3>1, <3>2
  <2>3. ListInv'
    BY <1>1, <1>8, <2>0 DEF ListInv, Val
  <2> QED BY <1>7, <1>9, <1>10, <2>2, <2>3
<1> QED BY <1>11, <1>12

(* The sums are written: a customer's charges become settled if they were  *)
(* calm for the import that writes.                                        *)
LEMMA WriteStep ==
    ASSUME PassInv, NEW p \in Importer, Pass!Reset(p) \/ \E c \in Customer : Pass!SetSpend(p, c)
    PROVE  PassInv'
<1> USE DEF PassInv, Pass!stripe, Pass!history
<1>0. /\ calm[p] \subseteq Pass!Charge /\ Pass!Charge \subseteq Pass!Num /\ settled \subseteq Pass!Charge
      /\ \A i \in Pass!Num : payer[i] \in Customer /\ listed[p][i] \in 0..1
  BY ChargeIsNum DEF Pass!TypeOK
<1>1. /\ pc[p] \in {"reset", "set"} /\ pc'[p] = "set"
      /\ UNCHANGED <<made, payer, good, refunded, events, cursor, pages, listed, calm>>
  BY DEF Pass!Reset, Pass!SetSpend, Pass!TypeOK
<1>2. ASSUME NEW q \in Importer \ {p} PROVE pc'[q] = pc[q]
  BY OtherImports DEF Pass!Import
<1>3. ListInv' /\ SumInv'
  BY <1>1, <1>2 DEF ListInv, SumInv, Val, Newest
<1>4. \A i \in calm[p] : Newest(i) => listed[p][i] = Val(i)
  BY <1>1 DEF SumInv
<1>5. Pass!Charge' = Pass!Charge /\ \A i : Newest(i)' = Newest(i) /\ Val(i)' = Val(i)
  BY <1>1 DEF Pass!Charge, Newest, Val
<1>6. ASSUME sums' \in [Pass!Num -> Nat], left' \in [Importer -> SUBSET Customer],
             pc' \in [Importer -> {"idle", "list", "reset", "set"}],
             settled' \subseteq Pass!Charge, settled' \cap events = {},
             \A i \in settled' : Newest(i) => sums'[i] = Val(i)
      PROVE  PassInv'
  <2>1. Pass!TypeOK'
    BY <1>1, <1>5, <1>6 DEF Pass!TypeOK
  <2>2. CalmInv'
    BY <1>1, <1>2, <1>6 DEF CalmInv
  <2>3. Pass!SettledChargesAreExact'
    BY <1>1, <1>6 DEF Pass!SettledChargesAreExact, Newest, Val
  <2> QED BY <1>1, <1>3, <2>1, <2>2, <2>3
<1>7. CASE Pass!Reset(p)
  <2>1. /\ sums' \in [Pass!Num -> Nat] /\ \A i \in Pass!Num : sums'[i] = 0
        /\ settled' = {i \in calm[p] : payer[i] \notin Pass!Listed(p)}
    BY <1>7 DEF Pass!Reset, Pass!NoSums
  <2>2. \A i \in Pass!Num : payer[i] \notin Pass!Listed(p) => listed[p][i] = 0
    BY <1>0 DEF Pass!Listed
  <2>3. Pass!Listed(p) \subseteq Customer
    BY <1>0 DEF Pass!Listed
  <2>4. left' \in [Importer -> SUBSET Customer] /\ pc' \in [Importer -> {"idle", "list", "reset", "set"}]
    BY <1>7, <2>3 DEF Pass!Reset, Pass!TypeOK
  <2>5. settled' \cap events = {} /\ settled' \subseteq Pass!Charge
    BY <1>0, <2>1 DEF CalmInv
  <2>6. \A i \in settled' : Newest(i) => sums'[i] = Val(i)
    BY <1>0, <1>4, <2>1, <2>2
  <2> QED BY <1>6, <2>1, <2>4, <2>5, <2>6
<1>8. ASSUME NEW c \in Customer, Pass!SetSpend(p, c) PROVE PassInv'
  <2>1. /\ sums' = [i \in Pass!Num |-> IF payer[i] = c THEN listed[p][i] ELSE sums[i]]
        /\ settled' = {i \in Pass!Charge : i \in IF payer[i] = c THEN calm[p] ELSE settled}
        /\ pc' = pc /\ left' = [left EXCEPT ![p] = @ \ {c}]
    BY <1>8 DEF Pass!SetSpend
  <2>2. sums' \in [Pass!Num -> Nat]
    BY <1>0, <2>1 DEF Pass!TypeOK
  <2>3. left' \in [Importer -> SUBSET Customer] /\ pc' \in [Importer -> {"idle", "list", "reset", "set"}]
    BY <2>1 DEF Pass!TypeOK
  <2>4. settled' \cap events = {} /\ settled' \subseteq Pass!Charge
    BY <2>1 DEF CalmInv
  <2>5. \A i \in settled' : Newest(i) => sums'[i] = Val(i)
    <3> SUFFICES ASSUME NEW i \in settled', Newest(i) PROVE sums'[i] = Val(i)
      OBVIOUS
    <3>1. i \in Pass!Num /\ sums'[i] = IF payer[i] = c THEN listed[p][i] ELSE sums[i]
      BY <1>0, <2>1
    <3>2. CASE payer[i] = c
      BY <1>4, <2>1, <3>1, <3>2
    <3>3. CASE payer[i] # c
      BY <2>1, <3>1, <3>3 DEF Pass!SettledChargesAreExact, Newest, Val
    <3> QED BY <3>2, <3>3
  <2> QED BY <1>6, <2>2, <2>3, <2>4, <2>5
<1> QED BY <1>7, <1>8

LEMMA ImportStep == ASSUME PassInv, NEW p \in Importer, Pass!Import(p) PROVE PassInv'
<1> USE DEF PassInv, Pass!stripe, Pass!history
<1>0. ASSUME NEW q \in Importer \ {p}
      PROVE  UNCHANGED <<pc[q], cursor[q], pages[q], listed[q], calm[q]>>
  BY OtherImports
<1>1. CASE Pass!Start(p)
  <2>0. /\ UNCHANGED <<made, payer, good, refunded, events, sums, cursor, pages, listed, left, settled>>
        /\ pc[p] = "idle" /\ pc'[p] = "list" /\ calm'[p] = Pass!Charge \ events
    BY <1>1 DEF Pass!Start, Pass!TypeOK
  <2>1. Pass!TypeOK'
    BY <1>1, <2>0 DEF Pass!Start, Pass!TypeOK, Pass!Charge
  <2>2. cursor[p] = 0 /\ pages[p] = 0 /\ \A i \in Pass!Num : listed[p][i] = 0
    BY <2>0 DEF CalmInv
  <2>3. ListInv'
    <3> SUFFICES ASSUME NEW q \in Importer, pc'[q] = "list"
                 PROVE  /\ \A i \in Pass!Num : cursor'[q] = 0 \/ i < cursor'[q] => listed'[q][i] = 0
                        /\ \A i \in calm'[q] : cursor'[q] # 0 /\ cursor'[q] <= i => listed'[q][i] = Val(i)'
                        /\ pages'[q] < MaxPages
                        /\ IF cursor'[q] = 0 THEN pages'[q] = 0
                                             ELSE cursor'[q] + pages'[q] * PageLimit <= made' + 1
      BY DEF ListInv
    <3>1. CASE q = p
      <4>1. 0 < MaxPages
        BY ChargeIsNum
      <4> QED BY <2>0, <2>2, <3>1, <4>1
    <3>2. CASE q # p
      BY <1>0, <2>0, <3>2 DEF ListInv, Val
    <3> QED BY <3>1, <3>2
  <2>4. SumInv' /\ CalmInv'
    BY <1>0, <2>0 DEF SumInv, CalmInv, Val, Newest
  <2>5. Pass!SettledChargesAreExact'
    BY <2>0 DEF Pass!SettledChargesAreExact
  <2> QED BY <2>0, <2>1, <2>3, <2>4, <2>5
<1>2. CASE Pass!Finish(p) \/ Pass!Fail(p)
  <2>0. Pass!End(p)
    BY <1>2 DEF Pass!Finish, Pass!Fail
  <2>1. /\ UNCHANGED <<made, payer, good, refunded, events, sums, settled>>
        /\ pc'[p] = "idle" /\ cursor'[p] = 0 /\ pages'[p] = 0
        /\ listed'[p] = Pass!NoSums /\ calm'[p] = {}
    BY <2>0 DEF Pass!End, Pass!TypeOK
  <2>2. Pass!TypeOK'
    <3>1. Pass!NoSums \in [Pass!Num -> 0..1] /\ 0 \in 0..made /\ 0 \in 0..MaxPages
      BY ChargeIsNum DEF Pass!NoSums
    <3> QED BY <2>0, <2>1, <3>1 DEF Pass!End, Pass!TypeOK, Pass!Charge
  <2>3. ListInv' /\ SumInv'
    BY <1>0, <2>1 DEF ListInv, SumInv, Val, Newest
  <2>4. CalmInv'
    BY <1>0, <2>1 DEF CalmInv, Pass!NoSums
  <2>5. Pass!SettledChargesAreExact'
    BY <2>1 DEF Pass!SettledChargesAreExact
  <2> QED BY <2>1, <2>2, <2>3, <2>4, <2>5
<1> QED BY <1>1, <1>2, PageStep, WriteStep DEF Pass!Import

LEMMA PassStep == PassInv /\ [Pass!Next]_(Pass!vars) => PassInv'
<1> SUFFICES ASSUME PassInv, [Pass!Next]_(Pass!vars) PROVE PassInv'
  OBVIOUS
<1>1. CASE UNCHANGED Pass!vars
  BY <1>1 DEF Pass!vars, Pass!stripe, Pass!import, Pass!history, PassInv, Pass!TypeOK, ListInv,
     SumInv, CalmInv, Pass!SettledChargesAreExact, Pass!Charge, Val, Newest
<1> QED BY <1>1, PassOutsideStep, ApplyStep, ImportStep DEF Pass!Next

THEOREM PassInvariance ==
    ASSUME Pass!ImportAssumption PROVE Pass!Spec => []PassInv
<1> QED BY PassInit, PassStep, PTL DEF Pass!Spec

(* The variables keep their types, and no pass over the pages adds a       *)
(* charge up twice, however many imports overlap.                          *)
THEOREM PassTypeCorrect ==
    ASSUME Pass!ImportAssumption PROVE Pass!Spec => []Pass!TypeOK
<1>1. PassInv => Pass!TypeOK
  BY DEF PassInv
<1> QED BY <1>1, PassInvariance, PTL

(* With any number of imports that overlap, fail half-way or are cut off,  *)
(* every charge that was settled for the import that wrote its customer's  *)
(* sum last, and is among the newest that the pages hold, is in that sum   *)
(* exactly as it counts.                                                   *)
THEOREM ImportIsExact ==
    ASSUME Pass!ImportAssumption PROVE Pass!Spec => []Pass!SettledChargesAreExact
<1>1. PassInv => Pass!SettledChargesAreExact
  BY DEF PassInv
<1> QED BY <1>1, PassInvariance, PTL
=============================================================================
