--------------------------- MODULE ListUploadProofs ---------------------------
(* The upload replaces the list as a whole, for any number of users, calls *)
(* and chunks, and any loss and delay of requests.                         *)
EXTENDS ListUpload, TLAPS

(* What is known of a request under way.  Of each kind but the chunk a     *)
(* call has one at most; a chunk that comes late finds its call failed or  *)
(* cancelling.                                                             *)
WireOK(r) ==
    /\ call[r.by] # "none"
    /\ r.op = "chunk" \/ op[r.by] = r.op
    /\ r.op = "put" => r.users = want[r.by]
    /\ r.op \in {"start", "commit", "cancel"} => r.users = {}
    /\ r.op \in {"put", "commit"} => r.by \notin taken
    /\ r.op = "start" => session # r.by
    /\ r.op = "chunk" =>
         /\ op[r.by] \in {"chunk", "cancel"} /\ r.users \subseteq want[r.by]
         /\ call[r.by] = "open" /\ op[r.by] = "chunk" => r.users = part[r.by]
    /\ call[r.by] = "open" /\ op[r.by] = r.op => answer[r.by] = "none"
    /\ call[r.by] = "failed" => r.op # "start" \/ answer[r.by] = "none"

(* The session of a call holds users of its list only, all of them that    *)
(* were sent and acknowledged, and when the commit is sent the whole list. *)
SessionOK(c) ==
    /\ call[c] # "none" /\ op[c] # "put"
    /\ got \subseteq want[c]
    /\ call[c] = "open" /\ op[c] = "chunk" =>
         want[c] \subseteq got \cup rest[c] \cup (IF answer[c] = "ok" THEN {} ELSE part[c])
    /\ op[c] = "commit" => got = want[c]
    /\ op[c] = "start" => answer[c] # "refused"
    /\ op[c] \in {"cancel", "commit"} => answer[c] # "ok"

CallOK(c) ==
    /\ rest[c] \subseteq want[c] /\ part[c] \subseteq want[c]
    /\ call[c] = "open" /\ op[c] = "start" => rest[c] = want[c]
    /\ call[c] = "open" /\ op[c] \in {"put", "commit"} /\ answer[c] = "ok" => c \in taken
    /\ c \in taken => call[c] # "none" /\ op[c] \in {"put", "commit"}
    /\ call[c] = "failed" /\ op[c] = "chunk" => answer[c] = "none"
    /\ call[c] = "none" => part[c] = {}
    /\ call[c] = "ok" => c \in taken

IInv ==
    /\ TypeOK
    /\ \A r \in wire : WireOK(r)
    /\ session \in Call => SessionOK(session)
    /\ \A c \in Call : CallOK(c)

-----------------------------------------------------------------------------
(* A call that waits for an answer has one request under way at most.      *)
LEMMA OneRequest ==
    ASSUME TypeOK, NEW r \in wire, NEW s \in wire, WireOK(r), WireOK(s),
           s.by = r.by, s.op = r.op, s.op # "chunk" \/ (call[s.by] = "open" /\ op[s.by] = "chunk")
    PROVE  s = r
<1>1. r \in Request /\ s \in Request
  BY DEF TypeOK
<1>2. s.users = r.users
  BY <1>1 DEF WireOK, Request, Op
<1> QED BY <1>1, <1>2 DEF Request

LEMMA InvInit == Init => IInv
<1> SUFFICES ASSUME Init PROVE IInv
  OBVIOUS
<1> USE DEF Init
<1>1. TypeOK
  BY DEF TypeOK, Op
<1>2. session \notin Call
  BY UploadAssumption
<1>3. \A c \in Call : CallOK(c)
  BY DEF CallOK
<1> QED BY <1>1, <1>2, <1>3 DEF IInv

(* The client.                                                             *)
LEMMA UploadStep == ASSUME IInv, NEW c \in Call, Upload(c) PROVE IInv'
<1> PICK users \in SUBSET Member :
       /\ want' = [want EXCEPT ![c] = users]
       /\ rest' = [rest EXCEPT ![c] = users]
       /\ IF Cardinality(users) <= PutMax THEN Send(c, "put", users) ELSE Send(c, "start", {})
  BY DEF Upload
<1> USE DEF Upload, server
<1>1. PICK o \in {"put", "start"}, sent \in SUBSET Member :
        Send(c, o, sent) /\ (o = "put" => sent = users) /\ (o = "start" => sent = {})
  OBVIOUS
<1>2. TypeOK'
  BY <1>1 DEF IInv, TypeOK, Send, Request, Op, CallOK
<1>3. ASSUME NEW r \in wire' PROVE WireOK(r)'
  <2>1. CASE r \in wire
    <3>1. r.by # c /\ r.by \in Call
      BY <2>1 DEF IInv, TypeOK, WireOK, Request
    <3> QED BY <1>1, <2>1, <3>1 DEF IInv, TypeOK, WireOK, Send
  <2>2. CASE r = [by |-> c, op |-> o, users |-> sent]
    <3>1. c \notin taken /\ session # c
      BY DEF IInv, CallOK, SessionOK
    <3> QED BY <1>1, <2>2, <3>1 DEF IInv, TypeOK, WireOK, Send
  <2> QED BY <1>1, <2>1, <2>2 DEF Send
<1>4. ASSUME session' \in Call PROVE SessionOK(session)'
  <2>1. session # c /\ session \in Call
    BY <1>4 DEF IInv, SessionOK
  <2> QED BY <1>1, <2>1 DEF IInv, TypeOK, SessionOK, Send
<1>5. ASSUME NEW d \in Call PROVE CallOK(d)'
  BY <1>1 DEF IInv, TypeOK, CallOK, Send
<1> QED BY <1>2, <1>3, <1>4, <1>5 DEF IInv

(* A call that returns sends nothing.                                      *)
LEMMA ReturnStep ==
    ASSUME IInv, NEW c \in Call, call[c] = "open", NEW result \in {"ok", "failed"},
           Return(c, result), UNCHANGED <<server, wire>>,
           answer' = answer \/ (result = "failed" /\ answer' = [answer EXCEPT ![c] = "none"]),
           result = "failed" /\ op[c] = "chunk" => answer'[c] = "none",
           result = "ok" => c \in taken
    PROVE  IInv'
<1> USE DEF Return, server
<1>1. TypeOK'
  BY DEF IInv, TypeOK
<1>2. ASSUME NEW r \in wire' PROVE WireOK(r)'
  <2>1. r \in wire /\ r.by \in Call /\ WireOK(r)
    BY DEF IInv, TypeOK, Request
  <2>2. answer'[r.by] = answer[r.by] \/ answer'[r.by] = "none"
    BY <2>1 DEF IInv, TypeOK
  <2>3. call'[r.by] = "failed" => r.op # "start" \/ answer'[r.by] = "none"
    BY <2>1, <2>2 DEF IInv, TypeOK, WireOK
  <2> QED BY <2>1, <2>2, <2>3 DEF IInv, TypeOK, WireOK
<1>3. ASSUME session' \in Call PROVE SessionOK(session)'
  BY <1>3 DEF IInv, TypeOK, SessionOK
<1>4. ASSUME NEW d \in Call PROVE CallOK(d)'
  BY DEF IInv, TypeOK, CallOK
<1> QED BY <1>1, <1>2, <1>3, <1>4 DEF IInv

LEMMA ChunkStep ==
    ASSUME IInv, NEW c \in Call, Waiting(c, {"start", "chunk"}), answer[c] = "ok",
           NEW users \in SUBSET rest[c],
           rest' = [rest EXCEPT ![c] = @ \ users], part' = [part EXCEPT ![c] = users],
           Send(c, "chunk", users), UNCHANGED <<server, call, want>>
    PROVE  IInv'
<1> USE DEF Waiting, server
<1>0. users \subseteq want[c] /\ users \subseteq Member /\ want[c] \in SUBSET Member
  BY DEF IInv, TypeOK, CallOK
<1>1. TypeOK'
  BY <1>0 DEF IInv, TypeOK, Send, Request, Op
<1>2. ASSUME NEW r \in wire' PROVE WireOK(r)'
  <2>1. CASE r \in wire /\ r.by # c
    <3>1. r.by \in Call /\ WireOK(r)
      BY <2>1 DEF IInv, TypeOK, Request
    <3> QED BY <2>1, <3>1 DEF IInv, TypeOK, WireOK, Send
  <2>2. CASE r \in wire /\ r.by = c
    <3>1. WireOK(r) /\ r \in Request
      BY <2>2 DEF IInv, TypeOK
    <3> QED BY <2>2, <3>1 DEF WireOK, Request, Op
  <2>3. CASE r = [by |-> c, op |-> "chunk", users |-> users]
    BY <1>0, <2>3 DEF IInv, TypeOK, WireOK, Send
  <2> QED BY <2>1, <2>2, <2>3 DEF Send
<1>3. ASSUME session' \in Call PROVE SessionOK(session)'
  <2>1. CASE session = c
    <3>1. want[c] \subseteq got \cup rest[c]
      BY <1>3, <2>1 DEF IInv, SessionOK, CallOK
    <3> QED BY <1>3, <2>1, <3>1 DEF IInv, TypeOK, SessionOK, Send
  <2> QED BY <1>3, <2>1 DEF IInv, TypeOK, SessionOK, Send
<1>4. ASSUME NEW d \in Call PROVE CallOK(d)'
  <2>1. CASE d = c
    BY <1>0, <2>1 DEF IInv, TypeOK, CallOK, Send
  <2> QED BY <2>1 DEF IInv, TypeOK, CallOK, Send
<1> QED BY <1>1, <1>2, <1>3, <1>4 DEF IInv

(* The commit is sent when every chunk was acknowledged, the cancel when   *)
(* one was not.                                                            *)
LEMMA ClosingStep ==
    ASSUME IInv, NEW c \in Call, NEW o \in {"commit", "cancel"},
           o = "commit" => /\ Waiting(c, {"start", "chunk"}) /\ answer[c] = "ok" /\ rest[c] = {},
           o = "cancel" => Waiting(c, {"chunk"}),
           Send(c, o, {}), UNCHANGED <<server, call, want, rest, part>>
    PROVE  IInv'
<1> USE DEF Waiting, server
<1>1. TypeOK'
  BY DEF IInv, TypeOK, Send, Request, Op
<1>2. ASSUME NEW r \in wire' PROVE WireOK(r)'
  <2>1. CASE r \in wire /\ r.by # c
    <3>1. r.by \in Call /\ WireOK(r)
      BY <2>1 DEF IInv, TypeOK, Request
    <3> QED BY <2>1, <3>1 DEF IInv, TypeOK, WireOK, Send
  <2>2. CASE r \in wire /\ r.by = c
    <3>1. WireOK(r) /\ r \in Request
      BY <2>2 DEF IInv, TypeOK
    <3>2. o = "cancel" /\ r.op = "chunk"
      BY <2>2, <3>1 DEF WireOK, Request, Op
    <3> QED BY <2>2, <3>1, <3>2 DEF IInv, TypeOK, WireOK, Send
  <2>3. CASE r = [by |-> c, op |-> o, users |-> {}]
    <3>1. o = "commit" => c \notin taken
      BY DEF IInv, CallOK
    <3> QED BY <2>3, <3>1 DEF IInv, TypeOK, WireOK, Send
  <2> QED BY <2>1, <2>2, <2>3 DEF Send
<1>3. ASSUME session' \in Call PROVE SessionOK(session)'
  <2>1. CASE session = c
    <3>1. o = "commit" => got = want[c]
      BY <1>3, <2>1 DEF IInv, SessionOK, CallOK
    <3> QED BY <1>3, <2>1, <3>1 DEF IInv, TypeOK, SessionOK, Send
  <2> QED BY <1>3, <2>1 DEF IInv, TypeOK, SessionOK, Send
<1>4. ASSUME NEW d \in Call PROVE CallOK(d)'
  BY DEF IInv, TypeOK, CallOK, Send
<1> QED BY <1>1, <1>2, <1>3, <1>4 DEF IInv

LEMMA ClientStep == ASSUME IInv, NEW c \in Call, Client(c) PROVE IInv'
<1>1. CASE Proceed(c) /\ op[c] \in {"put", "commit"}
  <2>1. call[c] = "open" /\ Return(c, "ok") /\ UNCHANGED <<server, wire, answer>>
    BY <1>1 DEF Proceed, Waiting
  <2>2. UNCHANGED <<server, wire>> /\ answer' = answer
    BY <2>1
  <2>3. c \in taken
    BY <1>1, <2>1 DEF IInv, CallOK, Proceed
  <2> QED BY <2>1, <2>2, <2>3, ReturnStep
<1>2. CASE Proceed(c) /\ op[c] \in {"start", "chunk"} /\ rest[c] # {}
  <2>1. PICK users \in SUBSET rest[c] :
          /\ rest' = [rest EXCEPT ![c] = @ \ users] /\ part' = [part EXCEPT ![c] = users]
          /\ Send(c, "chunk", users)
    BY <1>2 DEF Proceed, SendNext, Waiting
  <2>2. UNCHANGED <<server, call, want>> /\ Waiting(c, {"start", "chunk"}) /\ answer[c] = "ok"
    BY <1>2 DEF Proceed, Waiting
  <2> QED BY <2>1, <2>2, ChunkStep
<1>3. CASE Proceed(c) /\ op[c] \in {"start", "chunk"} /\ rest[c] = {}
  <2>1. UNCHANGED <<server, call, want, rest, part>> /\ Waiting(c, {"start", "chunk"})
    BY <1>3 DEF Proceed, Waiting, SendNext
  <2>2. Send(c, "commit", {}) /\ answer[c] = "ok"
    BY <1>3 DEF Proceed, Waiting, SendNext
  <2> QED BY <1>3, <2>1, <2>2, ClosingStep
<1>4. CASE (BreakOff(c) \/ Cancelled(c)) /\ op[c] # "chunk"
  <2>1. call[c] = "open" /\ Return(c, "failed") /\ UNCHANGED <<server, wire, answer>>
    BY <1>4 DEF BreakOff, Cancelled, Failing, Waiting
  <2>2. UNCHANGED <<server, wire>> /\ answer' = answer
    BY <2>1
  <2> QED BY <1>4, <2>1, <2>2, ReturnStep
<1>5. CASE BreakOff(c) /\ op[c] = "chunk"
  <2>1. UNCHANGED <<server, call, want, rest, part>> /\ Waiting(c, {"chunk"}) /\ Send(c, "cancel", {})
    BY <1>5 DEF BreakOff, Failing, Waiting
  <2> QED BY <2>1, ClosingStep
<1> QED
  BY <1>1, <1>2, <1>3, <1>4, <1>5 DEF Client, Proceed, Cancelled, Waiting

LEMMA DieStep == ASSUME IInv, NEW c \in Call, Die(c) PROVE IInv'
<1>1. /\ call[c] = "open" /\ Return(c, "failed") /\ UNCHANGED <<server, wire>>
      /\ answer' = [answer EXCEPT ![c] = "none"] /\ answer'[c] = "none"
  BY DEF Die, IInv, TypeOK
<1> QED BY <1>1, ReturnStep

-----------------------------------------------------------------------------
(* RoleLogic takes a request from the wire: what is known of the others,   *)
(* and of the calls, holds as before.                                      *)
LEMMA ReplyFacts ==
    ASSUME IInv, NEW r \in wire, NEW a \in {"ok", "refused"}, Reply(r, a)
    PROVE  /\ answer' \in [Call -> {"none", "ok", "refused"}]
           /\ r.by \in Call /\ r.users \subseteq Member /\ r.op \in Op /\ WireOK(r)
           /\ \A d \in Call : answer'[d] # answer[d] =>
                /\ d = r.by /\ answer'[d] = a /\ answer[d] = "none"
                /\ call[d] = "open" /\ op[d] = r.op
           /\ call[r.by] = "open" /\ op[r.by] = r.op => answer'[r.by] = a
BY DEF IInv, TypeOK, Reply, Request, WireOK

LEMMA WireStep ==
    ASSUME IInv, NEW r \in wire, NEW a \in {"ok", "refused"}, Reply(r, a),
           wire' = wire \ {r}, UNCHANGED client,
           taken' = taken \/ (taken' = taken \cup {r.by} /\ r.op \in {"put", "commit"}),
           session' \in {session, NoSession} \/ (session' = r.by /\ r.op = "start")
    PROVE  \A s \in wire' : WireOK(s)'
<1> SUFFICES ASSUME NEW s \in wire' PROVE WireOK(s)'
  OBVIOUS
<1> USE DEF client
<1>1. s \in wire /\ s # r /\ WireOK(s) /\ s.by \in Call /\ s.op \in Op
  BY DEF IInv, TypeOK, Request
<1>2. r.by \in Call /\ WireOK(r)
  BY ReplyFacts
<1>3. s.by = r.by /\ s.op = r.op => s.op = "chunk" /\ ~(call[s.by] = "open" /\ op[s.by] = "chunk")
  BY <1>1, <1>2, OneRequest DEF IInv
<1>4. answer'[s.by] # answer[s.by] => s.by = r.by /\ call[s.by] = "open" /\ op[s.by] = r.op
  BY <1>1, ReplyFacts
<1>5. call[s.by] = "open" /\ op[s.by] = s.op => answer'[s.by] = "none"
  BY <1>1, <1>3, <1>4 DEF WireOK
<1>6. call[s.by] = "failed" => s.op # "start" \/ answer'[s.by] = "none"
  BY <1>1, <1>4 DEF WireOK
<1>7. s.op \in {"put", "commit"} => s.by \notin taken'
  BY <1>1, <1>2, <1>3 DEF WireOK
<1>8. s.op = "start" => session' # s.by
  BY <1>1, <1>2, <1>3, UploadAssumption DEF WireOK
<1> QED BY <1>1, <1>5, <1>6, <1>7, <1>8 DEF WireOK

LEMMA CallStep ==
    ASSUME IInv, NEW r \in wire, NEW a \in {"ok", "refused"}, Reply(r, a), UNCHANGED client,
           taken' = taken \/ (taken' = taken \cup {r.by} /\ r.op \in {"put", "commit"}),
           a = "ok" /\ r.op \in {"put", "commit"} => r.by \in taken'
    PROVE  \A c \in Call : CallOK(c)'
<1> SUFFICES ASSUME NEW c \in Call PROVE CallOK(c)'
  OBVIOUS
<1> USE DEF client
<1>1. CallOK(c) /\ WireOK(r) /\ r.by \in Call
  BY ReplyFacts DEF IInv
<1>2. answer'[c] # answer[c] => c = r.by /\ answer'[c] = a /\ call[c] = "open" /\ op[c] = r.op
  BY ReplyFacts
<1>3. call[c] = "open" /\ op[c] \in {"put", "commit"} /\ answer'[c] = "ok" => c \in taken'
  BY <1>1, <1>2 DEF CallOK
<1>4. c \in taken' => call[c] # "none" /\ op[c] \in {"put", "commit"}
  BY <1>1 DEF CallOK, WireOK
<1>5. call[c] = "failed" /\ op[c] = "chunk" => answer'[c] = "none"
  BY <1>1, <1>2 DEF CallOK
<1> QED BY <1>1, <1>3, <1>4, <1>5 DEF CallOK

LEMMA ProcessStep == ASSUME IInv, NEW r \in wire, Process(r) PROVE IInv'
<1> USE DEF Process
<1>1. CASE Refuse(r)
  <2>1. Reply(r, "refused") /\ UNCHANGED server /\ UNCHANGED client /\ wire' = wire \ {r}
    BY <1>1 DEF Refuse
  <2>2. TypeOK'
    BY <2>1, ReplyFacts DEF IInv, TypeOK, server, client
  <2>3. \A s \in wire' : WireOK(s)'
    BY <2>1, WireStep DEF server
  <2>4. \A c \in Call : CallOK(c)'
    BY <2>1, CallStep DEF server
  <2>5. ASSUME session' \in Call PROVE SessionOK(session)'
    <3>1. session \in Call /\ SessionOK(session)
      BY <2>1, <2>5 DEF IInv, server
    <3>2. answer'[session] # answer[session] =>
            /\ session = r.by /\ answer'[session] = "refused" /\ answer[session] = "none"
            /\ call[session] = "open" /\ op[session] = r.op
      BY <2>1, <3>1, ReplyFacts
    <3>3. WireOK(r)
      BY <2>1, ReplyFacts
    <3> QED BY <2>1, <3>1, <3>2, <3>3 DEF SessionOK, WireOK, server, client
  <2> QED BY <2>2, <2>3, <2>4, <2>5 DEF IInv
<1>2. CASE Replace(r)
  <2>1. Reply(r, "ok") /\ UNCHANGED <<session, got>> /\ UNCHANGED client /\ wire' = wire \ {r}
    BY <1>2 DEF Replace
  <2>2. TypeOK'
    BY <1>2, <2>1, ReplyFacts DEF IInv, TypeOK, Replace, client
  <2>3. \A s \in wire' : WireOK(s)'
    BY <1>2, <2>1, WireStep DEF Replace
  <2>4. \A c \in Call : CallOK(c)'
    BY <1>2, <2>1, CallStep DEF Replace
  <2>5. ASSUME session' \in Call PROVE SessionOK(session)'
    <3>1. session \in Call /\ SessionOK(session)
      BY <2>1, <2>5 DEF IInv
    <3>2. answer'[session] = answer[session]
      BY <1>2, <2>1, <3>1, ReplyFacts DEF Replace, SessionOK
    <3> QED BY <2>1, <3>1, <3>2 DEF SessionOK, client
  <2> QED BY <2>2, <2>3, <2>4, <2>5 DEF IInv
<1>3. CASE Start(r)
  <2>1. Reply(r, "ok") /\ UNCHANGED <<list, taken>> /\ UNCHANGED client /\ wire' = wire \ {r}
    BY <1>3 DEF Start
  <2>2. TypeOK'
    BY <1>3, <2>1, ReplyFacts DEF IInv, TypeOK, Start, client
  <2>3. \A s \in wire' : WireOK(s)'
    BY <1>3, <2>1, WireStep DEF Start
  <2>4. \A c \in Call : CallOK(c)'
    BY <1>3, <2>1, CallStep DEF Start
  <2>5. SessionOK(session)'
    <3>1. r.by \in Call /\ WireOK(r) /\ r.op = "start" /\ session' = r.by /\ got' = {}
      BY <1>3, <2>1, ReplyFacts DEF Start
    <3>2. op[r.by] = "start" /\ call[r.by] # "none" /\ want[r.by] \in SUBSET Member
      BY <3>1 DEF WireOK, IInv, TypeOK
    <3>3. answer'[r.by] # "refused"
      BY <2>1, <3>1, <3>2, ReplyFacts DEF WireOK, IInv, TypeOK, CallOK
    <3> QED BY <2>1, <3>1, <3>2, <3>3 DEF SessionOK, client
  <2> QED BY <2>2, <2>3, <2>4, <2>5 DEF IInv
<1>4. CASE Append(r)
  <2>1. Reply(r, "ok") /\ UNCHANGED <<list, session, taken>> /\ UNCHANGED client /\ wire' = wire \ {r}
    BY <1>4 DEF Append
  <2>2. TypeOK'
    BY <1>4, <2>1, ReplyFacts DEF IInv, TypeOK, Append, client
  <2>3. \A s \in wire' : WireOK(s)'
    BY <1>4, <2>1, WireStep DEF Append
  <2>4. \A c \in Call : CallOK(c)'
    BY <1>4, <2>1, CallStep DEF Append
  <2>5. SessionOK(session)'
    <3>1. r.by \in Call /\ WireOK(r) /\ r.op = "chunk" /\ session = r.by /\ got' = got \cup r.users
      BY <1>4, <2>1, ReplyFacts DEF Append
    <3>2. SessionOK(r.by)
      BY <3>1 DEF IInv
    <3>3. op[r.by] \in {"chunk", "cancel"} /\ r.users \subseteq want[r.by]
      BY <3>1 DEF WireOK
    <3>4. op[r.by] = "cancel" => answer'[r.by] = answer[r.by]
      BY <2>1, <3>1, ReplyFacts
    <3> QED BY <2>1, <3>1, <3>2, <3>3, <3>4 DEF SessionOK, client, WireOK
  <2> QED BY <2>2, <2>3, <2>4, <2>5 DEF IInv
<1>5. CASE Commit(r) \/ Cancel(r)
  <2>1. Reply(r, "ok") /\ session' = NoSession /\ got' = got /\ UNCHANGED client /\ wire' = wire \ {r}
    BY <1>5 DEF Commit, Cancel
  <2>2. taken' = taken \/ (taken' = taken \cup {r.by} /\ r.op \in {"put", "commit"})
    BY <1>5 DEF Commit, Cancel
  <2>3. TypeOK'
    BY <1>5, <2>1, ReplyFacts DEF IInv, TypeOK, Commit, Cancel, client
  <2>4. \A s \in wire' : WireOK(s)'
    BY <2>1, <2>2, WireStep
  <2>5. \A c \in Call : CallOK(c)'
    <3>1. r.op \in {"put", "commit"} => r.by \in taken'
      BY <1>5 DEF Commit, Cancel
    <3> QED BY <2>1, <2>2, <3>1, CallStep
  <2> QED BY <2>1, <2>3, <2>4, <2>5, UploadAssumption DEF IInv
<1> QED BY <1>1, <1>2, <1>3, <1>4, <1>5

LEMMA InvStep == IInv /\ [Next]_vars => IInv'
<1> SUFFICES ASSUME IInv, [Next]_vars PROVE IInv'
  OBVIOUS
<1>1. ASSUME NEW c \in Call, Upload(c) \/ Client(c) \/ Die(c) PROVE IInv'
  BY <1>1, UploadStep, ClientStep, DieStep
<1>2. ASSUME NEW r \in wire, Process(r) PROVE IInv'
  BY <1>2, ProcessStep
<1>3. ASSUME NEW r \in wire, Lose(r) PROVE IInv'
  <2>1. TypeOK'
    BY <1>3 DEF IInv, TypeOK, Lose, server, client
  <2> QED BY <1>3, <2>1 DEF IInv, Lose, server, client, WireOK, SessionOK, CallOK
<1>4. CASE Expire
  <2>1. TypeOK'
    BY <1>4 DEF IInv, TypeOK, Expire, client
  <2>2. session' \notin Call
    BY <1>4, UploadAssumption DEF Expire
  <2>3. \A r \in wire' : WireOK(r)'
    BY <1>4, UploadAssumption DEF IInv, TypeOK, Request, Expire, client, WireOK
  <2> QED BY <1>4, <2>1, <2>2, <2>3 DEF IInv, Expire, client, CallOK
<1>5. CASE UNCHANGED vars
  BY <1>5 DEF IInv, TypeOK, vars, server, client, WireOK, SessionOK, CallOK
<1> QED BY <1>1, <1>2, <1>3, <1>4, <1>5 DEF Next

-----------------------------------------------------------------------------
THEOREM Invariance == Spec => []IInv
<1> QED BY InvInit, InvStep, PTL DEF Spec

(* The variables keep their types, and no user is sent twice by one call.  *)
THEOREM TypeCorrect == Spec => []TypeOK
<1>1. IInv => TypeOK
  BY DEF IInv
<1> QED BY <1>1, Invariance, PTL

(* A session stays open behind a failed call only where the call was cut   *)
(* off, or was refused the cancel or the commit.                           *)
THEOREM CleanUp == Spec => []SessionsAreCleanedUp
<1>1. IInv => SessionsAreCleanedUp
  <2> SUFFICES ASSUME IInv, NEW c \in Call, session = c, call[c] = "failed"
               PROVE  \/ answer[c] = "none"
                      \/ answer[c] = "ok" /\ op[c] = "start"
                      \/ answer[c] = "refused" /\ op[c] \in {"cancel", "commit"}
    BY DEF SessionsAreCleanedUp
  <2>1. SessionOK(c) /\ CallOK(c) /\ op[c] \in Op /\ answer[c] \in {"none", "ok", "refused"}
    BY DEF IInv, TypeOK
  <2> QED BY <2>1 DEF SessionOK, CallOK, Op
<1> QED BY <1>1, Invariance, PTL

(* Every step of an upload is a step of ListReplace or changes nothing     *)
(* that it sees.                                                           *)
LEMMA Refinement == IInv /\ [Next]_vars => [Abstract!Next]_(Abstract!vars)
<1> SUFFICES ASSUME IInv, [Next]_vars PROVE Abstract!Next \/ UNCHANGED Abstract!vars
  OBVIOUS
<1> USE DEF Abstract!vars
<1>1. ASSUME NEW c \in Call, Upload(c) PROVE Abstract!Begin(c)
  BY <1>1 DEF Upload, server, Abstract!Begin
<1>2. ASSUME NEW c \in Call, Client(c) \/ Die(c) PROVE Abstract!Return(c) \/ UNCHANGED Abstract!vars
  <2>1. CallOK(c)
    BY DEF IInv
  <2>2. CASE Proceed(c)
    BY <2>1, <2>2 DEF Proceed, Waiting, Return, server, Abstract!Return, CallOK
  <2>3. CASE BreakOff(c) \/ Cancelled(c) \/ Die(c)
    BY <2>3 DEF BreakOff, Cancelled, Die, Failing, Waiting, Return, server, Abstract!Return
  <2> QED BY <1>2, <2>2, <2>3 DEF Client
<1>3. ASSUME NEW r \in wire, Process(r)
      PROVE  (Abstract!TakeOver(r.by) /\ r.by \in Call) \/ UNCHANGED Abstract!vars
  <2>1. r.by \in Call /\ WireOK(r)
    BY DEF IInv, TypeOK, Request
  <2>2. CASE Replace(r) \/ Commit(r)
    <3>1. r.by \notin taken /\ taken' = taken \cup {r.by} /\ UNCHANGED <<want, call>>
      BY <1>3, <2>1, <2>2 DEF Process, Replace, Commit, WireOK, client
    <3>2. list' = want[r.by]
      BY <2>1, <2>2 DEF Replace, Commit, WireOK, IInv, SessionOK
    <3>3. call[r.by] \in {"open", "failed"}
      <4>1. call[r.by] # "ok"
        BY <2>1, <3>1, <2>2 DEF IInv, WireOK, CallOK, Replace, Commit
      <4> QED BY <2>1, <4>1 DEF WireOK, IInv, TypeOK
    <3> QED BY <2>1, <3>1, <3>2, <3>3 DEF Abstract!TakeOver
  <2>3. CASE Start(r) \/ Append(r) \/ Cancel(r) \/ Refuse(r)
    BY <1>3, <2>3 DEF Process, Start, Append, Cancel, Refuse, server, client
  <2> QED BY <1>3, <2>2, <2>3 DEF Process
<1>4. CASE Expire \/ (\E r \in wire : Lose(r)) \/ UNCHANGED vars
  BY <1>4 DEF Expire, Lose, vars, server, client
<1> QED BY <1>1, <1>2, <1>3, <1>4 DEF Next, Abstract!Next, IInv, TypeOK, Request

(* For any number of users, calls and chunks, and any loss and delay of    *)
(* requests, upload_users replaces the list as a whole and at most once.   *)
THEOREM UploadImplementsListReplace == Spec => ImplementsListReplace
<1>1. Init => Abstract!Init
  BY DEF Init, Abstract!Init
<1> QED BY <1>1, Invariance, Refinement, PTL DEF Spec, ImplementsListReplace, Abstract!Spec
=============================================================================
