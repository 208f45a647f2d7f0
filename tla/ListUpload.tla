------------------------------- MODULE ListUpload -------------------------------
(***************************************************************************)
(* upload_users of services/rolelogic.rs, for one role link: a short list  *)
(* goes in one PUT, a long one into an upload session at RoleLogic, chunk  *)
(* by chunk, which a commit turns into the list.  Every request can be     *)
(* lost, and can arrive after the client's timeout, when the caller has    *)
(* already gone on without an answer.                                      *)
(*                                                                         *)
(* RoleLogic is external: that a link has one session at a time is the     *)
(* "Upload already in progress" of the client's tests, that a commit swaps *)
(* the list at once the comment of commit_upload.                          *)
(***************************************************************************)
EXTENDS Integers, FiniteSets

CONSTANTS
    Member,    \* Discord users
    Call,      \* calls of upload_users for this link
    PutMax,    \* PUT_MAX_USERS
    ChunkSize, \* CHUNK_SIZE
    NoSession  \* no upload session is open

ASSUME UploadAssumption ==
    /\ IsFiniteSet(Member) /\ NoSession \notin Call
    /\ PutMax \in Nat /\ ChunkSize \in Nat \ {0}

VARIABLES
    list,    \* the link's user list at RoleLogic
    session, \* the call whose upload session is open
    got,     \* the users of its chunks
    wire,    \* requests under way to RoleLogic
    call,    \* call[c]: "none", "open", "ok", "failed"
    want,    \* want[c]: user_ids
    rest,    \* rest[c]: users of chunks not yet sent
    part,    \* part[c]: the chunk sent last
    op,      \* op[c]: the request sent last
    answer,  \* answer[c]: to that request: "none" yet, "ok", "refused"
    taken    \* history: calls whose list RoleLogic has taken over

server == <<list, session, got, taken>>
client == <<call, want, rest, part, op>>
vars   == <<server, client, wire, answer>>

Op == {"put", "start", "chunk", "commit", "cancel"}
Request == [by : Call, op : Op, users : SUBSET Member]

Init ==
    /\ list \in SUBSET Member
    /\ session = NoSession /\ got = {} /\ taken = {}
    /\ wire = {}
    /\ call = [c \in Call |-> "none"]
    /\ want = [c \in Call |-> {}]
    /\ rest = [c \in Call |-> {}]
    /\ part = [c \in Call |-> {}]
    /\ op = [c \in Call |-> "put"]
    /\ answer = [c \in Call |-> "none"]

-----------------------------------------------------------------------------
(* The client.                                                             *)

Send(c, o, users) ==
    /\ wire' = wire \cup {[by |-> c, op |-> o, users |-> users]}
    /\ op' = [op EXCEPT ![c] = o]
    /\ answer' = [answer EXCEPT ![c] = "none"]

(* Mutant: the same chunks are sent over and over.                         *)
SendNextAgain(c) ==
    \/ /\ rest[c] # {}
       /\ \E users \in SUBSET rest[c] :
            /\ users # {} /\ Cardinality(users) <= ChunkSize
            /\ part' = [part EXCEPT ![c] = users]
            /\ Send(c, "chunk", users)
       /\ UNCHANGED rest
    \/ /\ rest[c] = {}
       /\ Send(c, "commit", {})
       /\ UNCHANGED <<rest, part>>

(* The next of user_ids.chunks(CHUNK_SIZE), in any order of the vector;    *)
(* after the last one the commit.                                          *)
SendNext(c) ==
    \/ /\ rest[c] # {}
       /\ \E users \in SUBSET rest[c] :
            /\ users = rest[c] \/ Cardinality(users) = ChunkSize
            /\ users # {} /\ Cardinality(users) <= ChunkSize
            /\ rest' = [rest EXCEPT ![c] = @ \ users]
            /\ part' = [part EXCEPT ![c] = users]
            /\ Send(c, "chunk", users)
    \/ /\ rest[c] = {}
       /\ Send(c, "commit", {})
       /\ UNCHANGED <<rest, part>>

Upload(c) ==
    /\ call[c] = "none"
    /\ call' = [call EXCEPT ![c] = "open"]
    /\ \E users \in SUBSET Member :
         /\ want' = [want EXCEPT ![c] = users]
         /\ rest' = [rest EXCEPT ![c] = users]
         /\ IF Cardinality(users) <= PutMax THEN Send(c, "put", users) ELSE Send(c, "start", {})
    /\ UNCHANGED <<server, part>>

Waiting(c, ops) == call[c] = "open" /\ op[c] \in ops
Return(c, result) == call' = [call EXCEPT ![c] = result] /\ UNCHANGED <<want, rest, part, op>>

(* A success status.                                                       *)
Proceed(c) ==
    /\ answer[c] = "ok"
    /\ \/ Waiting(c, {"put", "commit"}) /\ Return(c, "ok") /\ UNCHANGED <<wire, answer>>
       \/ Waiting(c, {"start", "chunk"}) /\ SendNext(c) /\ UNCHANGED <<call, want>>
    /\ UNCHANGED server

(* An error status, a failed connection, the request's timeout or, where   *)
(* the answer has a body to read, a body that does not parse.              *)
Failing(c, ops) == Waiting(c, ops) /\ (answer[c] = "ok" => op[c] \in {"put", "start", "commit"})

(* Mutant: a chunk that failed is logged and skipped.                      *)
BreakOffSkipping(c) ==
    /\ \/ /\ Failing(c, {"put", "start", "commit", "cancel"})
          /\ Return(c, "failed") /\ UNCHANGED <<wire, answer>>
       \/ /\ Failing(c, {"chunk"})
          /\ SendNext(c) /\ UNCHANGED <<call, want>>
    /\ UNCHANGED server

(* Mutant: a failed chunk is returned without cancelling the session.      *)
BreakOffOpen(c) ==
    /\ Failing(c, Op) /\ Return(c, "failed") /\ UNCHANGED <<wire, answer>>
    /\ UNCHANGED server

(* The error is returned; after a failed chunk once the cancel was tried.  *)
BreakOff(c) ==
    /\ \/ /\ Failing(c, {"put", "start", "commit", "cancel"})
          /\ Return(c, "failed") /\ UNCHANGED <<wire, answer>>
       \/ /\ Failing(c, {"chunk"})
          /\ Send(c, "cancel", {}) /\ UNCHANGED <<call, want, rest, part>>
    /\ UNCHANGED server

(* An answered cancel: the chunk's error is returned.                      *)
Cancelled(c) ==
    /\ Waiting(c, {"cancel"}) /\ answer[c] = "ok"
    /\ Return(c, "failed") /\ UNCHANGED <<server, wire, answer>>

(* The process dies in the middle of the job.                              *)
Die(c) ==
    /\ call[c] = "open"
    /\ Return(c, "failed")
    /\ answer' = [answer EXCEPT ![c] = "none"]
    /\ UNCHANGED <<server, wire>>

-----------------------------------------------------------------------------
(* RoleLogic.                                                              *)

(* An answer reaches a client that still waits for it.                     *)
Reply(r, a) ==
    answer' = IF call[r.by] = "open" /\ op[r.by] = r.op THEN [answer EXCEPT ![r.by] = a] ELSE answer

(* Held, gone, disabled, no such session, or a passing error.              *)
Refuse(r) == Reply(r, "refused") /\ UNCHANGED server

Replace(r) ==
    /\ r.op = "put"
    /\ list' = r.users /\ taken' = taken \cup {r.by}
    /\ Reply(r, "ok")
    /\ UNCHANGED <<session, got>>

Start(r) ==
    /\ r.op = "start" /\ session = NoSession
    /\ session' = r.by /\ got' = {}
    /\ Reply(r, "ok")
    /\ UNCHANGED <<list, taken>>

Append(r) ==
    /\ r.op = "chunk" /\ session = r.by
    /\ got' = got \cup r.users
    /\ Reply(r, "ok")
    /\ UNCHANGED <<list, session, taken>>

Commit(r) ==
    /\ r.op = "commit" /\ session = r.by
    /\ list' = got /\ taken' = taken \cup {r.by}
    /\ session' = NoSession
    /\ Reply(r, "ok")
    /\ UNCHANGED got

Cancel(r) ==
    /\ r.op = "cancel" /\ session = r.by
    /\ session' = NoSession
    /\ Reply(r, "ok")
    /\ UNCHANGED <<list, got, taken>>

Process(r) ==
    /\ wire' = wire \ {r}
    /\ Replace(r) \/ Start(r) \/ Append(r) \/ Commit(r) \/ Cancel(r) \/ Refuse(r)
    /\ UNCHANGED client

Lose(r) == wire' = wire \ {r} /\ UNCHANGED <<server, client, answer>>

(* RoleLogic may drop a session nobody uses at any time.                   *)
Expire ==
    /\ session # NoSession /\ session' = NoSession
    /\ UNCHANGED <<list, got, taken, client, wire, answer>>

-----------------------------------------------------------------------------
Client(c) == Proceed(c) \/ BreakOff(c) \/ Cancelled(c)
Next ==
    \/ \E c \in Call : Upload(c) \/ Client(c) \/ Die(c)
    \/ \E r \in wire : Process(r) \/ Lose(r)
    \/ Expire

Spec == Init /\ [][Next]_vars

-----------------------------------------------------------------------------
(* Properties.                                                             *)

(* Types of the variables; the users of the chunk sent last are not among  *)
(* those still to be sent.                                                 *)
TypeOK ==
    /\ list \subseteq Member /\ got \subseteq Member
    /\ session \in Call \cup {NoSession} /\ taken \subseteq Call
    /\ wire \subseteq Request
    /\ call \in [Call -> {"none", "open", "ok", "failed"}]
    /\ want \in [Call -> SUBSET Member] /\ rest \in [Call -> SUBSET Member]
    /\ part \in [Call -> SUBSET Member]
    /\ op \in [Call -> Op] /\ answer \in [Call -> {"none", "ok", "refused"}]
    /\ \A c \in Call : part[c] \cap rest[c] = {}

(* upload_users replaces the list as a whole and at most once, whichever   *)
(* transport it picks: "Server dedupes across chunks and atomically swaps  *)
(* in the new user set" (services/rolelogic.rs:399-400).  A chunk that was *)
(* lost, or that arrives after the session was cancelled, never leaves a   *)
(* part of a list behind.                                                  *)
Abstract == INSTANCE ListReplace
ImplementsListReplace == Abstract!Spec

(* A session stays open behind a call that has failed only where the code  *)
(* has no more to say to RoleLogic: the call was cut off without an answer *)
(* (to the start or the cancel, or by the death of the process), could not *)
(* read the upload_id, or was refused the cancel or the commit: after that *)
(* one nobody cancels.                                                     *)
SessionsAreCleanedUp ==
    \A c \in Call : session = c /\ call[c] = "failed" =>
        \/ answer[c] = "none"
        \/ answer[c] = "ok" /\ op[c] = "start"
        \/ answer[c] = "refused" /\ op[c] \in {"cancel", "commit"}

=============================================================================
