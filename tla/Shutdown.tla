------------------------------- MODULE Shutdown -------------------------------
(***************************************************************************)
(* The life of one process (main.rs): the job workers, the job listener    *)
(* and the reconcile loop, each with its own receiver of one broadcast     *)
(* (tasks/shutdown.rs), the HTTP server with another, the task that waits  *)
(* for SIGTERM and sends, and main, which serves and then joins the rest.  *)
(*                                                                         *)
(* A receiver gets the message once: whoever reads it, in wait() or in     *)
(* is_triggered(), has to act on it, for nothing will tell him again.      *)
(* What a job or an import does is left out; JobQueue and StripeIngest     *)
(* have it.                                                                *)
(***************************************************************************)
EXTENDS Integers, FiniteSets

CONSTANTS
    Worker,      \* job-worker tasks
    MaxBatch,    \* BATCH_SIZE: jobs of one claim
    MaxAccounts, \* connected Stripe accounts
    MaxRequests, \* bound: HTTP requests in flight
    MaxTicks     \* bound: periods of six hours that pass

Reconciler == "reconcile"
Listener   == "listener"
Server     == "server"
Task       == Worker \cup {Reconciler, Listener}

ASSUME ShutdownAssumption ==
    /\ Worker \cap {Reconciler, Listener, Server} = {}
    /\ {MaxBatch, MaxAccounts, MaxRequests, MaxTicks} \subseteq Nat

VARIABLES
    main,     \* where main is
    signal,   \* "none", "received" (draining is set), "sent"
    unread,   \* receivers whose message has not been read
    pc,       \* pc[t]: where task t is
    left,     \* left[t]: jobs of the batch, or accounts of the round, to go
    requests, \* requests in flight
    ticks,    \* periods of TICK that have passed since the first round
    due,      \* ticks the interval has not delivered yet
    rounds    \* rounds the reconcile loop has started

taskVars  == <<pc, left>>
mainVars  == <<main, signal, requests>>
clockVars == <<ticks, due, rounds>>
vars == <<mainVars, unread, taskVars, clockVars>>

Init ==
    /\ main = "bind" /\ signal = "none" /\ unread = {} /\ requests = 0
    /\ pc = [t \in Task |-> IF t = Reconciler THEN "delay" ELSE "top"]
    /\ left = [t \in Task |-> 0]
    /\ ticks = 0 /\ due = 0 /\ rounds = 0

-----------------------------------------------------------------------------
(* main and the signal task.                                               *)

(* The listener is bound and the signal task spawned: from now on a        *)
(* SIGTERM is caught.  The server's receiver does not exist yet.           *)
Watch ==
    /\ main = "bind" /\ main' = "watch"
    /\ UNCHANGED <<signal, requests, unread, taskVars, clockVars>>

(* shutdown.subscribe() and axum::serve.                                   *)
Serve ==
    /\ main = "watch" /\ main' = "serve"
    /\ UNCHANGED <<signal, requests, unread, taskVars, clockVars>>

(* SIGTERM or SIGINT: draining is set ...                                  *)
Signal ==
    /\ main # "bind" /\ signal = "none" /\ signal' = "received"
    /\ UNCHANGED <<main, requests, unread, taskVars, clockVars>>

(* ... and the message is sent to the receivers there are.                 *)
Trigger ==
    /\ signal = "received" /\ signal' = "sent"
    /\ unread' = IF main = "watch" THEN Task ELSE Task \cup {Server}
    /\ UNCHANGED <<main, requests, taskVars, clockVars>>

Request ==
    /\ main = "serve" /\ requests < MaxRequests /\ requests' = requests + 1
    /\ UNCHANGED <<main, signal, unread, taskVars, clockVars>>

Respond ==
    /\ requests > 0 /\ requests' = requests - 1
    /\ UNCHANGED <<main, signal, unread, taskVars, clockVars>>

(* with_graceful_shutdown: no new connection is accepted.                  *)
Drain ==
    /\ main = "serve" /\ Server \in unread
    /\ main' = "join" /\ unread' = unread \ {Server}
    /\ UNCHANGED <<signal, requests, taskVars, clockVars>>

(* The drained server returns and main awaits one handle after another.    *)
Exit ==
    /\ main = "join" /\ requests = 0
    /\ \A t \in Task : pc[t] = "stopped"
    /\ main' = "stopped"
    /\ UNCHANGED <<signal, requests, unread, taskVars, clockVars>>

-----------------------------------------------------------------------------
(* The tasks.                                                              *)

Goto(t, l, n) == pc' = [pc EXCEPT ![t] = l] /\ left' = [left EXCEPT ![t] = n]
Read(t)       == t \in unread /\ unread' = unread \ {t}

(* is_triggered() at the top of a worker's and of the listener's loop.     *)
Top(t) ==
    /\ pc[t] = "top"
    /\ \/ Read(t) /\ Goto(t, "stopped", 0)
       \/ t \notin unread /\ Goto(t, IF t = Listener THEN "connect" ELSE "claim", 0)
                          /\ UNCHANGED unread
    /\ UNCHANGED <<mainVars, clockVars>>

(* Mutant: wait() is forgotten in the reconcile loop's select.             *)
NoticeButReconcile(t) ==
    /\ pc[t] \in {"pause", "idle", "listen", "delay", "wait"} /\ t # Reconciler
    /\ Read(t) /\ Goto(t, "stopped", 0)
    /\ UNCHANGED <<mainVars, clockVars>>

(* wait() in a select: every pause and every idle wait has that arm.       *)
Notice(t) ==
    /\ pc[t] \in {"pause", "idle", "listen", "delay", "wait"}
    /\ Read(t) /\ Goto(t, "stopped", 0)
    /\ UNCHANGED <<mainVars, clockVars>>

(* claim_batch: an error, nothing to do, or a batch.                       *)
Claim(w) ==
    /\ pc[w] = "claim"
    /\ \/ Goto(w, "pause", 0)
       \/ Goto(w, "idle", 0)
       \/ \E n \in 1..MaxBatch : Goto(w, "batch", n)
    /\ UNCHANGED <<mainVars, unread, clockVars>>

(* PgListener: it connects or backs off; a lost connection is made anew.   *)
Connect ==
    /\ pc[Listener] = "connect"
    /\ Goto(Listener, "pause", 0) \/ Goto(Listener, "listen", 0)
    /\ UNCHANGED <<mainVars, unread, clockVars>>

(* The poll interval or the backoff is over, a notification arrives, the   *)
(* listener's connection is lost.                                          *)
Wake(t) ==
    /\ pc[t] \in {"pause", "idle", "listen"}
    /\ Goto(t, "top", 0)
    /\ UNCHANGED <<mainVars, unread, clockVars>>

(* Mutant: a worker that reads the message leaves its batch.               *)
Next1Breaks(t) ==
    /\ pc[t] = "batch"
    /\ \/ /\ left[t] = 0
          /\ Goto(t, IF t = Reconciler THEN "wait" ELSE "top", 0) /\ UNCHANGED unread
       \/ /\ left[t] > 0 /\ t \notin unread
          /\ Goto(t, "run", left[t]) /\ UNCHANGED unread
       \/ /\ left[t] > 0 /\ Read(t) /\ Goto(t, "stopped", left[t])
    /\ UNCHANGED <<mainVars, clockVars>>

(* The next job of the batch, or the next account of the round:            *)
(* is_triggered() first.  A worker that reads the message releases this    *)
(* one job and goes on with the batch; the reconcile loop breaks off the   *)
(* round and waits for the message it has just read.                       *)
Next1(t) ==
    /\ pc[t] = "batch"
    /\ \/ /\ left[t] = 0
          /\ Goto(t, IF t = Reconciler THEN "wait" ELSE "top", 0) /\ UNCHANGED unread
       \/ /\ left[t] > 0 /\ t \notin unread
          /\ Goto(t, "run", left[t]) /\ UNCHANGED unread
       \/ /\ left[t] > 0 /\ Read(t)
          /\ Goto(t, "batch", IF t = Reconciler THEN 0 ELSE left[t] - 1)
    /\ UNCHANGED <<mainVars, clockVars>>

(* The job's result is written, or the import returns.                     *)
Done(t) ==
    /\ pc[t] = "run"
    /\ Goto(t, "batch", left[t] - 1)
    /\ UNCHANGED <<mainVars, unread, clockVars>>

(* INITIAL_DELAY is over and the interval made: its first tick is due now. *)
Delay ==
    /\ pc[Reconciler] = "delay"
    /\ Goto(Reconciler, "round", 0)
    /\ due' = 1
    /\ UNCHANGED <<mainVars, unread, ticks, rounds>>

(* gc, and the list of accounts; an error lists none.                      *)
Round ==
    /\ pc[Reconciler] = "round"
    /\ \E n \in 0..MaxAccounts : Goto(Reconciler, "batch", n)
    /\ rounds' = rounds + 1
    /\ UNCHANGED <<mainVars, unread, ticks, due>>

(* interval.tick()                                                         *)
NextRound ==
    /\ pc[Reconciler] = "wait" /\ due > 0
    /\ due' = due - 1
    /\ Goto(Reconciler, "round", 0)
    /\ UNCHANGED <<mainVars, unread, ticks, rounds>>

(* Six hours pass.  Ticks missed in a long round are delivered afterwards. *)
Tick ==
    /\ ticks < MaxTicks /\ rounds > 0
    /\ ticks' = ticks + 1 /\ due' = due + 1
    /\ UNCHANGED <<mainVars, unread, taskVars, rounds>>

-----------------------------------------------------------------------------
MainStep == Watch \/ Serve \/ Trigger \/ Respond \/ Drain \/ Exit
TaskStep(t) ==
    \/ Top(t) \/ Notice(t) \/ Wake(t) \/ Next1(t) \/ Done(t)
    \/ t \in Worker /\ Claim(t)
    \/ t = Listener /\ Connect
    \/ t = Reconciler /\ (Delay \/ Round \/ NextRound)

Next ==
    \/ main # "stopped" /\ (MainStep \/ Signal \/ Request \/ Tick)
    \/ main # "stopped" /\ \E t \in Task : TaskStep(t)

Spec == Init /\ [][Next]_vars

(* tokio runs what can run, requests are answered, jobs and imports return *)
(* (every upstream call has a timeout), connections are lost some day.     *)
Fairness ==
    /\ WF_vars(Watch) /\ WF_vars(Serve) /\ WF_vars(Trigger)
    /\ WF_vars(Respond) /\ WF_vars(Drain) /\ WF_vars(Exit)
    /\ \A t \in Task : WF_vars(main # "stopped" /\ TaskStep(t))
FairSpec == Spec /\ Fairness

-----------------------------------------------------------------------------
(* Properties.                                                             *)

Heard(t) == signal = "sent" /\ t \notin unread

(* Once a task has stopped it holds no claimed job that it has neither run *)
(* nor released, whatever point of its loops the message reached it at, so *)
(* none is left in flight when main returns: "joins all worker handles     *)
(* before exiting so no in-flight job is silently dropped"                 *)
(* (tasks/shutdown.rs:12-14).                                              *)
NothingInFlightAtExit ==
    /\ \A t \in Task : pc[t] = "stopped" => left[t] = 0
    /\ main = "stopped" => \A t \in Task : left[t] = 0

(* A signal ends the process, unless a task has read the message between   *)
(* two jobs or accounts, or the server has subscribed after it was sent.   *)
EndsUnlessMissed ==
    signal = "sent" ~>
        \/ main = "stopped"
        \/ \E t \in Task : Heard(t) /\ pc[t] # "stopped"
        \/ main \in {"watch", "serve"} /\ Heard(Server)

=============================================================================
