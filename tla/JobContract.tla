----------------------------- MODULE JobContract -----------------------------
(***************************************************************************)
(* What the job queue promises its producers, with no workers, locks,      *)
(* attempts or timers (migrations/007_jobs.sql:1-14, services/jobs.rs:1-6, *)
(* tasks/shutdown.rs:10-12): a job is run by one worker at a time, as      *)
(* often as it takes; it is closed once, after a run whose result          *)
(* justifies it, and then neither run nor reopened.  The promise ends for  *)
(* a job whose lock grows too old while it is open: it is void.            *)
(***************************************************************************)
CONSTANT Job

VARIABLES
    phase,    \* phase[j]: "absent", "open", "completed", "dead", "void"
    running,  \* the jobs being run, of those that are not void
    oks,      \* those that some run finished with Ok
    errs      \* those that some run finished with an error

vars == <<phase, running, oks, errs>>

Init ==
    /\ phase = [j \in Job |-> "absent"]
    /\ running = {} /\ oks = {} /\ errs = {}

Submit(j) ==
    /\ phase[j] = "absent"
    /\ phase' = [phase EXCEPT ![j] = "open"]
    /\ UNCHANGED <<running, oks, errs>>

(* Never while another run of the job is going on.                         *)
Start(j) ==
    /\ phase[j] = "open" /\ j \notin running
    /\ running' = running \cup {j}
    /\ UNCHANGED <<phase, oks, errs>>

Succeed(j) ==
    /\ j \in running
    /\ running' = running \ {j}
    /\ oks' = oks \cup {j}
    /\ UNCHANGED <<phase, errs>>

Fail(j) ==
    /\ j \in running
    /\ running' = running \ {j}
    /\ errs' = errs \cup {j}
    /\ UNCHANGED <<phase, oks>>

(* A process dies with the runs it had going.                              *)
Abort(J) ==
    /\ running' = running \ J
    /\ UNCHANGED <<phase, oks, errs>>

Close(j, outcome) ==
    /\ phase[j] = "open" /\ j \notin running
    /\ \/ outcome = "completed" /\ j \in oks
       \/ outcome = "dead" /\ j \in errs
    /\ phase' = [phase EXCEPT ![j] = outcome]
    /\ UNCHANGED <<running, oks, errs>>

(* The lock of the job, open and perhaps run, is taken for abandoned.      *)
Forfeit(j) ==
    /\ phase[j] = "open"
    /\ phase' = [phase EXCEPT ![j] = "void"]
    /\ running' = running \ {j} /\ oks' = oks \ {j} /\ errs' = errs \ {j}

Next ==
    \/ \E j \in Job : Submit(j) \/ Start(j) \/ Succeed(j) \/ Fail(j) \/ Forfeit(j)
    \/ \E J \in SUBSET running : Abort(J)
    \/ \E j \in Job, outcome \in {"completed", "dead"} : Close(j, outcome)

Spec == Init /\ [][Next]_vars
=============================================================================
