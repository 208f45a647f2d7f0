----------------------------- MODULE MCJobQueue -----------------------------
(* Small instances of JobQueue for TLC.                                    *)
EXTENDS JobQueue, TLC

CONSTANTS w1, w2, r1, r2

MCWorker  == {w1, w2}
MCReplica == {r1, r2}
\* One task per process, and both tasks in one process.
TwoReplicas == w1 :> r1 @@ w2 :> r2
OneReplica  == [w \in MCWorker |-> r1]
=============================================================================
