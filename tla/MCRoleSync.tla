----------------------------- MODULE MCRoleSync -----------------------------
(* Small instances of RoleSync for TLC.                                    *)
EXTENDS RoleSync

CONSTANTS w1, w2, any, paid

OneWorker  == {w1}
TwoWorkers == {w1, w2}
\* Member 1 has signed in with RoleLogic; the others never have.
FirstSignedIn == {1}
\* Every customer meets "any"; "paid" can replace it, or be replaced.
TwoRules == {any, paid}
=============================================================================
