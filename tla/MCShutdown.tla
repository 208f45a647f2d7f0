------------------------------ MODULE MCShutdown ------------------------------
(* A small instance of Shutdown for TLC.                                    *)
EXTENDS Shutdown

CONSTANTS w1

OneWorker == {w1}
=============================================================================
