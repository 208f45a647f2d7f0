---------------------------- MODULE MCConfigSave ----------------------------
(* A small instance of ConfigSave for TLC.                                 *)
EXTENDS ConfigSave

CONSTANTS a, q, r, t1, t2
=============================================================================
