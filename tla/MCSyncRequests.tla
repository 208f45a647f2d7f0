---------------------------- MODULE MCSyncRequests ----------------------------
(* A small instance of SyncRequests for TLC.                                *)
EXTENDS SyncRequests

CONSTANTS l1, l2, row1, row2, req1, req2

Links    == {l1, l2}
Rows     == {row1, row2}
Requests == {req1, req2}
=============================================================================
