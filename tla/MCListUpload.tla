----------------------------- MODULE MCListUpload -----------------------------
(* A small instance of ListUpload: a list of three goes up in three chunks. *)
EXTENDS ListUpload, TLC

CONSTANTS u1, u2, u3, c1, c2

Members == {u1, u2, u3}
Calls   == {c1, c2}
Perms   == Permutations(Members) \cup Permutations(Calls)
=============================================================================
