--------------------------- MODULE MCStripeIngest ---------------------------
(* Instances of StripeIngest: who the metadata names to begin with, and    *)
(* how much goes wrong with how many imports.                              *)
EXTENDS StripeIngest

CONSTANTS A, None, i1, i2

From(status, smeta, cmeta, who, n, lost, fails) ==
    [sub |-> status, smeta |-> smeta, cmeta |-> cmeta,
     importers |-> who, changes |-> n, stray |-> lost, faults |-> fails]

(* Two changes, whose events may be applied in either order; one whose     *)
(* event is lost or doubled, and whose requests fail; a subscriber's       *)
(* customer who may be deleted; two imports at once, with a charge and     *)
(* with a failure.                                                         *)
Cases == {From("none",   A,    None, {i1},     2, 0, 0),
          From("none",   A,    None, {i1},     1, 1, 1),
          From("active", None, A,    {i1},     1, 1, 0),
          From("active", None, A,    {i1},     1, 0, 1),
          From("none",   None, A,    {i1, i2}, 1, 0, 0),
          From("active", None, A,    {i1, i2}, 0, 0, 1)}
=============================================================================
