---------------------------- MODULE MCChargeImport ----------------------------
(* A small instance of ChargeImport for TLC.                                *)
EXTENDS ChargeImport, TLC

CONSTANTS cus1, cus2, imp1, imp2

Customers == {cus1, cus2}
Importers == {imp1, imp2}
Divided   == {f \in [1..MaxCharges -> Customers] : f[1] # f[2]}
Perms     == Permutations(Customers) \cup Permutations(Importers)
=============================================================================
