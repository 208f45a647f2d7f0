SPECIFICATION Spec
CONSTANTS
    cus1 = cus1
    cus2 = cus2
    imp1 = imp1
    imp2 = imp2
    Customer <- Customers
    Importer <- Importers
    PageLimit = 1
    MaxPages = 2
    MaxCharges = 3
    Paying <- Divided
INVARIANTS
    SettledChargesAreExact
SYMMETRY Perms
