SPECIFICATION Spec
CONSTANTS
  ann = ann
  bob = bob
  c1 = c1
  c2 = c2
  Users = {ann, bob}
  Callers = {c1, c2}
  Drivers = {"sqlite", "mysql"}
  Calls <- Methods
  BatchSize = 1
INVARIANT TypeOK
INVARIANT TxInv
PROPERTY ImplementsTables
