SPECIFICATION Spec
CONSTANTS
  ann = ann
  bob = bob
  c1 = c1
  c2 = c2
  Users = {ann, bob}
  Callers = {c1, c2}
  Drivers = {"postgres", "tidb"}
  Calls <- Methods
  BatchSize = 1
INVARIANT Exclusive
