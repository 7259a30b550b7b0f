SPECIFICATION AdmissionSpec
CONSTANTS
  ann = ann
  bob = bob
  m1 = m1
  m2 = m2
  p1 = p1
  Users = {ann, bob}
  Admins = {ann}
  Messages = {m1, m2}
  Presses = {p1}
  Callers <- AllCallers
  NoUser = NoUser
  Calls <- Production
  PendingLimit = 1
INVARIANT VerifiedIsHeard
