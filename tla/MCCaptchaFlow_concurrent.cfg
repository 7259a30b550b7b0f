SPECIFICATION Spec
CONSTANTS
  ann = ann
  bob = bob
  h1 = h1
  h2 = h2
  Users = {ann, bob}
  Handlers = {h1, h2}
  NoUser = NoUser
  Length = 1
  Buttons <- NoBackspace
  Faults = {"crash"}
  MaxGenerated = 2
SYMMETRY Symmetry
INVARIANT TypeOK
INVARIANT FlowInv
INVARIANT RowsAreDistinct
INVARIANT LiveCaptchaIsShown
PROPERTY VerifiedBySolving
