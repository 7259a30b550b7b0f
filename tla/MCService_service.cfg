SPECIFICATION FairServiceSpec
CONSTANTS
  ann = ann
  r1 = r1
  r2 = r2
  Users = {ann}
  Requests = {r1, r2}
  Kinds <- MixedKinds
  NoKind = NoKind
  MaxSignals = 2
  MaxUpdates = 1
  Faults <- AllFaults
INVARIANT ServiceTypeOK
INVARIANT GracefulExit
INVARIANT AnswerTellsOutcome
INVARIANT StoredIsAnswered
PROPERTY OnlyAuthorisedVerify
PROPERTY WokenStops
PROPERTY ListenFailureStops
CHECK_DEADLOCK FALSE
