SPECIFICATION FairSpec
CONSTANTS
  ann = ann
  h1 = h1
  Users = {ann}
  Handlers = {h1}
  NoUser = NoUser
  Length = 2
  Buttons <- AllButtons
  Faults = {"telegram"}
  MaxGenerated = 3
INVARIANT InputNeverComplete
INVARIANT OneLiveCaptcha
INVARIANT PhotoShowsStoredCode
INVARIANT LiveCaptchaIsShown
INVARIANT SolvedCaptchaIsGone
PROPERTY ExpiredCaptchasAreRemoved
