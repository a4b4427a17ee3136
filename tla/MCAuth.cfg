SPECIFICATION Spec
CONSTANTS
  Browsers = {b1, b2}
  NoBrowser = none
  Logins <- MCLogins
  Beyond <- MCBeyond
  LoginUrls <- MCLoginUrls
  Sites <- MCSites
  MaxRequests = 3
SYMMETRY MCSymmetry
CHECK_DEADLOCK FALSE
INVARIANTS
  OwnAnswers
  FreedOnce
  LoginsInTurn
