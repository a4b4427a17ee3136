SPECIFICATION Spec
CONSTANTS
  Escaping = TRUE
  ContentType <- MCContentType
  PortNumber <- MCPortNumber
  Trials <- MCTrials
  Numeral <- MCNumeral
  OneLetter = {"a"}
  HomeRc <- MCHomeRc
  SystemRc <- MCSystemRc
  DefaultUrls <- Urls1
  MaxReps = 100
  Zlib = FALSE
  Beyonds <- MCBeyonds
  MaxPasses = 8
CHECK_DEADLOCK FALSE
INVARIANTS
  ConfigRunnable
  CommandLineWins
  VariablesExpanded
  OnceCoversTheList
