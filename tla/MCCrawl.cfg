SPECIFICATION Spec
CONSTANTS
  Escaping = TRUE
  ContentType <- MCContentType
  PortNumber <- MCPortNumber
  Sites <- MCSites
  NoFollow <- MCNoFollow
  OldHrefs <- MCOldHrefs
  MaxRequests = 16
  Beyonds <- MCBeyonds
CHECK_DEADLOCK FALSE
INVARIANTS
  PartsAreEmbedded
  ResolvedAsReferenced
  SameWhenReparsed
  VisitEnds

