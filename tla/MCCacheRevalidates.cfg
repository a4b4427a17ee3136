SPECIFICATION Spec
CONSTANTS
  Keys <- MCKeys
  Vals <- MCVals
  Fnv <- MCFnv
  Powers = {2, 4, 8, 16, 32, 64}
  Initial = 4
  Urls <- MCUrls
  Answers <- MCAnswers
  Clock <- MCClock
  MaxRequests = 3
CHECK_DEADLOCK FALSE
INVARIANT Revalidates
