SPECIFICATION FairSpec
CONSTANTS
  a0 = a0
  a1 = a1
  n0 = n0
  db = db
  hex1 = hex1
  hex2 = hex2
  word = word
  pair1 = pair1
  pair2 = pair2
  HexKeys = {hex1, hex2}
  None = None
  Unset = Unset
  Zero = Zero
  Junk = Junk
  Default <- Defaults
  Metrics = {alloc, polls}
  Unreadable = Unreadable
  Others <- OtherRequests
  Texts <- AllTexts
  Inputs <- AllInputs
  maxRetries = 2
INVARIANTS
  TypeOK
  StoredIffCompatible
  AnsweredMeansSigned
  ListensWithStorage
  SameSourcesAgree
PROPERTIES
  StartEnds
  ReportsArrive
CHECK_DEADLOCK FALSE
