SPECIFICATION Spec
CONSTANTS
  a0 = a0
  a1 = a1
  n0 = n0
  db = db
  hex1 = hex1
  hex2 = hex2
  word = word
  pair1 = pair1
  pair2 = pair2
  HexKeys = {hex1, hex2}
  None = None
  Unset = Unset
  Zero = Zero
  Junk = Junk
  Default <- Defaults
  Metrics = {alloc, polls}
  Unreadable = Unreadable
  Others <- OtherRequests
  Texts <- AllTexts
  Inputs <- PromiseInputs
  maxRetries = 2
INVARIANT SomePromiseKept
CHECK_DEADLOCK FALSE
