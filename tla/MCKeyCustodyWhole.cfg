\* The same; what importSeedPkcs8 returns.
SPECIFICATION CustodySpec
CONSTANTS
  Masters = {"m"}
  Labels = {"own"}
  Stream <- MCStream
  ExpandedSizes = {200, 300}
  Error = Error
  Others <- MCOthers
  Keys <- MCKeys
  SetOf <- MCSetOf
  Payloads = {text, Empty}
  Empty = Empty
  Kids = {"k"}
  None = None
  Junk = Junk
  NotAnObject = NotAnObject
  MaxTokens = 2
INVARIANT ImportedSeedIsWhole
\* One key is kept and loaded once, and two tokens are issued.
CHECK_DEADLOCK FALSE
