\* Every cut of every file, every mix of two JWKs; two tokens, and everything that
\* can be put together from them.
SPECIFICATION CustodySpec
CONSTANTS
  Masters = {"m"}
  Labels = {"own"}
  Stream <- MCStream
  ExpandedSizes = {200, 300}
  Error = Error
  Others <- MCOthers
  Keys <- MCKeys
  SetOf <- MCSetOf
  Payloads = {text, Empty}
  Empty = Empty
  Kids = {"k"}
  None = None
  Junk = Junk
  NotAnObject = NotAnObject
  MaxTokens = 2
INVARIANTS
  CustodyInv
  PublishedKeyVerifies
  ValidIsAsIssued
  ValidIsAsPinned
\* One key is kept and loaded once, and two tokens are issued.
CHECK_DEADLOCK FALSE
