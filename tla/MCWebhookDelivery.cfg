\* A sender whose clock is ahead by more than the window, receivers with any settings.
SPECIFICATION WebhookSpec
CONSTANTS
  KeyPairs <- MCKeys
  SetFor <- MCSetOf
  KidOf <- MCKidOf
  Chars <- MCChars
  Bodies <- MCBodies
  Missing = Missing
  Dot = Dot
  NaN = NaN
  x = x
  Window = 1
  Skews <- MCSkews
  Decimal <- MCDecimal
  Start = 8
  MaxNow = 11
  MaxSent = 2
  MaxAccepted = 2
INVARIANTS
  AcceptedIsAsSent
  ReplayEndsWithTheWindow
  UndisturbedIsAccepted
\* Time, deliveries and acceptances are bounded: a run ends when all are used up.
CHECK_DEADLOCK FALSE
