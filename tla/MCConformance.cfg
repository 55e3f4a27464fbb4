\* The lock moves under the cache, fetches are killed, a cached file changes; then
\* every program, an implementation broken on at most one surface.
SPECIFICATION JobSpec
CONSTANTS
  Sets <- MCSets
  Changed <- MCChanged
  Torn = Torn
  MayEdit = TRUE
  MaxTouches = 1
  Prompts <- MCPrompts
  Caps = {1, 2, 99}
  Infinity = 99
  Programs = {"run-acvp", "selftest", "native"}
INVARIANTS
  JobInv
  ExitTellsTheImplementation
  RespondersAnswer
  NativeNeverGuesses
\* A job ends.
CHECK_DEADLOCK FALSE
