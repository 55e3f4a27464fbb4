SPECIFICATION Spec
CONSTANTS
  Early = {"index", "vendored"}
  Late = {"module"}
  Data = {"licence", "notice"}
  Releases = {"r1", "r2"}
  Installed = "r1"
  Target = "r2"
  Content <- MCContent
  MaxRestarts = 1
INVARIANTS
  IntegrityInv
  TestedIsLoaded
PROPERTIES
  WholeInstallStarts
\* A module in the error state stays there until it is restarted, and restarts are bounded.
CHECK_DEADLOCK FALSE
