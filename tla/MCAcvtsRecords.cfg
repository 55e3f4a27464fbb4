\* Two runs of each script beside each other, one call without a reply or a crash.
SPECIFICATION Spec
CONSTANTS
  None = None
  Torn = Torn
  Attempts = 2
  MaxPolls = 2
  MaxStarts = 2
  MaxPublishes = 2
  MaxLost = 1
INVARIANTS
  RecordsInv
  ExitTellsTheCertificate
PROPERTIES RerunsReuse ScriptsEnd
\* The scripts end, and are not started for ever.
CHECK_DEADLOCK FALSE
