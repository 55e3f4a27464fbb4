\* Two builds of any kind, killed anywhere with or without their command, any command failing in any way.
SPECIFICATION EvidenceSpec
CONSTANTS
  Nothing = Nothing
  Docs <- MCDocs
  MaxBuilds = 2
INVARIANTS
  BundleInv
  MissingIsRecorded
  PublishedIsWhole
\* After the last build the system stops.
CHECK_DEADLOCK FALSE
