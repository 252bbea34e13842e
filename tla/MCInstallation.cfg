SPECIFICATION Spec
CONSTANTS
  Roles = {"alice", "bob"}
  NoRole = NoRole
  Organizations = {"org", "other"}
  Certificates = {ca1, ca2}
  ca1 = ca1
  ca2 = ca2
  NoCertificate = NoCertificate
  Answers <- MCAnswers
  Legacy <- MCLegacy
  Incompatible <- MCIncompatible
  Options <- MCOptions
  MaxStarts = 4
  MaxEdits = 1
  MaxSeconds = 1
INVARIANTS FinishedInstallIsWhole
PROPERTIES RefusedForCause ConflictsPreserved
CHECK_DEADLOCK FALSE
