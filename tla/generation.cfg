SPECIFICATION FairSpec
CONSTANTS
  flux = flux
  classic = classic
  notes = notes
  abs = abs
  d = d
  s1 = s1
  s2 = s2
  j1 = j1
  j2 = j2
  File = {flux, classic, notes, abs}
  NotJson = {notes}
  Absolute = {abs}
  DefaultFile = flux
  NoFile = NoFile
  Profiles <- MCProfiles
  NodeId = {3, 4, 5, 6, 7, 8, 9, 11}
  Job = {j1, j2}
  Request <- MCRequest
  Content <- MCContent
  Missing = Missing
  FileSystem <- MCFileSystem
  Server = {s1, s2}
  OutDir = {d}
  None = None
  Outcome <- MCOutcome
  Edited <- MCEdited
  MaxEdits = 1
INVARIANTS ReportedIsSubmitted AuditNamesWhatRan AppliedAsChecked SavedImagesStay AnswersAreComplete
PROPERTIES EveryRequestIsAnswered
CHECK_DEADLOCK FALSE
