SPECIFICATION PagesFairSpec
CONSTANTS
  MaxChoices = 2
  MaxVisits = 2
CHECK_DEADLOCK FALSE
INVARIANTS
  OneStepShown
  AnnouncedFileIsSent
PROPERTY
  VisitIsServed
