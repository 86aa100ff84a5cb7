SPECIFICATION FairSpec
CONSTANTS
  MaxOpens = 3
  MaxMail = 2
  MaxHaste = 4
INVARIANTS UISurvives ClosedIsSilent FolderOutlivesThread
PROPERTIES ThreadsEnd
\* The folder has been opened MaxOpens times.
CHECK_DEADLOCK FALSE
