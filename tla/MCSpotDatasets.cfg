\* Two runs; pipes of two rows and of one line.
CONSTANTS
  Runs = {r1, r2}
  Archives <- MCArchives
  Jobs <- MCJobs
  StdoutCapacity = 2
  StderrCapacity = 1
  Nothing = Nothing
  r1 = r1
  r2 = r2
  k1 = k1
  k2 = k2
  k3 = k3
  linux = linux
SPECIFICATION FairDatasetsSpec
INVARIANT AnswersAreWhole
PROPERTY ArchiveSurvives
PROPERTY LoadsEnd
CHECK_DEADLOCK FALSE
