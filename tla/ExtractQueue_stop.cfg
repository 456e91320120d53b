CONSTANTS
  j1 = j1  j2 = j2  j3 = j3  x = x  y = y  c1 = c1  c2 = c2
  Jobs <- MCJobs  Ids <- MCIds  IdOf <- MCIdOf  NoJob = NoJob
  Callers = {c1, c2}  Controllers = {c1, c2}  MaxStarts = 2
SPECIFICATION FairSpec
PROPERTIES
  StopReturns
CHECK_DEADLOCK FALSE
