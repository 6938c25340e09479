SPECIFICATION FairSpec
CONSTANTS
  j1 = j1
  j2 = j2
  r1 = r1
  r2 = r2
  r3 = r3
  JobIds = {j1, j2}
  Offered <- MCOffered
  Runs = {r1, r2, r3}
  MaxConcurrent = 2
  MaxFaults = 1
  None = None
  Corrupt = Corrupt
INVARIANTS
  TypeOK
  SlotsAccounted
  ScheduleFollowsJobs
  ConfirmedSurvives
PROPERTY
  EveryRunEnds
