SPECIFICATION Spec
CONSTANTS
  Devices = {d1, d2}
  s1 = s1
  s2 = s2
  n1 = n1
  n2 = n2
  n3 = n3
  NoId = NoId
  Songs = {s1, s2}
  NavIds = {n1, n2, n3}
  InitialLocal <- MCInitialLocal
  InitialLists <- MCInitialLists
  InitialNav <- MCInitialNav
  MaxJobs = 2
  MaxEdits = 1
INVARIANT UndisturbedSyncSettles
PROPERTY OnlyRacesRemoveWanted
CHECK_DEADLOCK FALSE
