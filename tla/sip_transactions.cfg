SPECIFICATION FairSpec
CONSTANTS
  MaxCall = 2
  T1 = 1
  T2 = 2
  T4 = 1
  Long = 6
  Longest = 9
  Gap <- GapMC
  Life = 2
  MaxFaults = 2
  InTime = 5
INVARIANTS TypeOK OneLive LegsAgree
PROPERTIES AckedCallSurvives ImplementsCall EverythingSettles
CHECK_DEADLOCK FALSE
CONSTRAINT Disturbed
