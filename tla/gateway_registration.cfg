CONSTANTS
  NULL = NULL
  Timer = {"gate", "server"}
  Elapse = 1
  Wrap = 4
  CallId = {k1, k2, k3, k4, k5}
  KeepaliveGap = 2
  RegisterGap = 12
  TransactionTime = 2
  RetryAge = 5
  RefreshAge = 10
  FailLimit = 2
  Expires = 14
  MonitorKeepalive = 5
  MaxFaults = 2
  CalmCap = 17
  RecoveryTime = 11
SYMMETRY Symmetry
SPECIFICATION Spec
INVARIANTS TypeOK ThreadHasTimer RecoversInTime
PROPERTIES CallsSurviveCalm
