CONSTANTS
  NULL = NULL
  SipId = {p1}
  Device = {d1}
  CallId = {k1, k2}
  Type = {"GB_PLATFORM"}
  Slot = {s1, s2}
  MaxCid = 4
  Expires <- ExpiresShort
  MonitorKeepalive = 0
  PlaybackTimeout = 0
  MaxLag = 0
  AgeCap = 0
SYMMETRY Symmetry
SPECIFICATION Spec
INVARIANTS OneContextPerLeg AnsweredCallerIsBridged BridgedLegsEndTogether
