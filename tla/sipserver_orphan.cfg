CONSTANTS
  NULL = NULL
  SipId = {p1, p2}
  Device = {d1}
  CallId = {k1}
  Type = {"GB_PLATFORM"}
  Slot = {s1}
  MaxCid = 3
  Expires <- ExpiresShort
  MonitorKeepalive = 0
  PlaybackTimeout = 0
  MaxLag = 0
  AgeCap = 0
SPECIFICATION Spec
INVARIANT ReleasedCalleeIsHungUp
