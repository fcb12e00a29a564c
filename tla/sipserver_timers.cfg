CONSTANTS
  NULL = NULL
  SipId = {p1}
  Device = {d1}
  CallId = {k1}
  Type = {"GB_PLATFORM"}
  Slot = {s1}
  MaxCid = 2
  Expires <- ExpiresLong
  MonitorKeepalive = 1
  PlaybackTimeout = 2
  MaxLag = 1
  AgeCap = 3
SPECIFICATION FairSpec
PROPERTIES TimerDropsOverdueOnly HandlersFinish MonitorFinishes SilentIsDropped PlaybackIsResolved
