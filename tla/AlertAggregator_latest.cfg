SPECIFICATION AlertSpec
CONSTANTS
  a1 = a1
  a2 = a2
  a3 = a3
  p1 = p1
  p2 = p2
  p3 = p3
  k1 = k1
  k2 = k2
  feishu = feishu
  hud = hud
  Alerts = {a1, a2}
  Key <- MCKey
  Procs = {p1}
  Shared = {p1}
  Channels <- MCChannels
  PageSize = 1
  MaxFaults = 0
INVARIANT
  LatestSpeaks
