SPECIFICATION AgentsSpec
CONSTANTS
  c1 = c1
  c2 = c2
  c3 = c3
  Calls = {c1, c2, c3}
  Runners = {"direct", "nsjail", "bwrap"}
  MaxConcurrency = 1
  MaxFaults = 2
  s1 = s1
  s2 = s2
  s3 = s3
  ka = ka
  kb = kb
  w1 = w1
  SessionOf <- MCSessionOf
  Sessions = {ka, kb}
  Webhooks = {w1}
  MaxLoops = 2
  None = None
  Sockets = {s1, s2, s3}
  MaxMentions = 1
INVARIANTS
  TypeOK
  ExecutedIsRecorded
  PoolBound
  ConversationTypeOK
  TablesMatch
  NobodyMissed
PROPERTIES
  EveryCallEnds
  GoneIsForgotten
CHECK_DEADLOCK FALSE
