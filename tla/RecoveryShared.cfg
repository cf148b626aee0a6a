\* Two requests, two credentials and room for one call.
SPECIFICATION FairSpec
CONSTANTS
  None = None
  Handlers = {h1, h2}
  Credentials = {c1, c2}
  MaxCalls = 1
  Memory = 1
  MaxTime = 3
  MaxLed = 2
INVARIANT CallsShared
PROPERTIES Throttled EveryoneAnswered
CHECK_DEADLOCK FALSE
