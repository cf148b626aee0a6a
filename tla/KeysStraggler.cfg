\* A request that read the clock just before the minute ended.
SPECIFICATION Spec
CONSTANTS
  None = None
  Handlers = {h1, h2, h3}
  Keys = {k1}
  Policies <- MCRatePolicies
  PowerFails = FALSE
  MaxMinute = 1
  MaxWrites = 1
INVARIANT RateEnforced
