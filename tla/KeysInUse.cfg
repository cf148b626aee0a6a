\* Three requests use two keys while they are changed and deleted, on a machine
\* that may crash or lose power at any point.
SPECIFICATION Spec
CONSTANTS
  None = None
  Handlers = {h1, h2, h3}
  Keys = {k1, k2}
  Policies <- MCPolicies
  PowerFails = TRUE
  MaxMinute = 1
  MaxWrites = 3
SYMMETRY Symmetry
INVARIANTS CountersExact LimitsHold
PROPERTIES SyncedRevocationHolds ImplementsRegister
