\* Two overlapping handlers, two identities, reloads, results in any order.
SPECIFICATION Spec
CONSTANTS
  None = None
  Handlers = {h1, h2}
  Identities = {i1, i2}
  Threshold = 2
  Cooldown = 1
  RetryAfters = {3}
  MaxCooldown = 2
  MaxTime = 1
  MaxSequence = 3
  MaxObjects = 2
SYMMETRY Symmetry
INVARIANTS CountsExact NewestEvidenceRules HealthFollowsIdentity
PROPERTY ClosedByNewerSuccess
CHECK_DEADLOCK FALSE
