\* Two requests pinned to limits of one and two units, two attempts each.
SPECIFICATION Spec
CONSTANTS
  None = None
  Handlers = {h1, h2}
  MaxBodies = {1, 2}
  Growth = 1
  Floor = 0
  MaxInt = 20
  MaxAttempts = 2
SYMMETRY Symmetry
INVARIANTS ReservationsExact NeverRefusedAlone NobodyStuck
