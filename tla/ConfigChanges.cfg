\* Two administrators, two visitors, an operator with an editor, and a machine
\* that fails.
SPECIFICATION Spec
CONSTANTS
  None = None
  Settings = {token, path}
  Boundary = {token}
  LogSettings = {path}
  Admins = {a1, a2}
  Visitors = {v1, v2}
  MaxEdits = 1
  MaxCommits = 3
  MaxRestarts = 1
SYMMETRY Symmetry
INVARIANTS WriterAgrees SessionsKeepBoundary
PROPERTIES RestartKeepsChanges ImplementsRegister
CHECK_DEADLOCK FALSE
