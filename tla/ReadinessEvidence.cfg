\* Two requests, two routes and room for one record, while a
\* route is replaced and the process restarts.
SPECIFICATION Spec
CONSTANTS
  s1 = s1
  s2 = s2
  ra = ra
  rb = rb
  f = f
  g = g
  None = None
  h1 = h1
  h2 = h2
  Handlers = {h1, h2}
  Routes = {ra, rb}
  Scopes = {s1, s2}
  RouteOf <- MCRouteOf
  TargetOf <- MCTargetOf
  Configs <- MCConfigs
  Outcomes = {TRUE, FALSE}
  Capacity = 1
  Freshness = 0
  MaxTime = 1
  MaxReports = 2
  Circuits <- MCCircuits
  MaxCommits = 1
INVARIANT EvidenceIsCurrent
PROPERTIES ReadyIsProven
SYMMETRY MCSymmetry
