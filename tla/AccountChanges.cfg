\* A pool and a direct source, two providers.
SPECIFICATION ChangesSpec
CONSTANTS
  Absent = Absent
  pool = pool  api = api  sol = sol  gem = gem
  codex = codex  gemini = gemini
  f1 = f1  f2 = f2  f3 = f3  k1 = k1  k2 = k2
  ModelOrder <- MCModelOrder
  LogicalOf <- MCLogicalOf
  Codex = {sol}
  FastTier = {sol}
  Preference <- MCPreference
  AccountOrder <- MCAccountOrder
  Pools = {pool}
  Shared = pool
  ProviderOrder <- MCProviderOrder
  Scope <- MCScope
  ProviderOf <- MCProviderOf
  NewKey = k1
  Imported <- MCImported
  Files = {f1, f2, f3}
  FileProvider <- MCFileProvider
  OwnCatalog <- MCOwnCatalog
  ImportFiles <- MCImportFiles
  FirstSettings <- MCFirstSettings
  FirstFiles <- MCFirstFiles
  Keys = {k1, k2}
  MaxTurns = 3
INVARIANTS ChangesAreWhole VerifiedIsProven
PROPERTY PoolsDeclareWhatTheyServe ExclusionsKept DiscoveryIsQuiet
CHECK_DEADLOCK FALSE
