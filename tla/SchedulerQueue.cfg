\* Two requests, two accounts, three configurations; see MCScheduler.
SPECIFICATION FairSpec
CONSTANTS
  a1 = a1
  a2 = a2
  None = None
  Requests = {r1, r2}
  Accounts = {a1, a2}
  Generations = {"one", "two", "without"}
  FirstGeneration = "one"
  Member <- MCMember
  Limit <- MCLimit
INVARIANTS LeasesExact SleepersAreWatched
PROPERTIES ImplementsLedger FreedSlotIsNoticed
