SPECIFICATION Spec
CONSTANTS
  Capacity = 1
  RefillMs = 2
  MaxKeys = 1
  MaxEntries = 2
  Senders = {"alice", "bob"}
  Entries <- MCEntries
  NamesOf <- MCNamesOf
  CommandOf <- MCCommandOf
  CooldownMs <- MCCooldownMs
  Concurrency = 2
  LogThrottle = 1
  NoEntry = NoEntry
  MaxTime = 4
  MaxRuns = 3
INVARIANTS SlotsMatch WholeEntries RateHolds CooldownsHold
PROPERTY SlotsFreed
