CONSTANTS
  a1 = a1
  a2 = a2
  Address = {a1, a2}
  Text = {24}
  Cid = {}
  None = None
  MaxDaos = 2
  Alias = {}
  MaxListed = 3
  Sync = {s1, s2}
  Scan = {m1}
  BATCH_SIZE = 1
  MaxChanges = 2
  MaxFailures = 1
  MaxRestarts = 1
SPECIFICATION MCSpec
INVARIANT SyncTypeOK
INVARIANT RosterIsPrefix
PROPERTY CachesCatchUp
