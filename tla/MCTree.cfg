CONSTANTS
  Address = {a1, a2}
  Text = {24, 25}
  Cid = {}
  None = None
  MaxDaos = 1
  Alias = {x}
  MaxListed = 3
  Zero = c0
  Leaf = {c0, c1, c2, c3, c4}
  Depth = {0, 1, 2, 3}
  MaxTreeDepth = 2
  MaxRootHistory = 3
  MaxRoots = 6
SYMMETRY Symmetry
CONSTRAINT Apart
SPECIFICATION TreeSpec
INVARIANT SbtTypeOK
PROPERTY ListFollowsEntries
INVARIANT TreeTypeOK
INVARIANT OneMemberPerLeaf
INVARIANT RootsVouchForRegistered
INVARIANT LiveLeavesInCurrentRoot
INVARIANT CurrentRootIsNewest
INVARIANT PathsVerifyUntilRemoval
PROPERTY EntriesArePermanent
PROPERTY RemovalTakesEffect
PROPERTY RemovedCommitmentStaysOut
