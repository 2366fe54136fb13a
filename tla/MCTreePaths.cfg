CONSTANTS
  Address = {a1, a2}
  Text = {24}
  Cid = {}
  None = None
  MaxDaos = 1
  Alias = {}
  MaxListed = 3
  Zero = c0
  Leaf = {c1, c2}
  Depth = {2}
  MaxTreeDepth = 2
  MaxRootHistory = 3
  MaxRoots = 4
SYMMETRY Symmetry
SPECIFICATION TreeSpec
INVARIANT ServedPathsLeadToRoot
