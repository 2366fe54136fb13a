CONSTANTS
  c1 = c1
  c2 = c2
  c3 = c3
  Address = {a1, a2}
  Text = {24}
  Cid = {}
  None = None
  MaxDaos = 1
  Alias = {}
  MaxListed = 2
  Zero = c0
  Leaf = {c1, c2, c3}
  Depth = {1}
  MaxTreeDepth = 1
  MaxRootHistory = 2
  MaxRoots = 4
  U256 <- MCU256
  FieldModulus = 3
  Secret <- MCSecret
  secret_of <- MCSecretOf
  nullifier_of <- MCNullifierOf
  Vk = {v1, v2}
  VoteCircuitVk = {v1}
  MaxProposals = 1
  MaxVks = 1
  MaxTime = 0
SYMMETRY Symmetry
CONSTRAINT Settings
SPECIFICATION Spec
INVARIANT TrailingBallotsAreLive
