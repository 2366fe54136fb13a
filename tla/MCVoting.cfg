CONSTANTS
  c1 = c1
  c2 = c2
  c3 = c3
  Address = {a1, a2}
  Text = {24, 101}
  Cid = {}
  None = None
  MaxDaos = 1
  Alias = {}
  MaxListed = 2
  Zero = c0
  Leaf = {c1, c2, c3}
  Depth = {1}
  MaxTreeDepth = 1
  MaxRootHistory = 2
  MaxRoots = 4
  U256 <- MCU256
  FieldModulus = 3
  Secret <- MCSecret
  secret_of <- MCSecretOf
  nullifier_of <- MCNullifierOf
  Vk = {v1, v2, v3}
  VoteCircuitVk = {v1, v2}
  MaxProposals = 2
  MaxVks = 2
  MaxTime = 2
SYMMETRY Symmetry
SPECIFICATION MCSpec
INVARIANT VotingTypeOK
INVARIANT TallyMatchesBallots
INVARIANT OneBallotPerSecret
INVARIANT FixedElectorate
INVARIANT TrailingStaysVotable
INVARIANT VkPinned
PROPERTY ImplementsElection
PROPERTY ResultsAreFinal
