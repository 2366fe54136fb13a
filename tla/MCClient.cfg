CONSTANTS
  a1 = a1
  a2 = a2
  c1 = c1
  c2 = c2
  Address = {a1, a2}
  Text = {24}
  Cid = {}
  None = None
  MaxDaos = 1
  Alias = {}
  MaxListed = 3
  Zero = c0
  Leaf = {c1, c2}
  Depth = {1}
  MaxTreeDepth = 1
  MaxRootHistory = 2
  MaxRoots = 4
  U256 <- MCU256
  FieldModulus = 5
  Secret <- MCSecret
  secret_of <- MCSecretOf
  nullifier_of <- MCNullifierOf
  Vk = {v1}
  VoteCircuitVk = {v1}
  MaxProposals = 1
  MaxVks = 1
  MaxTime = 0
  Dao = 1
  commitment_of <- MCCommitmentOf
  ZKey = v1
  Form <- MCForm
  Choice = {TRUE}
  Voter = {a2}
  MaxFailures = 1
SPECIFICATION FairClientSpec
INVARIANT ClientTypeOK
PROPERTY RemovalTakesBoth
PROPERTY RegistrationSettles
PROPERTY TrailingVoterVotes
