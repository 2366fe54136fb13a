CONSTANTS
  c1 = c1
  c2 = c2
  Address = {a1, a2}
  Text = {24}
  Cid = {63, 64, 65}
  None = None
  MaxDaos = 1
  Alias = {}
  MaxListed = 2
  Zero = c0
  Leaf = {c1, c2}
  Depth = {1}
  MaxTreeDepth = 1
  MaxRootHistory = 2
  MaxRoots = 2
  U256 <- MCU256
  FieldModulus = 3
  Secret <- MCSecret
  secret_of <- MCSecretOf
  nullifier_of <- MCNullifierOf
  Vk = {v1}
  VoteCircuitVk = {v1}
  MaxProposals = 1
  MaxVks = 1
  MaxTime = 0
  MAX_REVISIONS = 1
  MaxComments = 2
SYMMETRY Symmetry
CONSTRAINT Settings
CONSTRAINT Changes
CONSTRAINT ShortAfterRemoval
SPECIFICATION CommentsSpec
INVARIANT CommentTypeOK
INVARIANT ThreadsAreTrees
INVARIANT OneAuthorPerComment
INVARIANT CommentRootsMatchVoting
PROPERTY CommentsArePermanent
