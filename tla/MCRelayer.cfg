CONSTANTS
  v1 = v1
  Voter = {v1}
  Handler <- MCHandler
  None = None
  MaxRetries = 2
  MaxOthers = 1
SPECIFICATION FairSpec
INVARIANT RelayerTypeOK
INVARIANT ConfirmedIsRecorded
PROPERTY EveryCallSettles
PROPERTY EveryVoterIsCounted
