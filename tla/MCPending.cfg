CONSTANTS
  votes = votes
  members = members
  t1 = t1
  t2 = t2
  e1 = e1
  e2 = e2
  e3 = e3
  k1 = k1
  k2 = k2
  k3 = k3
  contracts <- MCContracts
  Tx = {t1, t2}
  Event = {e1}
  tx_of <- MCTxOf
  contract_of <- MCContractOf
  kind_of <- MCKindOf
  Kind = {k1}
  Announced = {k1}
  Creation = {}
  Synthetic = Synthetic
  Manual = {}
  OldLedger = {0}
  Null = Null
  PageLimit = 1
  VerifyLimit = 1
  MaxLedger = 1
  MaxNotified = 2
  MaxCrashes = 0
SPECIFICATION FairSpec
PROPERTY PendingIsVerified
