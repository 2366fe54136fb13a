CONSTANTS
  votes = votes
  members = members
  t1 = t1
  t2 = t2
  e1 = e1
  e2 = e2
  e3 = e3
  k1 = k1
  k2 = k2
  k3 = k3
  contracts <- MCContracts
  Tx = {t1, t2}
  Event = {e1, e2, e3}
  tx_of <- MCTxOf
  contract_of <- MCContractOf
  kind_of <- MCKindOf
  Kind = {k1, k2, k3}
  Announced = {k1}
  Creation = {k2}
  Synthetic = Synthetic
  Manual = {m1}
  OldLedger = {0, 1}
  Null = Null
  PageLimit = 1
  VerifyLimit = 1
  MaxLedger = 2
  MaxNotified = 2
  MaxCrashes = 1
SPECIFICATION FairSpec
INVARIANT IndexerTypeOK
INVARIANT VerifiedTransactionsSucceeded
 
PROPERTY IndexOnlyGrows
PROPERTY PendingSettles
