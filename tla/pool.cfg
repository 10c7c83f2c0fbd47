SPECIFICATION Spec
CONSTANTS
  t1 = t1
  t2 = t2
  Threads <- MCThreads
  Txs <- MCTxs
  Accounts <- MCAccounts
  Sender <- MCSender
  Recipient <- MCRecipient
  Nonce <- MCNonce
  Amount <- MCAmount
  L2 <- MCNone
  Funds <- MCFunds
  MaxBlocks = 2
  MaxFailures = 1
SYMMETRY MCSymmetry
CONSTRAINT FewerAfterFailure
INVARIANTS
  TypeOK ConfirmedOnce NoOverdraft PoolOnDisk
