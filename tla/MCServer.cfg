SPECIFICATION MCFairSpec
CONSTANTS
  A = a
  B = b
  Txs <- MCTxs
  Tx <- MCTx
  QAccounts = {a, b}
  Funded <- MCFunded
  FirstTickets <- MCTickets
  FirstSeq = 1
  MaxTicketCount = 2
  Stuck = {1}
  BaseLevel = 2
  RetriesAllowed = 2
  MinimumEscalationMultiplier = 2
  MinimumTxnInLedger = 1
  TargetTxnInLedger = 1
  MaximumTxnInLedger = 2
  LedgersInQueue = 2
  QueueSizeMin = 2
  MaximumTxnPerAccount = 2
  MinimumLastLedgerBuffer = 1
  Reserve = 5
  LastLedger = 4
INVARIANTS BlockerAlone
PROPERTIES AcceptTakesTheBest EveryoneLeaves
CHECK_DEADLOCK FALSE
