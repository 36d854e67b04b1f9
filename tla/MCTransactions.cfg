\* Transactions of every modelled type on two small ledgers.
CONSTANTS
  alice = alice
  bob = bob
  carol = carol
  GenesisSeq = 53
  FirstSeq = 51
  None = None
  XRP = XRP
  Accounts <- MCAccounts
  IssuerTail <- MCIssuerTail
  Scopes <- MCScopes
  dirNodeMaxEntries = 1
  DirNodeMaxPages = 8
  BaseFee = 1
  ReserveBase = 2
  ReserveIncrement = 1
  Unlimited = 99
  qualityOne = 4
  transferFeeDivisor = 4
  maxDeletableTokenOfferEntries = 2
  dirMaxTokensPerPage = 2
  Span = 16
  maxMPTokenAmount = 99
  maxTicketCount = 2
  oraclePairsPerReserve = 1
  MaxOracleDataSeries = 2
  MaxLastUpdateTimeDelta = 1
  seqDelta = 1
  maxDeletableDirEntries = 2
SPECIFICATION MCSpec
VIEW View
SYMMETRY Swap
CHECK_DEADLOCK FALSE
INVARIANTS
  LedgerConsistent
  NeverLockedOut
  TokensInPlace
  HoldingsConsistent
PROPERTIES
  NoReplay
  FailsCleanly
  RightsRespected
  SalesExact
  TokensFollowRules
  EscrowPaysOut
