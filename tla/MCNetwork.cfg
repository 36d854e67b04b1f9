SPECIFICATION MCFairSpec
CONSTANTS
  tA = tA tB = tB tC = tC pA = pA pB = pB cA = cA cB = cB cC = cC
  None = None NoSlot = NoSlot
  Parts = {"service", "acquire", "connect", "relay"}
  ServiceBudget = 7
  AcquireBudget = 3
  ConnectBudget = 3
  RelayBudget = 4
  Txs <- MCTxs
  MaxSeq = 3
  PeerLedgers <- MCPeerLedgers
  NetworkLedgers <- MCNetworkLedgers
  MaxPending = 2
  PendingTTL = 1
  HeldTTL = 1
  HeldCascadeMax = 2
  BranchFactor = 2
  MaxDepth = 3
  Data = {1}
  Peers = {pA, pB}
  ReplayPeers = {pA, pB}
  HeaderOnlyPeers = {pB}
  KeyOf <- MCKeyOf
  GenesisKey <- MCGenesisKey
  Stray = tC
  MaxReply = 5
  FatDepth = 2
  MaxInFlight = 2
  MaxPerPeerReplays = 1
  SubTaskTicks = 0
  RetryMax = 1
  OuterTicks = 1
  LegacyTicks = 0
  PeerIDs = {cA, cB, cC}
  HostOf <- MCHostOf
  Inbound = {cC}
  MaxInbound = 1
  MaxOutbound = 2
  Replay = {cA}
  EventCap = 2
  MessageCap = 1
  MinMessageThreshold = 0
  MaxMessageThreshold = 0
  MaxSelectedPeers = 1
  IdledTicks = 1
  SquelchTicks = 3
  StaleTicks = 4
  RelayedTicks = 1
  EvictThreshold = 2
INVARIANTS
  ValidationExact
  AcquisitionSound
  SelectedExactly
PROPERTIES
  AdoptionChains
  NothingLingers
VIEW NetworkView
CHECK_DEADLOCK FALSE
