SPECIFICATION MCSpec
CONSTANTS
  a = a
  b = b
  c = c
  d = d
  kb = kb
  l1 = l1
  m1 = m1
  l3 = l3
  None = None
  Keys <- MCNodes
  Nodes <- MCNodes
  Resolve <- MCResolve
  Ledgers <- MCLedgers
  SeqOf <- MCSeqOf
  UNL <- MCNodes
  TrustedSets <- MCTrustedSets
  NegUNLs <- MCNegUNLs
  Quorums <- MCQuorums
  MinSeqs = {}
  SignOffsets = {0}
  SeenOffsets = {None}
  KnownSets <- MCKnownSets
  InMemoryLedgers = 1
INVARIANTS
  IndexesAgree
  TipsOfTrusted
  Agreement
  ExactlyOnce
PROPERTIES
  ExpirySound
VIEW MCView
CHECK_DEADLOCK FALSE
