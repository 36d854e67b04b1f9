SPECIFICATION FairSpec
CONSTANTS
    p1 = p1
    p2 = p2
    s1 = s1
    s2 = s2
    None = None
    Peers = {p1, p2}
    TxSets = {s1, s2}
    EmptySet = s1
    Pending = {s1}
    Messages <- ProposalsAndForks
    Adoptable <- ForkLedgers
    MaxReports = 1
    SeqLeave = 9
    MaxSeq = 3
    MaxPos = 1
    BufferCap = 1
VIEW EngineView
INVARIANTS RoundConsistent
PROPERTIES PositionsHonest WrongLedgerLeft
