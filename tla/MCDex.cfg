SPECIFICATION MCSpec
CONSTANTS
  Parties = {alice, bob, iss}
  Issuer = iss
  Amounts = {0, 2, 4}
  Tokens = {0, 1, 2}
  Prices <- MCPrices
  Fees = {0, 2}
  FeeScale = 4
  DiscountFraction = 2
  MinFeeFraction = 2
  voteMaxSlots = 1
  VoteScale = 100
  Intervals = 3
  IntervalLength = 1
  DecayPower = 2
  Tolerance = 3
  maxDeletableAMMTrustLines = 1
  BaseReserve = 2
  IncReserve = 1
  Funds = 6
  FundsXRP = 12
  LastTime = 2
  Budget = 3
  Stake = 2
  Accounts = {1, 2, 3}
  Rate <- MCRate
  DefaultRipple = {2}
  RequireAuth = {}
  ReserveBase = 2
  ReserveInc = 1
  MaxOffers = 3
  MaxTries = 5
  MaxConsidered = 6
  MaxDeliver = 50
  Payments <- MCPayments
  Creates <- MCCreates
  CreateFlags = {{"sell"}, {"passive"}, {"fok"}, {"ioc"}}
  Trades = 3
  CrowdedBooks = FALSE
  Quotes <- MCQuotes
  SandboxKeys = {1, 2}
  SandboxValues = {"x", "y"}
  Parts = {"amm", "trade", "sandbox"}
INVARIANTS PoolAccounted OffersConsistent SandboxIsMap
PROPERTIES SharesKeepValue MoneyKept PricesKept
CHECK_DEADLOCK FALSE
