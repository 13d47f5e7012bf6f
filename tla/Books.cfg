SPECIFICATION BooksSpec
CONSTANTS
  Borrowers = {b1, b2, b3, b4}

  u1 = u1
  u2 = u2
  u3 = u3
  Users = {u1, u2, u3}
  ZeroAddress = ZeroAddress
  DECIMAL_PRECISION = 900
  SCALE_FACTOR = 30
  MIN_LUSD_IN_SP = 20
  KickbackRates = {400}
  Amounts = {500, 800}
  Debts = {100, 1000}
  Colls = {60}
  Fees = {0, 7}
  Issuances = {50}
  MaxScale = 3
  MaxOps = 5

  Stakers = {s1, s2}
  Interest <- MCInterest
  lpAllocFracs = {75}
  oracleMinBalance = 2
  oracleTargetBalance = 4
  distributionFreq = 1
  PRECISION = 100
  Stakes = {3}
  MaxFees = 4
SYMMETRY UserSymmetry
CHECK_DEADLOCK FALSE
INVARIANTS
  BooksTypeOK OwnersIndexed ListedIffActive DepositsCovered OffsetNeverAsserts
  InterestMintedOnce StakersCovered
PROPERTIES NeverEmptied GainsPerShare
