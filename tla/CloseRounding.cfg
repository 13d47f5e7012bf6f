SPECIFICATION BranchSpec
CONSTANTS
  Borrowers = {b1, b2, b3}
  RATE_PRECISION = 8
  DECIMAL_PRECISION = 1000
  MCR = 1100
  SCR = 1100
  HCR = 1300
  CCR = 1500
  LUSD_GAS_COMPENSATION = 10
  MIN_NET_DEBT = 20
  MIN_LUSD_IN_SP = 5
  PERCENT_DIVISOR = 80
  spAllocFrac = 750
  LIQUIDATION_PENALTY = 1050
  LIQUIDATION_PENALTY_REDIST = 1100
  Growth <- Quarter
  MaxRate = 16
  MaxUint = 1000000000
  Prices = {100, 150}
  Colls = {870, 2000}
  Amounts = {70}
  Adjustments <- MCAdjustments
  Deposits = {50, 120}
  Redeemed = {}
  RedemptionRates = {}
  Discounts = {}
  Hints = {}
  MaxBatch = 2
  MaxOps = 6
CHECK_DEADLOCK FALSE
INVARIANT RepaymentFits
