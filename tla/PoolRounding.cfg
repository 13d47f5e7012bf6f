SPECIFICATION PoolSpec
CONSTANTS
  Users = {u1, u2}
  ZeroAddress = ZeroAddress
  DECIMAL_PRECISION = 900
  SCALE_FACTOR = 30
  MIN_LUSD_IN_SP = 20
  KickbackRates = {}
  Amounts = {500, 800}
  Debts = {100, 1000}
  Colls = {60}
  Fees = {0}
  Issuances = {0}
  MaxScale = 3
  MaxOps = 6
CHECK_DEADLOCK FALSE
INVARIANT ErrorsFavorPool
