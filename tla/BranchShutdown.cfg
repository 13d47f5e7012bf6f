SPECIFICATION ShutdownFairSpec
CONSTANTS
  MAX_PAR_STALENESS = 2
  MAX_RATE_STALENESS = 1
  Pars = {1, 2}
  Prices = {99, 100}
  DEVIATION_THRESHOLD = 1
  SafePrice = 100
INVARIANT ShutDownTogether
PROPERTIES SettlementFixed DeadOracleShutsDown
