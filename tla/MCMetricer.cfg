CONSTANTS
  rate = rate
  increment = increment
  gauge = gauge
  histogram = histogram
  None = None
  Counters <- MCCounters
  RateCounters <- MCRates
  Gauge = gauge
  Histogram = histogram
  Steps <- MCSteps
  Values <- MCValues
  IdOf <- MCIdOf
  Amounts <- MCAmounts
  MaxCount = 1
  MaxAdds = 1
SPECIFICATION FairSpec
INVARIANTS
  TypeOK
  RatesAddUp
  BucketsAreExact
PROPERTIES
  ReportsGrow
  CountsAreReported
  TaskEnds
CHECK_DEADLOCK FALSE
