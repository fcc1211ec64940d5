CONSTANTS
  rate = rate
  increment = increment
  gauge = gauge
  histogram = histogram
  None = None
  Counters <- MCCounters
  RateCounters <- MCRates
  Gauge = gauge
  Histogram = histogram
  Steps <- MCSteps
  Values <- MCValues
  IdOf <- MCIdOf
  Amounts <- MCAmounts
  MaxCount = 1
  MaxAdds = 0
SPECIFICATION FairSpec
PROPERTIES
  RunsInBackground
CHECK_DEADLOCK FALSE
