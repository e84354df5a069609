\* Two watches that find the same offer.
CONSTANTS
  Watches <- TwoWatches
  Prices = {80, 97, 100}
  References = {130}
  Legacy <- NothingOlder
  MaxDay = 4
  MaxVisits = 3
  Short = 1
  Window = 2
  Keep = 3
SPECIFICATION DealSpec
PROPERTIES EveryWatchAlerts
CHECK_DEADLOCK FALSE
