\* Three goroutines on one cache; the clock runs past several expiries.  Fairness is that
\* of a mutex that does not starve and of API calls that end.
SPECIFICATION FairSpec
CONSTANTS
  Callers = {c1, c2, c3}
  NoCaller = NoCaller
  TTL = 2
  FetchMax = 1
  MaxTime = 6
  MaxVersion = 3
INVARIANTS
  TypeOK
PROPERTIES
  ReadsNeverRegress
  HitsAreFresh
  SpacedRefreshes
  ImplementsReadThrough
  GetReturns
