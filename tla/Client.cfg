CONSTANTS
  Callers = {c1, c2}
  c1 = c1
  c2 = c2
  Makes <- MCMakes
  MaxElapsed = 2
  MaxPause = 2
  Expiry = 5
  MaxSlow = 1
SPECIFICATION FairSpec
CHECK_DEADLOCK FALSE
INVARIANTS
  NeverSentExpired
  SeenTwiceOnlyUnheard
PROPERTIES
  ToldRight
  GivesUpLate
  RequestsEnd
