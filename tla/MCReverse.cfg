CONSTANTS
  r1 = r1
  e1 = e1
  Requests = {r1, r2}
  Sources = {s1, s2}
  Items = {e1, e2}
  Extens <- MCExtens
  MaxWorkers = 1
  None = None
  Hanging = {s1}
SPECIFICATION FairSpec
INVARIANTS
  FuturesAreSound
  ResultsAreTrue
PROPERTIES
  EveryReverseReplies
