CONSTANTS
  Requests = {r1, r2}
  Sources = {s1, s2}
  Items = {c1}
  MaxWorkers = 2
  Deadline = {r1}
  Hanging = {s1}
SPECIFICATION FairSpec
INVARIANTS
  TypeOK
PROPERTIES
  KeepsPromise
  EveryoneReplies
