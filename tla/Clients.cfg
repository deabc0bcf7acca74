CONSTANTS
  c1 = c1
  c2 = c2
  a = a
  b = b
  Conns = {c1, c2}
  Shards = {a, b}
  Capacity = 1
  MaxRequests = 2
  Window = 1
  Route <- MCRoute
  Malformed <- MCMalformed
SPECIFICATION FairSpec
INVARIANTS
  TypeOK
  NoLostWakeup
  AnswersInOrder
  NeverPanics
PROPERTY EveryRequestAnswered
