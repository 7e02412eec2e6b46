SPECIFICATION OutboxFairSpec
CONSTANTS
  k1 = k1
  k2 = k2
  p1 = p1
  p2 = p2
  p3 = p3
  Tasks = {k1, k2}
  Publishers = {p1, p2}
  NoPublisher = NoPublisher
INVARIANTS
  PublishedIsTold
PROPERTIES
  EnqueuedIsTold
