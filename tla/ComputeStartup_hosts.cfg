\* Three hosts, three iterations, two tries.
SPECIFICATION Spec
CONSTANTS
  Hosts = {h1, h2, h3}
  Iterations = 3
  Retries = 2
INVARIANTS DoneIsMapped StepsInOrder
PROPERTY EveryHostEnds
CHECK_DEADLOCK FALSE
