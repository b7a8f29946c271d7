\* Two clients, two requests a window, a window of two ticks.
SPECIFICATION FairSpec
CONSTANTS
  Keys = {k1, k2}
  Limit = 2
  Window = 2
INVARIANTS
  TypeOK
  AtMostTwice
PROPERTIES
  KeepsPromise
  RefusalEnds
