\* Three readers; generations overlap and may last longer than the TTL, and those of r1
\* never end.
SPECIFICATION FairSpec
CONSTANTS
  Readers = {r1, r2, r3}
  Hung = {r1}
  TTL = 1
  GenMax = 2
  MaxTime = 4
  MaxVersion = 2
INVARIANTS
  TypeOK
PROPERTIES
  HitsAreFresh
  RegressesOnlyOnOverlap
  ImplementsReadThrough
  ReadsDontBlock
