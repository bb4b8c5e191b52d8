\* Two commands of one call at any isolation levels, and a browser.
SPECIFICATION Spec
CONSTANTS
  w1 = w1
  w2 = w2
  Free = Free
  Writer <- MCWriter
  Instant <- MCInstant
  MaxEvents = 3
CHECK_DEADLOCK FALSE
INVARIANTS
  TypeOK
  SequenceFollowsCommit
  SkipsOnlySlipped
PROPERTIES
  AtLeastOnce
  ImplementsFeed
