\* A SERIALIZABLE and a READ COMMITTED command of one call together.
SPECIFICATION Spec
CONSTANTS
  w1 = w1
  w2 = w2
  Free = Free
  Writer <- MCWriter
  Instant <- MCInstant
  MaxEvents = 3
CHECK_DEADLOCK FALSE
INVARIANT
  NothingSkipped
