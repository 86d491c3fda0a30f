\* Two threads and every operation of a two-bit counter.
CONSTANTS
  Threads = {t1, t2}
  Ops = {"++x", "--x", "x++", "x--", "Add"}
  Modulus = 4
  MaxOps = 5
SPECIFICATION AtomicSpec
INVARIANTS
  NumbersDistinct
PROPERTIES
  ImplementsCounter
CHECK_DEADLOCK FALSE
