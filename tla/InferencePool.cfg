CONSTANTS
  Requests = {r1, r2, r3}
  PoolSize = 2
SPECIFICATION Spec
INVARIANTS TypeOK SlotAccounting DrainedMeansIdle
PROPERTIES EveryRequestAnswered SelfHeals ImplementsAdmission
\* The process ends after its shutdown.
CHECK_DEADLOCK FALSE
