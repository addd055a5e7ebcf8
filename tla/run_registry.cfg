SPECIFICATION Spec
CONSTANTS
  Run = {r1, r2, r3}
  Handler = {h1, h2}
  Slots = 2
  MaxRuns = 2
  MaxJobs = 3
  MaxRestarts = 1
  MaxFaulted = 1
SYMMETRY Symmetry
INVARIANTS
  OneDriver
  LiveIsListed
  SlotsConserved
  SucceededIsCompleted
PROPERTIES
  ImplementsLease
CHECK_DEADLOCK FALSE
