SPECIFICATION Spec
CONSTANTS
  alice = alice
  bob = bob
  ann = ann
  ben = ben
  Team <- MCTeam
  Owner <- TwoOwners
  Frontend = {bob}
  Backend = {}
  MaxRuns = 1
  MaxTasks = 3
  MaxWork = 3
  MaxIterations = 50
  Messages <- MCMessages
  Silent = {}
  Callers = {}
  MaxFaults = 0
  MaxRestarts = 0
INVARIANTS
  TeamOfOneOwner
CHECK_DEADLOCK FALSE
