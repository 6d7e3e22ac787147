SPECIFICATION Spec
CONSTANTS
  alice = alice
  bob = bob
  ann = ann
  ben = ben
  Team <- MCTeam
  Owner <- OneOwner
  Frontend = {bob}
  Backend = {}
  MaxRuns = 1
  MaxTasks = 3
  MaxWork = 3
  MaxIterations = 50
  Messages <- MCMessages
  Silent = {}
  Callers = {caller}
  MaxFaults = 0
  MaxRestarts = 0
INVARIANTS
  DownstreamIsSkipped
CHECK_DEADLOCK FALSE
