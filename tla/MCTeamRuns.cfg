SPECIFICATION FairSpec
CONSTANTS
  alice = alice
  bob = bob
  ann = ann
  ben = ben
  Team <- MCTeam
  Owner <- OneOwner
  Frontend = {bob}
  Backend = {}
  MaxRuns = 2
  MaxTasks = 3
  MaxWork = 3
  MaxIterations = 2
  Messages <- MCMessages
  Silent = {2}
  Callers = {caller}
  MaxFaults = 1
  MaxRestarts = 1
INVARIANTS
  TypeOK
  PlansAreRunnable
  InputsAreComplete
  CompletionIsWitnessed
  FailuresHaveATask
PROPERTIES
  StopWaitsForTheTeam
  TeamRunsEnd
  RequestsReturn
CHECK_DEADLOCK FALSE
