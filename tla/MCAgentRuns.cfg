SPECIFICATION FairSpec
CONSTANTS
  agent = agent
  Agents = {agent}
  MaxRuns = 2
  AgentOf <- MCAgentOf
  Callers = {caller}
  Unlucky = {1}
  MaxRestarts = 1
INVARIANTS
  AuthorityEndsWithRun
  RevocationIsFinal
  BusyAgentsRun
PROPERTIES
  StopTakesEffect
  RunsEnd
  RequestsReturn
CHECK_DEADLOCK FALSE
