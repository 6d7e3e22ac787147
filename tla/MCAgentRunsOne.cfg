SPECIFICATION Spec
CONSTANTS
  agent = agent
  Agents = {agent}
  MaxRuns = 3
  AgentOf <- MCAgentOf
  Callers = {caller}
  Unlucky = {}
  MaxRestarts = 0
INVARIANTS
  OneActiveRun
CHECK_DEADLOCK FALSE
