SPECIFICATION Spec
CONSTANTS
  None = None
  Null = Null
  Forged = Forged
  alice = alice
  bob = bob
  alpha = alpha
  helper = helper
  v1 = v1
  v2 = v2
  Teams = {alpha}
  Humans = {alice, bob}
  Agents = {helper}
  Owner <- MCOwner
  FirstMembers <- MCFirstMembers
  Files <- MCFiles
  ContentRequests <- MCContentRequests
  AskedTerms <- MCAskedTerms
  AskedRoles = {"viewer", "admin"}
  MaxTime = 1
  MaxEnrolments = 2
  MaxWaiting = 2
INVARIANTS
  TeamsKeepAnAdmin
  GrantsLoad
  DecidesByCurrentEnrolment
  DamageIsSeen
  ExposureIsApproved
CHECK_DEADLOCK FALSE
