SPECIFICATION Spec
CONSTANTS
  c1 = c1
  c2 = c2
  r1 = r1
  r2 = r2
  run1 = run1
  run2 = run2
  publish = publish
  republish = republish
  profile = profile
  elevate = elevate
  video = video
  project = project
  file = file
  partner = partner
  grant = grant
  team = team
  h1 = h1
  ownerA = ownerA
  NoBinding = NoBinding
  Calls = {c1, c2}
  Requests = {r1}
  Runs = {run1}
  SoloRuns = {run1}
  Operations = {profile, elevate}
  Reads = {profile, elevate}
  Resources = {file}
  Destinations = {}
  Grants = {grant}
  Teams = {team}
  MaxVersion = 2
  Humans = {h1}
  Authorities = {ownerA}
  TTL = 1
  MaxTime = 0
  WritesMayFail = FALSE
  RunOf <- MCRunOf
  Tier <- MCTier
  Touched <- MCTouched
  HumanOf <- MCHumanOf
  RoleOf <- MCRoleOf
  CoversOps <- MCCoversOps
INVARIANTS
  EffectsAreLogged
  EffectMatchesApproval
PROPERTIES
  RevocationBeatsTheQueue
CHECK_DEADLOCK FALSE
SYMMETRY SameCalls
