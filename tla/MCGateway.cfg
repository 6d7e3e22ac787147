SPECIFICATION FairSpec
CONSTANTS
  c1 = c1
  c2 = c2
  r1 = r1
  r2 = r2
  run1 = run1
  run2 = run2
  publish = publish
  republish = republish
  profile = profile
  elevate = elevate
  video = video
  project = project
  file = file
  partner = partner
  grant = grant
  team = team
  h1 = h1
  ownerA = ownerA
  NoBinding = NoBinding
  Calls = {c1, c2}
  Requests = {r1}
  Runs = {run1}
  SoloRuns = {run1}
  Operations = {publish}
  Reads = {}
  Resources = {video}
  Destinations = {partner}
  Grants = {}
  Teams = {}
  MaxVersion = 2
  Humans = {h1}
  Authorities = {ownerA}
  TTL = 1
  MaxTime = 1
  WritesMayFail = TRUE
  RunOf <- MCRunOf
  Tier <- MCTier
  Touched <- MCTouched
  HumanOf <- MCHumanOf
  RoleOf <- MCRoleOf
  CoversOps <- MCCoversOps
INVARIANTS
  TypeOK
  EffectsAreLogged
  SuccessIsReal
  EffectMatchesApproval
PROPERTIES
  RevocationBeatsTheQueue
  QuarantineFreezes
  CallsReturn
CHECK_DEADLOCK FALSE
