SPECIFICATION FairSpec
CONSTANTS
  r1 = r1
  r2 = r2
  h1 = h1
  h2 = h2
  h3 = h3
  ownerA = ownerA
  reviewB = reviewB
  ownerC = ownerC
  reviewC = reviewC
  disclose = disclose
  moderate = moderate
  run1 = run1
  run2 = run2
  asset = asset
  partner = partner
  Requests = {r1}
  Bindings = {disclose, moderate}
  NoBinding = NoBinding
  Critical = {disclose}
  Scopes = {run1, run2, asset, partner}
  Destinations = {partner}
  Humans = {h1, h2, h3}
  Authorities = {ownerA, reviewB, ownerC, reviewC}
  RunOf <- MCRunOf
  ScopesOf <- MCScopesOf
  HumanOf <- MCHumanOf
  RoleOf <- MCRoleOf
  Covers <- MCCovers
  TTL = 2
  MaxTime = 3
  Unlucky = {ownerC, reviewC}
INVARIANTS
  ConsumedOnce
  ClaimFollowsApproval
  DualControl
PROPERTIES
  ConsumesOnlyCurrent
  BindingIsFixed
  ImplementsOneUse
  RevokedAuthorityDrains
CHECK_DEADLOCK FALSE
