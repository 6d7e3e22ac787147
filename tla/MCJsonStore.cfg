SPECIFICATION FairSpec
CONSTANTS
  audit = audit
  plain = plain
  faulty = faulty
  Mutations = {audit, plain, faulty}
  Audits = {audit, faulty}
  Throwing = {faulty}
  NoMutation = NoMutation
  Readers = {v1}
  Torn = Torn
  Missing = Missing
  ReplaceMayFail = TRUE
  WriteMayFail = TRUE
  MayBeEdited = TRUE
  MaxCrashes = 2
INVARIANTS
  AcknowledgedIsKept
  DamageSeals
PROPERTIES
  ImplementsLog
  MutationsSettle
CHECK_DEADLOCK FALSE
