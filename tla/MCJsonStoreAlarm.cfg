SPECIFICATION Spec
CONSTANTS
  audit = audit
  plain = plain
  faulty = faulty
  Mutations = {audit, plain, faulty}
  Audits = {audit, faulty}
  Throwing = {faulty}
  NoMutation = NoMutation
  Readers = {v1, v2}
  Torn = Torn
  Missing = Missing
  ReplaceMayFail = FALSE
  WriteMayFail = TRUE
  MayBeEdited = FALSE
  MaxCrashes = 1
PROPERTIES
  AlarmsAreReal
CHECK_DEADLOCK FALSE
