SPECIFICATION FairSpec
CONSTANTS
  Entity <- MCEntity
  KindOf <- MCKindOf
  a1 = a1
  a2 = a2
  b = b
  Item = {a1, a2, b}
  NameOf <- MCNameOf
  Initially <- MCInitially
  UserAttrs <- MCUserAttrs
  Selections <- MCUsersOnly
  Refusals <- MCNoRefusals
  Slots = 2
  NULL = NULL
  MaxDrifts = 2
INVARIANTS RowsOfOneMoment
CHECK_DEADLOCK FALSE
