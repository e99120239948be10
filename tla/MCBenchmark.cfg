SPECIFICATION Spec
CONSTANTS
  p1 = p1
  p2 = p2
  Provider = {p1, p2}
  NameOf <- MCNameOf
  NULL = NULL
  Object = Object
  Specs = {NULL, "o-1"}
  Initially <- MCInitially
  Variants <- MCVariants
  MaxChanges = 2
INVARIANTS
  TypeOK
  PassIsEarned
  FailIsReal
