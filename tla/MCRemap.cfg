SPECIFICATION Spec
CONSTANTS
  c1 = c1
  NULL = NULL
  Resource <- MCResource
  Doc = {"d1", "d2"}
  Type <- MCType
  TypeOf <- MCTypeOf
  Number <- MCNumber
  Column <- MCColumn
  JoinTable = {}
  World <- MCWorld
  Answer <- MCAnswer
  Command = {c1}
  MaxJobs = 2
INVARIANTS
  RefreshMirrors
  RemapRestores
