SPECIFICATION Spec
CONSTANTS
  c1 = c1
  c2 = c2
  NULL = NULL
  Resource <- MCResource
  Doc = {"d1", "d2"}
  Type <- MCType
  TypeOf <- MCTypeOf
  Number <- MCNumber
  Column <- MCColumn
  JoinTable <- MCJoinTable
  World <- MCWorld
  Answer <- MCAnswer
  Command = {c1, c2}
  MaxJobs = 2
SYMMETRY Symmetry
INVARIANTS
  TypeOK
  ViewsRefer
  RefreshMirrors
  RefreshesWhatItMapped
  RemapRestores
