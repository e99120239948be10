SPECIFICATION Spec
CONSTANTS
  a1 = a1
  a2 = a2
  Account = {a1, a2}
  None = None
  NoSpec = NoSpec
  Service = {"iam"}
  Name <- MCNames
  Uri <- MCUri
  Payload <- MCPayload
  AttrName = {"Name"}
  AttrVal = {1, 2}
  Rel <- MCRel
  LinkVal = {"none"}
  Specs <- MCSpecs
  RootOf <- MCRootOf
  ServiceOf <- MCServiceOf
  TypeOf <- MCTypeOf
  GatesOf <- MCGatesOf
  Attrs <- MCAttrs
  Yields <- MCYields
  ParentOf <- MCParentOf
  TargetOf <- MCTargetOf
  ImageOf <- MCImageOf
  Public = {}
  Clouds <- MCClouds
  Faults = {"mapping", "denied", "drift"}
INVARIANTS
  DeletesStayInAccount
  MirrorsFetch
