SPECIFICATION Spec
CONSTANTS
  None = None
  NoSpec = NoSpec
  Account = {a1}
  Service = {"iam", "logs"}
  Name <- MCName
  Uri <- MCUri
  Payload <- MCPayload
  AttrName = {"Name", "Extra"}
  AttrVal = {1, 2}
  Rel = {"manages"}
  LinkVal = {"v1", "v2"}
  Specs <- MCSpecs
  RootOf <- MCRootOf
  ServiceOf <- MCServiceOf
  TypeOf <- MCTypeOf
  GatesOf <- MCGatesOf
  Attrs <- MCAttrs
  Yields <- MCYields
  ParentOf <- MCParentOf
  TargetOf <- MCTargetOf
  ImageOf <- MCImageOf
  Public = {}
  Clouds <- MCSteady
  Faults = {"denied"}
INVARIANT
  NoFalseDelete
