SPECIFICATION Spec
CONSTANTS
  Account = {a1}
  None = None
  NoSpec = NoSpec
  Service = {"iam", "ec2"}
  Name <- MCName
  Uri <- MCUri
  Payload <- MCPayload
  AttrName = {"Public"}
  AttrVal = {1, 2}
  Rel = {}
  LinkVal = {"none"}
  Specs <- MCHelpSpecs
  RootOf <- MCRootOf
  ServiceOf <- MCServiceOf
  TypeOf <- MCTypeOf
  GatesOf <- MCGatesOf
  Attrs <- MCAttrs
  Yields <- MCYields
  ParentOf <- MCParentOf
  TargetOf <- MCTargetOf
  ImageOf <- MCImageOf
  Public <- MCPublic
  Clouds <- MCClouds
  Faults = {}
INVARIANT
  ScopedImportConverges
