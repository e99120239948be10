SPECIFICATION Spec
CONSTANTS
  Account = {a1}
  None = None
  NoSpec = NoSpec
  Service = {"iam", "ecs", "efs", "kms", "ec2"}
  Name <- MCName
  Uri <- MCUri
  Payload <- MCPayload
  AttrName = {"Name"}
  AttrVal = {1, 2}
  Rel <- MCRel
  LinkVal = {"none"}
  Specs <- MCSpecs
  RootOf <- MCRootOf
  ServiceOf <- MCServiceOf
  TypeOf <- MCTypeOf
  GatesOf <- MCGatesOf
  Attrs <- MCAttrs
  Yields <- MCYields
  ParentOf <- MCParentOf
  TargetOf <- MCTargetOf
  ImageOf <- MCImageOf
  Public <- MCPublic
  Clouds <- MCClouds
  Faults = {}
INVARIANTS
  NoFalseDelete
  FullImportConverges
  MirrorsFetch
  NoFalseRelationDelete
  OutOfScopeUntouched
