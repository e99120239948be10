SPECIFICATION Spec
CONSTANTS
  None = None
  c1 = c1
  c2 = c2
  mgmt = mgmt
  dev = dev
  alone = alone
  root = root
  ou1 = ou1
  ou2 = ou2
  Command = {c1}
  CallerOf <- MCOneCaller
  ExternalId = {None, 7}
  Acct = {mgmt, dev, alone}
  o1 = o1
  Organization = o1
  Member = {mgmt, dev}
  Management = mgmt
  Unit = {root, ou1, ou2}
  Root = root
  ParentUnit <- MCParentUnit
  Registered = FALSE
INVARIANTS
  OneProviderPerName
