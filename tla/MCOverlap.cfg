SPECIFICATION Spec
CONSTANTS
  j1 = j1
  j2 = j2
  a1 = a1
  a2 = a2
  None = None
  Job = {j1, j2}
  AccountOf <- MCOneAccount
  pol1 = pol1
  pol2 = pol2
  usr = usr
  Uri = {pol1, pol2, usr}
  Payload = {"d1", "d2"}
  Snapshots <- MCSnapshots
  InitialRows <- MCEmpty
INVARIANTS
  DocumentsStaySingle
