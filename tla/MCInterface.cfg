SPECIFICATION Spec
CONSTANTS
  Client = {c1, c2}
  NoAction = NoAction
  NoRequest = NoRequest
  Request <- MCRequest
  Hosts <- MCHosts
  Policies <- MCPolicies
  Tokens <- MCTokens
  BootOrders <- MCBootOrders
  NewEntries = {9}
  Option <- MCOption
  OtherNames <- MCOtherNames
  SecureBoot = {"db", "PK"}
  MaxCalls = 2
  MaxOutside = 1
SYMMETRY Symmetry
INVARIANTS TypeOK EvidenceIsComplete BootVariablesAgree BackupIsKept EnrolledIsSigned
PROPERTIES OnlyAuthorizedWrites ListingIsFirmwares
CHECK_DEADLOCK FALSE
