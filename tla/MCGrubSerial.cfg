SPECIFICATION Spec
CONSTANTS
  Caller = {c1, c2}
  Inode = {i1, i2, i3}
  Selector = {c2}
  MaxCalls = 3
  k1 = k1
  k2 = k2
  Key = {k1, k2}
  Value <- MCValue
  Change <- MCChange
  Installed <- MCInstalled
  Edit <- MCEdit
  Overlap = FALSE
  Torn = Torn
  Empty = Empty
  NoBytes = NoBytes
  NoInode = NoInode
  NoHolder = NoHolder
  NoRequest = NoRequest
  NoMenu = NoMenu
  Package = Package
SYMMETRY Symmetry
INVARIANTS LiveIsWhole FailsafeIsWhole
PROPERTIES FailureIsUndoable NoLostUpdate SuccessTakesEffect ImplementsStore
