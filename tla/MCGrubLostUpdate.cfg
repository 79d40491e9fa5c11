SPECIFICATION Spec
CONSTANTS
  Caller = {c1, c2}
  Inode = {i1, i2, i3, i4, i5}
  Selector = {}
  MaxCalls = 3
  k1 = k1
  k2 = k2
  Key = {k1, k2}
  Value <- MCValue
  Change <- MCChange
  Installed <- MCInstalled
  Edit <- MCNoEdit
  Overlap = TRUE
  Torn = Torn
  Empty = Empty
  NoBytes = NoBytes
  NoInode = NoInode
  NoHolder = NoHolder
  NoRequest = NoRequest
  NoMenu = NoMenu
  Package = Package
SYMMETRY Symmetry
PROPERTIES NoLostUpdate
