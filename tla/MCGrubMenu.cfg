SPECIFICATION Spec
CONSTANTS
  Caller = {c1}
  Inode = {i1, i2, i3}
  Selector = {c1}
  MaxCalls = 1
  k1 = k1
  k2 = k2
  Key = {k1, k2}
  Value <- MCValue
  Change <- MCChange
  Installed <- MCInstalled
  Edit <- MCNewEdit
  Overlap = FALSE
  Torn = Torn
  Empty = Empty
  NoBytes = NoBytes
  NoInode = NoInode
  NoHolder = NoHolder
  NoRequest = NoRequest
  NoMenu = NoMenu
  Package = Package
SYMMETRY Symmetry
PROPERTIES MenuIsCurrent
