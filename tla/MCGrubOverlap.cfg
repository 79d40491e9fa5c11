SPECIFICATION FairSpec
CONSTANTS
  Caller = {c1, c2}
  Inode = {i1, i2, i3}
  Selector = {}
  MaxCalls = 3
  k1 = k1
  k2 = k2
  Key = {k1, k2}
  Value <- MCValue
  Change <- MCOneChange
  Installed <- MCInstalled
  Edit <- MCEdit
  Overlap = TRUE
  Torn = Torn
  Empty = Empty
  NoBytes = NoBytes
  NoInode = NoInode
  NoHolder = NoHolder
  NoRequest = NoRequest
  NoMenu = NoMenu
  Package = Package
INVARIANTS TypeOK LockExclusion LiveHasOrigin
PROPERTIES EveryCallReturns
