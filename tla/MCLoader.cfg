SPECIFICATION Spec
CONSTANTS
  Caller = {c1, c2}
  Inode = {1, 2, 3, 4, 5, 6}
  Targets = {"loader.conf", "entry", "cmdline", "kargs"}
  Id = {"a"}
  Title = {"t"}
  Param = {"p", "init=x"}
  Blacklist = {"init=x"}
  Installed <- MCInstalled
  Edit <- MCEdit
  MaxCalls = 3
  MaxEdits = 2
  Torn = Torn
  Empty = Empty
  NoEtag = NoEtag
  NoInode = NoInode
  NoHolder = NoHolder
  NoRequest = NoRequest
INVARIANTS LiveIsWhole
PROPERTIES UpdateIsExact SuccessIsOwn
CHECK_DEADLOCK FALSE
