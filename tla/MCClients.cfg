SPECIFICATION Spec
CONSTANTS
  NoAnswer = NoAnswer
  NoRequest = NoRequest
  NoKey = NoKey
  MaxOther = 1
  QueueSize = 5
  MaxKeys = 5
  MaxCommands = 3
  Refused <- MCRefused
  Distributor = "vendor expression"
  Spaced = {"a b", ""}
  Timeouts = {"5", "9"}
  MenuTexts <- MCMenuTexts
  ShellWords <- MCShellWords
  CliKeys = {"debug", "rw", "arch"}
  KeyOrder <- MCKeyOrder
  TypedTexts <- MCTypedTexts
  Devices <- MCDevices
  Moves <- MCMoves
  Orders <- MCOrders
  Starts <- MCStarts
  OtherContents <- MCOtherContents
CHECK_DEADLOCK FALSE
INVARIANTS AppliedIsConfirmed ArmedIsCurrent EditIsWhole RescueLeavesOnlyRoots
PROPERTIES MenuIsGrubs EditKeepsTheRest PreviewIsTheChange DrainsUnlessFull TuiWritesWhatItShows MoveKeepsEntries
