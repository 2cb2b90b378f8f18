SPECIFICATION FairSpec
CONSTANTS
  Callers = {"c1", "c2"}
  Files = {"f", "g"}
  Base = "base"
  Names = {"a", "b"}
  Disks <- SmallDisks
  Requests <- WalkerAndOther
  MaxCalls = 1
  MaxUpsets = 1
  ReqSize = 1
INVARIANTS OnlyNamedFilesHarmed StraysExplained DeleteFreesName NilMeansGone HeldFilesDoNotBlock
PROPERTY RemoveAllReturns
CHECK_DEADLOCK FALSE
