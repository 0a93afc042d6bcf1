SPECIFICATION CFairSpec
CONSTANTS
  Caller = {"a", "b"}
  Call = {"a", "b"}
  HangCall = {"b"}
  Key = {"east", "probe", "odd"}
  KeysOf <- MCKeysOf
  ProbeKey = {"probe", "odd"}
  Unusable = {"odd"}
  MaxFileChanges = 1
  NoOne = NoOne
  Flags <- MCFlags
INVARIANTS
  CTypeOK
  SharedClient
  WatchedClientIsCurrent
  MutexIsReleased
  CleanExitFinishesCalls
PROPERTIES
  EveryCallReturns
  ShutdownEnds
  FailedStartIsFatal
