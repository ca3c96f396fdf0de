SPECIFICATION FairSpec
CONSTANTS
  Plugins = {"a", "b"}
  Jobs = {"now", "soon", "later", "twice", "always"}
  Reqs = {"get", "post"}
  Controllers = {"old", "new"}
  Kind <- MCKind
  Owner <- MCOwner
  SteamId <- MCSteamId
  Casts <- MCCasts
  Free = Free
  None = None
  NoJob = NoJob
  NoRequest = NoRequest
  Null = Null
INVARIANTS TypeOK PassCallsLive NeverTooOften FindsLive
PROPERTIES KeepsMailbox DroppedOnlyByMove ResultArrives Recurs CalledAgain
CHECK_DEADLOCK FALSE
