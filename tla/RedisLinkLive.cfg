CONSTANTS
  None = None
  Threads = {t1}
  Pubs = {p1, p2, p3}
  QuietReload = TRUE
SPECIFICATION FairSpec
INVARIANTS
  TypeOK
  PublishNeverDangles
  EndedThreadHoldsNothing
  WorkingHasDispatcher
PROPERTIES
  Resubscribes
  KeepsPromise
