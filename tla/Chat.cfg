SPECIFICATION Spec
CONSTANTS
  NoName = ""
  Players = {"a1", "a2", "b1"}
  Servers = {"s1", "s2"}
  ServerOf <- MCServerOf
  GroupsOf <- MCGroupsOf
  UsePermissions = TRUE
  StartFiles <- MCStart
  Files <- MCFiles
  Profile <- MCProfile
  Outsider = "outsider"
  OutsiderName = "cli"
  Failures = TRUE
  MaxMessages = 1
ACTION_CONSTRAINT SettledStep
INVARIANTS TypeOK PublishedOnce LocalUnaffected FollowsDocumentation
PROPERTIES KeepsBoard
CHECK_DEADLOCK FALSE
