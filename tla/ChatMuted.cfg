SPECIFICATION Spec
CONSTANTS
  NoName = ""
  Players = {"a1", "a2", "b1"}
  Servers = {"s1", "s2"}
  ServerOf <- MCServerOf
  GroupsOf <- MCGroupsOf
  UsePermissions = TRUE
  StartFiles <- MutedStart
  Files <- NoFiles
  Profile <- MCProfile
  Outsider = "outsider"
  OutsiderName = "cli"
  Failures = FALSE
  MaxMessages = 1
INVARIANT MutedUnheard
CHECK_DEADLOCK FALSE
