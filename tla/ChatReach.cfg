SPECIFICATION FairSpec
CONSTANTS
  NoName = ""
  Players = {"a1", "a2", "b1"}
  Servers = {"s1", "s2"}
  ServerOf <- MCServerOf
  GroupsOf <- MCGroupsOf
  UsePermissions = TRUE
  StartFiles <- ReachStart
  Files <- NoFiles
  Profile <- MCProfile
  Outsider = "outsider"
  OutsiderName = "cli"
  Failures = FALSE
  MaxMessages = 2
PROPERTIES Reach
CHECK_DEADLOCK FALSE
