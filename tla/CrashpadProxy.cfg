SPECIFICATION FairSpec
CONSTANTS
  Platforms = {"macOS", "Linux"}
  Lists <- MCLists
  Settings = {"uploadUrl"}
  MaxValue = 1
  Faults = {"init", "read", "write"}
INVARIANTS TypeOK AcceptedIsInUse StoredAgrees
PROPERTIES AsksForUploadUrl ChangeIsFollowed
