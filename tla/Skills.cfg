SPECIFICATION SkillsSpec
CONSTANTS
  Home = "state"
  Workspaces = {"team", "spare"}
  RootLists <- WithTeam
  Slugs = {"browser"}
  Bundled <- BundledNames
  Ids <- OneName
  Folder <- OneFolder
  Listings <- Twice
  Outside = {}
  InstallDirs <- TwoDirs
  DefaultDir <- Default
  Callers = {"ana", "ben"}
  Handmade <- ByHand
  Drafts <- SomeDrafts
  Downloads <- OneDownload
INVARIANTS
  RegistryFollowsDisk
  ManagedHasItsFiles
PROPERTY HandmadeIsListed
CONSTRAINT FewBundles
CHECK_DEADLOCK FALSE
