CONSTANTS
  Bases = {"a"}
  Urls = {"u1", "u2"}
  Serves <- ServesDef
  LocalFiles = {"shared"}
  None = None
  Cut = Cut
  MaxOps = 4
  MaxDownloads = 2
  MaxCrashes = 1
SPECIFICATION Spec
INVARIANTS ContentKept ContentFromUrl SavedIsShown
CHECK_DEADLOCK FALSE
