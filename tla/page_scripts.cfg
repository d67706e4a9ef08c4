SPECIFICATION FairPageSpec
CONSTANTS
  Links <- MCLinks
  Brand = "/"
  Nowhere = nowhere
CHECK_DEADLOCK FALSE
INVARIANTS LinksNavigate NavbarFollows
PROPERTIES PageUncovered
