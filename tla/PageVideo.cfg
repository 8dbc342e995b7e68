SPECIFICATION Spec
CONSTANTS
  Order <- MCOrder
  Type <- MCType
  Id <- MCId
  Filled = {"tv2"}
  Rects <- MCRects
  Pages <- MCPages
  None = None
  MaxOps = 3
INVARIANT ToldLargest
INVARIANT QuirkFollowsVideo
INVARIANT SpoiltNotPlayed
PROPERTY FilmKeepsPlayer
CHECK_DEADLOCK FALSE
