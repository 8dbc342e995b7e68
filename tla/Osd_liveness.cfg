SPECIFICATION FairSpec
CONSTANTS
  SendCap = 1
  CommandCap = 1
  FrameCount = 1
  Commands = {"PING", "PAUSE", "RESUME"}
  MaxSendOsd = 0
  MaxVdrRestarts = 1
  MaxBrowserRestarts = 0
PROPERTIES PaintReturns ReopenUnfreezes SendOsdRepaints ControlReturns
