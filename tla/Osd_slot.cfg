SPECIFICATION FairSpec
CONSTANTS
  SendCap = 2
  CommandCap = 1
  FrameCount = 3
  Commands = {"PING", "PAUSE", "RESUME"}
  MaxSendOsd = 0
  MaxVdrRestarts = 0
  MaxBrowserRestarts = 0
PROPERTIES OneSlotBuffer
