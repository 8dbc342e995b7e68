SPECIFICATION Spec
CONSTANTS
  SendCap = 2
  CommandCap = 1
  FrameCount = 2
  Commands = {"RESUME", "STOP"}
  MaxSendOsd = 1
  MaxVdrRestarts = 1
  MaxBrowserRestarts = 1
INVARIANTS NoTornFrame ReadsAnnouncedFrame NoLostUnlock OneCredit
