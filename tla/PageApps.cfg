SPECIFICATION Spec
CONSTANTS
  Undefined = Undefined
  Apps <- MCApps
  Urls <- MCUrls
  Uris <- MCUris
  KeyNames <- MCKeyNames
  PcCodes <- MCPcCodes
  Own <- MCOwn
  Links <- MCLinks
  Tagesschau <- MCTagesschau
  MaxCommands = 3
  MaxOps = 1
INVARIANT AppsStart
INVARIANT FontSet
INVARIANT KeySeenOnce
INVARIANT FocusReaches
CHECK_DEADLOCK FALSE
