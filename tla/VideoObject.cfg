SPECIFICATION Spec
CONSTANTS
  Urls = {a, m}
  DashUrls = {m}
  NoUrl = NoUrl
  Fail = Fail
  MaxVideos = 2
  MaxCalls = 3
INVARIANTS LastWordCounts InStep
CHECK_DEADLOCK FALSE
