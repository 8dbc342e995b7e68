SPECIFICATION FairSpec
CONSTANTS
  start = start
  app = app
  plain = plain
  old = old
  ads = ads
  NoUrl = NoUrl
  Urls = {start, app, plain, old, ads}
  Redirects <- TwoRedirects
  HbbtvPages = {app}
  TypedUrls = {old}
  KnownTypes = {}
  Blocked = {ads}
  Size = 2
  Requests = {r1, r2}
  MaxLoads = 3
  MaxFailures = 1
INVARIANTS OwnPage CacheSound BlockedNotServed
PROPERTIES RequestsEnd
CHECK_DEADLOCK FALSE
