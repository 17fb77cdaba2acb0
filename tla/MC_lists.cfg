SPECIFICATION FairSpec
CONSTANTS
  u1 = u1  u2 = u2  ads = ads  trk = trk  lst = lst  www = www  re = re
  Label <- Labels
  WWW = www
  Name <- Names
  Regexp = {re}
  Matches = {}
  Url = {u1}
  Site <- Served
  Core <- WWWAdsStays
  Optional <- TrkMayCome
  ListSteps <- OneList
  ConfigHosts <- NoNames
  ConfigUnhosts <- NoNames
  ConfigRegexps <- NoNames
  ConfigUnregexps <- NoNames
  CacheHosts = 1
  ErrorPages = TRUE
  UseCompile = TRUE
  MaxIncidents = 2
  MaxLoad = 1
  MaxTime = 6
INVARIANTS
  HostAgeBounded
  IntactListsBlocked
PROPERTIES
  ServerGetsReady
