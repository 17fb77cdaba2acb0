SPECIFICATION Spec
CONSTANTS
  u1 = u1  u2 = u2  ads = ads  trk = trk  lst = lst  www = www  re = re
  Label <- Labels
  WWW = www
  Name <- Names
  Regexp = {re}
  Matches = {}
  Url = {u1}
  Site <- Served
  Core <- AdsStays
  Optional <- Nothing
  ListSteps <- OneList
  ConfigHosts <- NoNames
  ConfigUnhosts <- NoNames
  ConfigRegexps <- NoNames
  ConfigUnregexps <- NoNames
  CacheHosts = 1
  ErrorPages = FALSE
  UseCompile = FALSE
  MaxIncidents = 1
  MaxLoad = 1
  MaxTime = 4
INVARIANTS
  ListedNamesBlocked
