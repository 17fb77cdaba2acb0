SPECIFICATION HSpec
CONSTANTS
  p = p  c = c  g = g  www = www  re = re  h1 = h1  h2 = h2  b1 = b1
  Label <- Labels
  WWW = www
  Name <- ThreeDeep
  Regexp = {re}
  Matches <- GrandchildMatched
  Handler = {h1, h2}
  QueryName <- OnlyGrandchild
  QueryType = {"A"}
  DnsCache = 0
  PurgeMax = 0
  Browser = {b1}
  AllowName <- ThreeDeep
  AllowSecs = {0}
  LoadSteps <- LoadAndRemove
  ServeWhileLoading = FALSE
  MaxLag = 1
  MaxTime = 1
SYMMETRY HandlerSymmetry
INVARIANTS
  BlockHonoured
  OverrideHonoured
