SPECIFICATION HSpec
CONSTANTS
  p = p  c = c  g = g  www = www  re = re  h1 = h1  h2 = h2  b1 = b1
  Label <- Labels
  WWW = www
  Name <- Names
  Regexp = {re}
  Matches <- ChildMatched
  Handler = {h1, h2}
  QueryName <- OnlyChild
  QueryType = {"A"}
  DnsCache = 1
  PurgeMax = 0
  Browser = {b1}
  AllowName <- OnlyChild
  AllowSecs = {0}
  LoadSteps <- LoadParent
  ServeWhileLoading = FALSE
  MaxLag = 1
  MaxTime = 4
SYMMETRY HandlerSymmetry
INVARIANTS
  BlockHonoured
