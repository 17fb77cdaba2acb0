SPECIFICATION SetupSpec
CONSTANTS
  net = net  ads = ads  xads = xads  s7 = s7  www = www
  sub = sub  any = any  sA = sA  sB = sB
  Label <- Labels
  WWW = www
  Name <- Names
  Regexp <- Regexps
  Matches <- MatchPairs
  TextSuffix <- EndsInTheMiddle
  Page = {p1}
  PageHost <- Hosts
  Script = {sA, sB, Empty}
  Empty = Empty
  BlockPage = BlockPage
  Sources <- SourcesOf
INVARIANTS
  HostLinesBlocked
