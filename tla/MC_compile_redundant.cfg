SPECIFICATION Spec
CONSTANTS
  net = net  ads = ads  xads = xads  s7 = s7  www = www
  Label <- Labels
  WWW = www
  Name <- Names
  Regexp = {}
  Matches = {}
  TextSuffix <- EndsInTheMiddle
INVARIANTS
  NoRedundantEntry
CHECK_DEADLOCK FALSE
