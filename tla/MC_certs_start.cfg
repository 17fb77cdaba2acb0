SPECIFICATION FairSpec
CONSTANTS
  c1 = c1  c2 = c2  c3 = c3
  Conn = {c1}
  Host = {"ads.net"}
  Lines = 2  None = None
  MaxCrashes = 1
PROPERTIES
  ServerStarts
