SPECIFICATION FairSpec
CONSTANTS
  r1 = r1  p1 = p1  c1 = c1
  Request = {r1}
  Page = {p1}
  Command = {c1}
  Main = main
  Janitor = {}
  Asked = {"lenHosts", "countHosts", "dumpRegexps", "dumpOverride"}
  Nobody = nobody
INVARIANTS
  NoDeadlock
PROPERTIES
  ServedUnlessADumpStalls
