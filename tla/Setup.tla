-------------------------------- MODULE Setup --------------------------------
(***************************************************************************)
(* From the configuration to a server that serves: the compile command     *)
(* reads the hosts with ReadHosts and reduces them (module Compile), and   *)
(* the server reads them with ReadHosts again, from the compiled file if   *)
(* there is one, while it answers HTTP requests (module Surrogates).  How  *)
(* the two run at the same time and how lists and files grow old is in     *)
(* module Lists; here the compiled file is used whatever its age.          *)
(***************************************************************************)
EXTENDS Compile, Surrogates

CONSTANT
  Sources   \* the configurations, with the calls ReadHostsLists makes for the
            \* lists of each: [config, lists]

ListCall ==
  [op : {"Hosts.Add", "Hosts.Remove"}, args : Seq(Name)] \union
  [op : {"Regexps.Add", "Regexps.Remove"}, args : Seq(Regexp)]

ASSUME SetupAssumption ==
  /\ IsFiniteSet(Name)
  /\ \A s \in Sources :
       /\ s.lists \in Seq(ListCall)
       /\ \A i \in 1..Len(s.lists) : Len(s.lists[i].args) = 1
       /\ s.config.Hosts \in Seq(Name) /\ s.config.Unhosts \in Seq(Name)
       /\ s.config.Regexps \in Seq(Regexp) /\ s.config.Unregexps \in Seq(Regexp)
       /\ s.config.Surrogates \in Seq(Surrogate)

VARIABLES
  source,    \* the configuration in use, and its lists
  started,   \* how far the compile command had come when the server started
  known      \* the expressions the compile command had read, which it does
             \* not write (a history variable)

setup == <<source, started>>
setupVars == <<vars, loader, page, setup, known>>

Serving == started # "no"

SetupInit ==
  /\ source \in Sources
  /\ started = "no"
  /\ hosts = {} /\ todo = {} /\ newHosts = {} /\ file = NoFile
  /\ pc = "read"
  /\ calls = source.lists \o ConfigCalls(source.config)
  /\ adding = FALSE
  /\ table = [h \in {} |-> Empty]
  /\ regexps = [r \in Regexp |-> 0]
  /\ surrogates = << >> /\ unset = {}
  /\ page = [p \in Page |-> IdlePage]
  /\ known = [r \in Regexp |-> 0]

-----------------------------------------------------------------------------

\* compile(): ReadHosts has returned, and Compile looks at the hosts.
Begin ==
  /\ pc = "read" /\ Loaded
  /\ hosts' = Keys /\ todo' = Keys /\ pc' = "visit"
  /\ known' = regexps
  /\ UNCHANGED <<newHosts, file, loader, page, setup>>

\* The command ends before it has read the hosts, or is not run at all.
KillReading ==
  /\ pc = "read"
  /\ pc' = "killed"
  /\ UNCHANGED <<hosts, todo, newHosts, file, loader, page, setup, known>>

\* The sequences that hold the elements of a finite set, each of them once.
Orders(S) ==
  {s \in [1..Cardinality(S) -> S] : \A x \in S : \E i \in 1..Cardinality(S) : s[i] = x}

\* readHostsCache, for the lines of the file in their order.
\*
\* Mutant: the first line is taken for a header.
CompiledCallsHeader(lines) == LineCalls("Hosts.Add", SubSeq(lines, 2, Len(lines)))

CompiledCalls(lines) == LineCalls("Hosts.Add", lines)

\* listen() with the start of ReadHosts: the compiled file if it is there, or the lists
StartServer ==
  /\ ~Serving /\ pc \in {"done", "killed"}
  /\ started' = pc
  /\ \/ file = NoFile /\ Fresh(source.lists \o ConfigCalls(source.config))
     \/ /\ file # NoFile
        /\ \E lines \in Orders(file) :
             Fresh(CompiledCalls(lines) \o ConfigCalls(source.config))
  /\ UNCHANGED <<vars, page, source, known>>

SetupNext ==
  \/ Begin \/ KillReading \/ StartServer
  \/ (pc = "read" \/ Serving) /\ ReadHostsStep /\ UNCHANGED <<vars, setup, known>>
  \/ Next /\ UNCHANGED <<loader, page, setup, known>>
  \/ Serving /\ PageStep /\ UNCHANGED <<vars, setup, known>>

SetupSpec == SetupInit /\ [][SetupNext]_setupVars

-----------------------------------------------------------------------------
(***************************************************************************)
(* The compile command implements Reduction: the rounds of the loop over   *)
(* the host map, in whatever order, come to one reduction when the file is *)
(* created.                                                                *)
(***************************************************************************)
Abstract == INSTANCE Reduction WITH
       rest  <- IF file = NoFile THEN {} ELSE newHosts \ file,
       stage <- CASE pc = "visit" -> "reduce" [] pc = "write" -> "dump" [] OTHER -> pc

\* The abstract specification, for the variables of this module
\* (cmd/compile.go, ConfigT.Compile).
ReductionSpec == Abstract!Spec

-----------------------------------------------------------------------------
(* Properties *)

Unhosts == {source.config.Unhosts[i] : i \in 1..Len(source.config.Unhosts)}

\* The lines of the lists of one kind, by the call that is made for each.
ListLines(op) ==
  {source.lists[i].args[1] : i \in {k \in 1..Len(source.lists) : source.lists[k].op = op}}

\* m holds the hosts of the lists, but for those whose text is that of an unhost
\* or of a line of an unhostlist, and none that an unhost line names.
TakesItsOwnText(m) ==
  /\ m \intersect Unhosts = {}
  /\ \A h \in ListLines("Hosts.Add") :
       StripWWW(h) \in m \union Unhosts \union ListLines("Hosts.Remove")

\* Whatever lists, host lines and compiled file add, a host that is written in
\* an unhost line is a key neither of the list that is compiled nor of that of
\* a server that has loaded ("always executed *after* loading all the
\* hostsfile", config); and the host of every other line of the lists is still
\* one.  In this the code differs from the sentence before that one, "unhost
\* takes a regexp and removes all hosts that match it": HostList.Remove takes
\* an expression for the name of a host, and a line "www.x" leaves the key x
\* alone that Add has made of the same line of a list.
UnhostsLiteral ==
  /\ pc \notin {"read", "killed"} => TakesItsOwnText(hosts)
  /\ Serving /\ Loaded => Keys \intersect Unhosts = {}
  /\ Serving /\ Loaded /\ file = NoFile => TakesItsOwnText(Keys)

\* A server that starts from a compiled file returns from ReadHostsLists before
\* it gets to the regexplists.  What it does not block of what the compile
\* command had read is at most what only expressions of those lists match: the
\* hosts all come back, and so do the regexps of the configuration, as often
\* as its unregexps leave them ("You don't strictly need to do this",
\* cmd/compile.go).  This needs that no key begins with "www.", which reading
\* the file takes away.  The server may block more: host lines that Add left
\* out because of a host the compiled file no longer holds are added now.
RestartLosesOnlyListRegexps ==
  Serving /\ Loaded /\ started = "done" /\ (\A h \in hosts : StripWWW(h) = h) =>
    \A n \in Name :
      \/ InHosts(hosts, n)
      \/ \E r \in Regexp \ ListLines("Regexps.Add") : known[r] > 0 /\ <<r, n>> \in Matches
      => InHosts(Keys, n) \/ MatchesAny(regexps, n)

\* Every host of a host line that is not to be kept is blocked when the loading
\* is over ("If you just want to block a few hosts, you can add rules here as
\* well ... Or multiple work as well", config).
HostLinesBlocked ==
  Serving /\ Loaded =>
    \A i \in 1..Len(source.config.Hosts) :
      LET h == StripWWW(source.config.Hosts[i])
      IN  InHosts(Keys, h) \/ Suffixes(h) \intersect Unhosts # {}

=============================================================================
