-------------------------------- MODULE Lists --------------------------------
(***************************************************************************)
(* Where the block lists come from: ReadHosts (cfg/config.go) with the     *)
(* files that outlive the process, the cached lists in /cache/hosts and    *)
(* the compiled list /cache/compiled.  Two processes run it without a      *)
(* lock: the server and the "compile" command.  Remote lists are fetched   *)
(* through the DNS server of the server process, which blocks what that    *)
(* process has loaded so far.  Processes are killed and started again, and *)
(* the remote lists change.                                                *)
(***************************************************************************)
EXTENDS HostLists

CONSTANTS
  Url,             \* the remote lists
  Site,            \* the host name in each URL
  Core,            \* the lines each remote list always has
  Optional,        \* the lines it may also have
  ListSteps,       \* the calls of loadList, list by list
  ConfigHosts,     \* the host, unhost, regexp and unregexp lines of the
  ConfigUnhosts,   \* configuration
  ConfigRegexps,
  ConfigUnregexps,
  CacheHosts,      \* cache-hosts
  ErrorPages,      \* TRUE: a site may answer with an error page
  UseCompile,      \* TRUE: the compile command is used
  MaxIncidents,    \* bound on kills, network failures and compile commands
  MaxLoad,         \* time a process takes at most to load the lists
  MaxTime          \* bound on the clock

Line == Name \union Regexp

ListStep ==
  [op : {"Hosts.Add", "Hosts.Remove", "Regexps.Add", "Regexps.Remove"}, url : Url]

ASSUME ListsAssumption ==
  /\ Site \in [Url -> Name]
  /\ Core \in [Url -> SUBSET Line] /\ Optional \in [Url -> SUBSET Line]
  /\ \A u \in Url : Core[u] \intersect Optional[u] = {}
  /\ ListSteps \in Seq(ListStep)
  /\ \A i \in 1..Len(ListSteps) :
       LET u == ListSteps[i].url
       IN  Core[u] \union Optional[u] \subseteq
             (IF ListSteps[i].op \in {"Hosts.Add", "Hosts.Remove"} THEN Name
                                                                  ELSE Regexp)
  /\ ConfigHosts \in Seq(Name) /\ ConfigUnhosts \in Seq(Name)
  /\ ConfigRegexps \in Seq(Regexp) /\ ConfigUnregexps \in Seq(Regexp)
  /\ ErrorPages \in BOOLEAN /\ UseCompile \in BOOLEAN
  /\ CacheHosts \in Nat /\ MaxIncidents \in Nat /\ MaxLoad \in Nat /\ MaxTime \in Nat

Server   == "server"
Compiler == "compiler"
Process  == {Server, Compiler}

VARIABLES
  now,         \* the clock, in any unit
  remote,      \* the lines of each remote list
  file,        \* the cached copy of each list, or NoFile
  compiled,    \* /cache/compiled, or NoFile
  proc,        \* the state of each process
  incidents,   \* how many incidents there have been
  lastListed,  \* history: when a host list last had the name, or Never
  intact       \* history: no process has been killed or has started while the
               \* other worked, and every response was a whole list

vars == <<now, remote, file, compiled, proc, incidents, lastListed, intact>>

NoFile == [lines |-> {}, mtime |-> -1]
File   == [lines : SUBSET Line, mtime : Nat] \union {NoFile}
Never  == -1

PC == {"down", "stat", "compiled",                              \* ReadHostsLists
       "list", "remove", "get", "create", "write", "open",      \* loadCachedURL
       "config", "ready",                                       \* ReadHosts
       "reduce", "dump"}                                        \* Compile

ProcState ==
  [pc       : PC,
   step     : Nat,              \* index in ListSteps
   hosts    : SUBSET Name,      \* Hosts
   regexps  : [Regexp -> Nat],  \* Regexps
   data     : SUBSET Line,      \* the response that has come, or newHosts
   attached : BOOLEAN,          \* the file being written still has its name
   start    : Nat]              \* when the process started

Down == [pc |-> "down", step |-> 0, hosts |-> {}, regexps |-> [r \in Regexp |-> 0],
         data |-> {}, attached |-> FALSE, start |-> 0]

TypeOK ==
  /\ now \in Nat
  /\ remote \in [Url -> SUBSET Line]
  /\ file \in [Url -> File]
  /\ compiled \in File
  /\ proc \in [Process -> ProcState]
  /\ incidents \in 0..MaxIncidents
  /\ lastListed \in [Name -> Nat \union {Never}]
  /\ intact \in BOOLEAN

\* The name is on a remote host list; its "www." does not count.
Listed(lists, n) ==
  \E i \in 1..Len(ListSteps) :
    /\ ListSteps[i].op = "Hosts.Add"
    /\ \E line \in lists[ListSteps[i].url] : StripWWW(line) = n

Init ==
  /\ now = 0
  /\ remote = Core
  /\ file = [u \in Url |-> NoFile]
  /\ compiled = NoFile
  /\ proc = [p \in Process |-> Down]
  /\ incidents = 0
  /\ lastListed = [n \in Name |-> IF Listed(remote, n) THEN 0 ELSE Never]
  /\ intact = TRUE

Goto(p, state) == proc' = [proc EXCEPT ![p] = state]

\* msg.Fatal
Fatal(p) == Goto(p, Down) /\ UNCHANGED <<file, compiled>>

Incident == incidents < MaxIncidents /\ incidents' = incidents + 1

NoIncident == UNCHANGED <<incidents, intact>>

world == <<now, remote, lastListed>>

-----------------------------------------------------------------------------
(* The two commands *)

Ready == proc[Server].pc = "ready"

Working(p) == proc[p].pc \notin {"down", "ready"}

\* listen() up to ReadHosts; compile() up to ReadHosts, which removes the
\* compiled file.
Start(p) ==
  /\ proc[p].pc = "down"
  /\ Goto(p, [Down EXCEPT !.pc = "stat", !.start = now])
  /\ \/ p = Server /\ UNCHANGED <<compiled, incidents>>
     \/ p = Compiler /\ UseCompile /\ compiled' = NoFile /\ Incident
  /\ intact' = (intact /\ \A q \in Process : ~Working(q))
  /\ UNCHANGED <<file, world>>

\* SIGTERM
Stop ==
  /\ Ready /\ Goto(Server, Down)
  /\ NoIncident /\ UNCHANGED <<file, compiled, world>>

\* A process is killed in the middle, or the power fails.
Kill(p) ==
  /\ Working(p) /\ Fatal(p)
  /\ Incident /\ intact' = FALSE /\ UNCHANGED world

-----------------------------------------------------------------------------
(* ReadHostsLists *)

\* The i-th list, or what comes after the lists.
AtStep(s, i) ==
  [s EXCEPT !.step = i, !.data = {}, !.attached = FALSE,
            !.pc = IF i <= Len(ListSteps) THEN "list" ELSE "config"]

\* Mutant: the compiled file is still used in the second it expires.
UsableInclusive == compiled # NoFile /\ compiled.mtime + CacheHosts >= now

Usable == compiled # NoFile /\ compiled.mtime + CacheHosts > now

\* os.Stat("/cache/compiled")
StatCompiled(p) ==
  /\ proc[p].pc = "stat"
  /\ Goto(p, IF Usable THEN [proc[p] EXCEPT !.pc = "compiled"] ELSE AtStep(proc[p], 1))
  /\ NoIncident /\ UNCHANGED <<file, compiled, world>>

\* Hosts.Add for every line on its own.
AddLines(m, lines) == m \union {StripWWW(n) : n \in lines}

\* readHostsCache; no list is read after it.
ReadCompiled(p) ==
  /\ proc[p].pc = "compiled"
  /\ \/ compiled = NoFile /\ Fatal(p)
     \/ /\ compiled # NoFile
        /\ Goto(p, [proc[p] EXCEPT !.pc = "config",
                                   !.hosts = AddLines(@, compiled.lines)])
        /\ UNCHANGED <<file, compiled>>
  /\ NoIncident /\ UNCHANGED world

-----------------------------------------------------------------------------
(* loadCachedURL and the loop of loadList around it *)

\* The list a process is at.
UrlOf(p) == ListSteps[proc[p].step].url

\* Mutant: a list that is not there yet is an error.
AfterStatStrict(f) ==
  IF f = NoFile THEN "down"
  ELSE IF now > f.mtime + CacheHosts THEN "remove" ELSE "open"

AfterStat(f) ==
  IF f = NoFile THEN "get"
  ELSE IF now > f.mtime + CacheHosts THEN "remove" ELSE "open"

\* os.Stat(cachename)
StatList(p) ==
  /\ proc[p].pc = "list"
  /\ Goto(p, [proc[p] EXCEPT !.pc = AfterStat(file[UrlOf(p)])])
  /\ NoIncident /\ UNCHANGED <<file, compiled, world>>

\* os.Remove(cachename).  A process that has the file open writes on into a
\* file that has lost its name.
RemoveList(p) ==
  /\ proc[p].pc = "remove"
  /\ \/ file[UrlOf(p)] = NoFile /\ Fatal(p)
     \/ /\ file[UrlOf(p)] # NoFile
        /\ file' = [file EXCEPT ![UrlOf(p)] = NoFile]
        /\ proc' = [q \in Process |->
                      IF q = p THEN [proc[p] EXCEPT !.pc = "get"]
                      ELSE IF proc[q].pc = "write" /\ UrlOf(q) = UrlOf(p)
                      THEN [proc[q] EXCEPT !.attached = FALSE]
                      ELSE proc[q]]
        /\ UNCHANGED compiled
  /\ NoIncident /\ UNCHANGED world

\* The site of the list is looked up at the DNS server of the server process;
\* if that blocks it, the HTTP server sends its own page, of which no line is
\* a host name.  An override or a cached action may let the list through.  The
\* status of the response is not looked at.
Blocks(p, n) == InHosts(proc[p].hosts, n) \/ MatchesAny(proc[p].regexps, n)

Answers(u) ==
  {remote[u]} \union (IF ErrorPages \/ Blocks(Server, Site[u]) THEN {{}} ELSE {})

\* http.Get(url)
Get(p) ==
  /\ proc[p].pc = "get"
  /\ \/ /\ proc[Server].pc # "down"
        /\ \E lines \in Answers(UrlOf(p)) :
             /\ Goto(p, [proc[p] EXCEPT !.pc = "create", !.data = lines])
             /\ intact' = (intact /\ lines = remote[UrlOf(p)])
        /\ UNCHANGED <<file, compiled, incidents>>
     \/ /\ IF proc[Server].pc = "down" THEN UNCHANGED incidents ELSE Incident
        /\ Fatal(p)
        /\ UNCHANGED intact
  /\ UNCHANGED world

\* os.Create(cachename)
Create(p) ==
  /\ proc[p].pc = "create"
  /\ file' = [file EXCEPT ![UrlOf(p)] = [lines |-> {}, mtime |-> now]]
  /\ Goto(p, [proc[p] EXCEPT !.pc = "write", !.attached = TRUE])
  /\ NoIncident /\ UNCHANGED <<compiled, world>>

\* ioutil.ReadAll and fp.Write; what another process has written since the file
\* was created is overwritten, but for its end.
Write(p) ==
  /\ proc[p].pc = "write"
  /\ \/ /\ IF proc[p].attached
           THEN \E tail \in SUBSET file[UrlOf(p)].lines :
                  file' = [file EXCEPT ![UrlOf(p)] =
                             [lines |-> proc[p].data \union tail, mtime |-> now]]
           ELSE UNCHANGED file
        /\ Goto(p, [proc[p] EXCEPT !.pc = "open"])
        /\ NoIncident /\ UNCHANGED compiled
     \/ Fatal(p) /\ Incident /\ intact' = FALSE
  /\ UNCHANGED world

\* cb(line) for every line, cb being the method of the list.
Load(s, op, lines) ==
  CASE op = "Hosts.Add"      -> [s EXCEPT !.hosts = AddLines(@, lines)]
    [] op = "Hosts.Remove"   -> [s EXCEPT !.hosts = @ \ lines]
    [] op = "Regexps.Add"    ->
         [s EXCEPT !.regexps = [r \in Regexp |-> IF r \in lines THEN @[r] + 1 ELSE @[r]]]
    [] op = "Regexps.Remove" ->
         [s EXCEPT !.regexps =
            [r \in Regexp |-> IF r \in lines /\ @[r] > 0 THEN @[r] - 1 ELSE @[r]]]

\* os.Open(cachename) and the loop over the lines.
Open(p) ==
  /\ proc[p].pc = "open"
  /\ LET f == file[UrlOf(p)]
         op == ListSteps[proc[p].step].op
     IN  \/ f = NoFile /\ Fatal(p)
         \/ /\ f # NoFile
            /\ Goto(p, AtStep(Load(proc[p], op, f.lines), proc[p].step + 1))
            /\ UNCHANGED <<file, compiled>>
  /\ NoIncident /\ UNCHANGED world

-----------------------------------------------------------------------------
(* The rest of ReadHosts, and Compile *)

Configure(p) ==
  /\ proc[p].pc = "config"
  /\ Goto(p, [proc[p] EXCEPT
                !.pc = IF p = Server THEN "ready" ELSE "reduce",
                !.hosts = HostsRemove(HostsAdd(@, ConfigHosts), ConfigUnhosts),
                !.regexps = RegexpsRemove(RegexpsAdd(@, ConfigRegexps), ConfigUnregexps)])
  /\ NoIncident /\ UNCHANGED <<file, compiled, world>>

\* Compile up to os.Create, as in module Reduction: some part of the hosts that
\* blocks the same names.
Reduce(p) ==
  /\ proc[p].pc = "reduce"
  /\ \E newHosts \in Reductions(proc[p].hosts) :
       Goto(p, [proc[p] EXCEPT !.pc = "dump", !.data = newHosts])
  /\ compiled' = [lines |-> {}, mtime |-> now]
  /\ NoIncident /\ UNCHANGED <<file, world>>

\* Mutant: the last host is not written.
DumpedOneShort(p) == Cardinality(proc[p].data) <= 1

Dumped(p) == proc[p].data = {}

\* One fp.WriteString, or the end of the command after the last.
Dump(p) ==
  /\ proc[p].pc = "dump"
  /\ \/ Dumped(p) /\ Goto(p, Down) /\ UNCHANGED compiled
     \/ \E n \in proc[p].data :
          /\ compiled' = [lines |-> compiled.lines \union {n}, mtime |-> now]
          /\ Goto(p, [proc[p] EXCEPT !.data = @ \ {n}])
  /\ NoIncident /\ UNCHANGED <<file, world>>

-----------------------------------------------------------------------------
(* The world outside *)

\* A remote list gains or loses a line.
Publish(u) ==
  /\ \E line \in Optional[u] :
       remote' = [remote EXCEPT ![u] = IF line \in @ THEN @ \ {line}
                                                     ELSE @ \union {line}]
  /\ lastListed' = [n \in Name |-> IF Listed(remote', n) THEN now ELSE lastListed[n]]
  /\ UNCHANGED <<now, file, compiled, proc, incidents, intact>>

Tick ==
  /\ now < MaxTime
  /\ \A p \in Process : Working(p) => now < proc[p].start + MaxLoad
  /\ now' = now + 1
  /\ lastListed' = [n \in Name |-> IF Listed(remote, n) THEN now' ELSE lastListed[n]]
  /\ UNCHANGED <<remote, file, compiled, proc, incidents, intact>>

\* The steps that wait for no other machine.
Local(p) ==
  \/ StatCompiled(p) \/ ReadCompiled(p)
  \/ StatList(p) \/ RemoveList(p) \/ Create(p) \/ Open(p)
  \/ Configure(p) \/ Reduce(p) \/ Dump(p)

Step(p) == Local(p) \/ Get(p) \/ Write(p)

Next ==
  \/ \E p \in Process : Start(p) \/ Step(p) \/ Kill(p)
  \/ Stop
  \/ \E u \in Url : Publish(u)
  \/ Tick

Spec == Init /\ [][Next]_vars

(***************************************************************************)
(* The scheduler runs every process that can run, and the supervisor       *)
(* (init/runit) starts the server again when it has ended.  http.Get has   *)
(* no timeout and ioutil.ReadAll waits for the rest of the response, so    *)
(* neither has to return.                                                  *)
(***************************************************************************)
FairSpec ==
  /\ Spec
  /\ \A p \in Process : WF_vars(Local(p))
  /\ WF_vars(Start(Server))

-----------------------------------------------------------------------------
(* Properties *)

\* How old the information in the lists of a process can be at the end of
\* ReadHostsLists: fetched, its end left in the file by a second download at
\* the same time, cached, compiled, and the compiled file used.
AgeBound ==
  IF CacheHosts = 0 THEN 3 * MaxLoad ELSE 2 * CacheHosts + 4 * MaxLoad - 1

\* The names of the host lines.
Configured == {StripWWW(ConfigHosts[i]) : i \in 1..Len(ConfigHosts)}

\* Whatever is killed, refetched, compiled and restarted, a host that a
\* process has read from the lists was on a remote list not longer than
\* AgeBound ago, or is one of the host lines: the two caches do not add up to
\* more (ReadHostsLists, loadCachedURL, compile).  A host that begins with
\* "www." still, being www.www. on the list, loses that when it is read from
\* the compiled file.
HostAgeBounded ==
  \A p \in Process : proc[p].pc = "config" =>
    \A n \in proc[p].hosts : \E m \in Name :
      /\ n \in {m, StripWWW(m)}
      /\ \/ m \in Configured
         \/ lastListed[m] # Never /\ now - lastListed[m] <= AgeBound

\* The names the unhost lines remove, and those the lists of such names may.
Unhosts == {ConfigUnhosts[i] : i \in 1..Len(ConfigUnhosts)}

Removed ==
  Unhosts \union
  UNION {Core[ListSteps[i].url] \union Optional[ListSteps[i].url] :
           i \in {j \in 1..Len(ListSteps) : ListSteps[j].op = "Hosts.Remove"}}

\* Nothing removes the name, nor what reading the compiled file makes of a
\* parent domain of it that begins with "www.".
Spared(n) ==
  /\ n \notin Removed
  /\ \A m \in Suffixes(n) : StripWWW(m) # m => StripWWW(m) \notin Removed

\* The names that all host lists together have always had and nothing removes.
Lasting ==
  {n \in Name : /\ Spared(n)
                /\ \E i \in 1..Len(ListSteps) :
                     /\ ListSteps[i].op = "Hosts.Add"
                     /\ \E line \in Core[ListSteps[i].url] : StripWWW(line) = n}

\* A server that is ready blocks the names that its host lists have always
\* had, whether they come from the network, the cache or the compiled file
\* (ReadHosts, cfg/config.go).
ListedNamesBlocked ==
  Ready => \A n \in Lasting : InHosts(proc[Server].hosts, n)

\* It does so as long as no process has been killed or has started while the
\* other one worked, and every response was a whole list: then the two levels
\* of caching, restarts, compilations, expiries and failed connections lose no
\* line (ReadHosts, loadCachedURL, Compile).
IntactListsBlocked == intact => ListedNamesBlocked

\* However often the two processes make each other fail, once the kills, the
\* network failures and the compile commands stop the server gets ready, unless
\* it waits for ever for a site (ReadHosts, loadCachedURL).
ServerGetsReady ==
  proc[Server].pc = "down" ~> (Ready \/ <>[](proc[Server].pc \in {"get", "write"}))

=============================================================================
