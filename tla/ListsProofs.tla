----------------------------- MODULE ListsProofs -----------------------------
(***************************************************************************)
(* What TLAPS proves of the way of a line from a remote list to the lists  *)
(* of a process, for every set of remote lists and any number of kills,    *)
(* restarts, failures and compilations: what a process has read is not     *)
(* older than the two caches and the loading times allow, and no line is   *)
(* lost unless something is interrupted or answered wrongly.               *)
(***************************************************************************)
EXTENDS Lists, NameLemmas

-----------------------------------------------------------------------------
(* The invariant the others build on: what the files and the two processes *)
(* can hold at each point.                                                 *)

\* The points of the loop over the lists.
AtList == {"list", "remove", "get", "create", "write", "open"}

\* The lines the list u has at some time.
MayHave(u) == Core[u] \union Optional[u]

ProcOK(p) ==
  LET s == proc[p]
  IN  /\ s.pc \in AtList => s.step \in 1..Len(ListSteps)
      /\ p = Server => s.pc \notin {"reduce", "dump"}
      /\ p = Compiler => s.pc \notin {"compiled", "ready"}
      /\ Working(p) => s.start <= now /\ now <= s.start + MaxLoad
      /\ s.pc \in {"stat", "compiled"} => s.hosts = {}
      /\ s.pc \in {"create", "write"} => s.data \subseteq MayHave(UrlOf(p))
      /\ s.pc = "dump" => s.data \subseteq Name

\* The compile command has not come to its own file.
Compiling == proc[Compiler].pc \in AtList \union {"stat", "config", "reduce"}

FilesOK ==
  /\ \A u \in Url : /\ Core[u] \subseteq remote[u] /\ remote[u] \subseteq MayHave(u)
                    /\ file[u].lines \subseteq MayHave(u) /\ file[u].mtime <= now
  /\ compiled.lines \subseteq Name /\ compiled.mtime <= now
  /\ Compiling => compiled = NoFile

BaseInv == TypeOK /\ FilesOK /\ \A p \in Process : ProcOK(p)

-----------------------------------------------------------------------------
(* How old what a process has read can be                                  *)

\* A host list has had the name at time t or later.
Known(n, t) == lastListed[n] # Never /\ t <= lastListed[n]

\* The name comes from a host line, or a list has had it at t or later.
Sourced(n, t) == n \in Configured \/ Known(n, t)

HostUrl(u) ==
  \E i \in 1..Len(ListSteps) : ListSteps[i].op = "Hosts.Add" /\ ListSteps[i].url = u

\* If u is a host list: these lines of it have been on a list at t or later.
LinesKnown(u, lines, t) ==
  HostUrl(u) => \A line \in lines : Known(StripWWW(line), t)

\* What a process read from the lists when it started at t was on a list then
\* or, being in a file of the age CacheHosts that another download had left a
\* part of, this much earlier.
ListAge == CacheHosts + 2 * MaxLoad

\* A line that is fetched is not older than the process, the end of a file that
\* was written by another process not older than that, which was working when
\* this one had started, and a file that is opened is not older than CacheHosts.
FetchedOK(p) ==
  LET s == proc[p]
      f == file[UrlOf(p)]
  IN  /\ s.pc \in {"create", "write"} => LinesKnown(UrlOf(p), s.data, s.start)
      /\ s.pc = "write" =>
           /\ s.attached => LinesKnown(UrlOf(p), f.lines, s.start - MaxLoad)
           /\ f = NoFile \/ s.start <= f.mtime
      /\ s.pc = "open" => f = NoFile \/ s.start <= f.mtime + CacheHosts

\* The hosts come from the lists, from the compiled file or from both and the
\* host lines.
HostsOK(p) ==
  LET s == proc[p]
  IN  /\ s.pc \in AtList \/ (p = Compiler /\ s.pc = "config") =>
           \A n \in s.hosts : Known(n, s.start - ListAge)
      /\ s.pc = "config" =>
           \A n \in s.hosts : \E m \in Name :
             n \in {m, StripWWW(m)} /\ Sourced(m, s.start + MaxLoad - AgeBound)
      /\ s.pc = "reduce" => \A n \in s.hosts : Sourced(n, s.start - ListAge)

\* The compiled file that is read has not expired when the process started,
\* and is written from the lists.
CompiledOK(p) ==
  LET s == proc[p]
  IN  /\ s.pc = "compiled" =>
           /\ CacheHosts > 0
           /\ compiled = NoFile \/ s.start < compiled.mtime + CacheHosts
      /\ s.pc = "dump" =>
           \A n \in s.data \union compiled.lines : Sourced(n, s.start - ListAge)

\* What is on a list now was last on a list now, and nothing later.
HistoryOK ==
  \A n \in Name : /\ lastListed[n] <= now
                  /\ Listed(remote, n) => lastListed[n] = now

AgeInv ==
  /\ HistoryOK
  /\ \A u \in Url : LinesKnown(u, file[u].lines, file[u].mtime - 2 * MaxLoad)
  /\ \A n \in compiled.lines : Sourced(n, compiled.mtime - ListAge - MaxLoad)
  /\ \A p \in Process : FetchedOK(p) /\ HostsOK(p) /\ CompiledOK(p)

-----------------------------------------------------------------------------
(* What no interruption has lost                                           *)

\* The hosts of a list block every lasting name, and go on doing so when the
\* unhost lines have been applied.
Covers(hosts) ==
  \A n \in Lasting : \E x \in Suffixes(n) \intersect hosts : x \notin Unhosts

\* The process has read the lists before the i-th.
HasRead(s, i) ==
  \A n \in Lasting, j \in 1..(i - 1) :
    /\ ListSteps[j].op = "Hosts.Add"
    /\ \E line \in Core[ListSteps[j].url] : StripWWW(line) = n
    => n \in s.hosts

IntactOK(p) ==
  LET s == proc[p]
  IN  /\ s.pc \in {"create", "write"} => Core[UrlOf(p)] \subseteq s.data
      /\ s.pc = "write" => s.attached
      /\ s.pc \in AtList => HasRead(s, s.step)
      /\ s.pc \in {"config", "reduce", "ready"} => Covers(s.hosts)
      /\ s.pc = "reduce" => s.hosts \intersect Unhosts = {}
      /\ s.pc = "dump" => Covers(s.data \union compiled.lines)

IntactInv ==
  intact =>
    /\ \A p, q \in Process : Working(p) /\ Working(q) => p = q
    /\ \A u \in Url : \/ file[u] = NoFile \/ Core[u] \subseteq file[u].lines
                      \/ \E p \in Process : proc[p].pc = "write" /\ UrlOf(p) = u
    /\ compiled # NoFile /\ proc[Compiler].pc # "dump" => Covers(compiled.lines)
    /\ \A p \in Process : IntactOK(p)

-----------------------------------------------------------------------------
(* Types                                                                   *)

LEMMA Constants ==
  /\ CacheHosts \in Nat /\ MaxLoad \in Nat /\ ListAge \in Nat /\ AgeBound \in Int
  /\ CacheHosts = 0 => AgeBound = 3 * MaxLoad
  /\ CacheHosts # 0 => AgeBound = 2 * CacheHosts + 4 * MaxLoad - 1
BY ListsAssumption DEF ListAge, AgeBound

LEMMA FileFacts ==
  /\ \A f \in File : /\ f.lines \subseteq Line /\ f.mtime \in Int
                     /\ f # NoFile => f.mtime \in Nat
  /\ NoFile \in File /\ NoFile.lines = {} /\ NoFile.mtime = -1
  /\ \A lines \in SUBSET Line, t \in Nat :
       LET f == [lines |-> lines, mtime |-> t]
       IN  f \in File /\ f # NoFile /\ f.lines = lines /\ f.mtime = t
BY DEF File, NoFile

LEMMA ProcFacts ==
  ASSUME TypeOK
  PROVE  /\ now \in Nat
         /\ \A p \in Process :
              /\ proc[p] \in ProcState
              /\ proc[p].pc \in PC /\ proc[p].step \in Nat /\ proc[p].start \in Nat
              /\ proc[p].hosts \subseteq Name /\ proc[p].data \subseteq Line
              /\ proc[p].attached \in BOOLEAN
BY DEF TypeOK, ProcState

LEMMA DownFacts ==
  /\ Down \in ProcState /\ Down.pc = "down"
  /\ \A t \in Nat :
       LET s == [Down EXCEPT !.pc = "stat", !.start = t]
       IN  s \in ProcState /\ s.pc = "stat" /\ s.hosts = {} /\ s.start = t
BY DEF Down, ProcState, PC

\* The lines of a host list are names, and so are the hosts made of them.
LEMMA HostLines ==
  ASSUME NEW i \in 1..Len(ListSteps)
  PROVE  /\ ListSteps[i].url \in Url
         /\ ListSteps[i].op \in {"Hosts.Add", "Hosts.Remove"} =>
              MayHave(ListSteps[i].url) \subseteq Name
         /\ ListSteps[i].op \in {"Hosts.Add", "Hosts.Remove",
                                 "Regexps.Add", "Regexps.Remove"}
         /\ MayHave(ListSteps[i].url) \subseteq Line
<1>1. ListSteps[i] \in ListStep
  BY ListsAssumption
<1> QED
  BY <1>1, ListsAssumption DEF ListStep, MayHave, Line

LEMMA AddLinesFacts ==
  ASSUME NEW m \in SUBSET Name, NEW lines \in SUBSET Name
  PROVE  AddLines(m, lines) \in SUBSET Name
BY StripWWWIsSuffix DEF AddLines

\* A step that gives one process a new state leaves the other alone.
LEMMA NewState ==
  ASSUME TypeOK, NEW p \in Process, NEW s \in ProcState, Goto(p, s)
  PROVE  /\ proc' \in [Process -> ProcState] /\ proc'[p] = s
         /\ \A q \in Process \ {p} : proc'[q] = proc[q]
BY DEF TypeOK, Goto

LEMMA AtStepFacts ==
  ASSUME NEW s \in ProcState, NEW i \in Nat
  PROVE  LET t == AtStep(s, i)
         IN  /\ t \in ProcState /\ t.step = i /\ t.data = {}
             /\ t.hosts = s.hosts /\ t.start = s.start
             /\ t.pc = IF i <= Len(ListSteps) THEN "list" ELSE "config"
BY DEF AtStep, ProcState, PC

LEMMA LoadFacts ==
  ASSUME NEW s \in ProcState, NEW i \in 1..Len(ListSteps),
         NEW lines \in SUBSET MayHave(ListSteps[i].url)
  PROVE  LET op == ListSteps[i].op
             t == Load(s, op, lines)
         IN  /\ t \in ProcState /\ t.start = s.start /\ t.step = s.step
             /\ op = "Hosts.Add" => t.hosts = AddLines(s.hosts, lines)
             /\ op = "Hosts.Remove" => t.hosts = s.hosts \ lines
             /\ op \notin {"Hosts.Add", "Hosts.Remove"} => t.hosts = s.hosts
<1> DEFINE op == ListSteps[i].op
           t == Load(s, op, lines)
<1>1. CASE op = "Hosts.Add"
  <2>1. AddLines(s.hosts, lines) \in SUBSET Name
    BY <1>1, HostLines, AddLinesFacts DEF ProcState
  <2>2. t = [s EXCEPT !.hosts = AddLines(s.hosts, lines)]
    BY <1>1 DEF Load
  <2> QED
    BY <1>1, <2>1, <2>2 DEF ProcState
<1>2. CASE op = "Hosts.Remove"
  <2>1. t = [s EXCEPT !.hosts = s.hosts \ lines]
    BY <1>2 DEF Load
  <2> QED
    BY <1>2, <2>1 DEF ProcState
<1>3. ASSUME NEW regexps \in [Regexp -> Nat], t = [s EXCEPT !.regexps = regexps]
      PROVE  t \in ProcState /\ t.start = s.start /\ t.step = s.step /\ t.hosts = s.hosts
  BY <1>3 DEF ProcState
<1>4. s.regexps \in [Regexp -> Nat]
  BY DEF ProcState
<1>5. CASE op = "Regexps.Add"
  <2> DEFINE added == [r \in Regexp |-> IF r \in lines THEN s.regexps[r] + 1
                                                       ELSE s.regexps[r]]
  <2>1. added \in [Regexp -> Nat]
    BY <1>4
  <2>2. t = [s EXCEPT !.regexps = added]
    BY <1>5 DEF Load
  <2> QED
    BY <1>3, <1>5, <2>1, <2>2
<1>6. CASE op = "Regexps.Remove"
  <2> DEFINE left == [r \in Regexp |-> IF r \in lines /\ s.regexps[r] > 0
                                       THEN s.regexps[r] - 1 ELSE s.regexps[r]]
  <2>1. left \in [Regexp -> Nat]
    BY <1>4
  <2>2. t = [s EXCEPT !.regexps = left]
    BY <1>6 DEF Load
  <2> QED
    BY <1>3, <1>6, <2>1, <2>2
<1> QED
  BY <1>1, <1>2, <1>5, <1>6, HostLines

-----------------------------------------------------------------------------
(* What each action does, field by field                                   *)

\* The other process stays where it is; its file may lose its name.
Others(p) ==
  \A q \in Process \ {p} :
    /\ proc'[q].pc = proc[q].pc /\ proc'[q].step = proc[q].step
    /\ proc'[q].hosts = proc[q].hosts /\ proc'[q].data = proc[q].data
    /\ proc'[q].start = proc[q].start
    /\ proc'[q].attached => proc[q].attached

\* The process goes on from where it is, with the same lists.
GoesOn(p) ==
  /\ proc'[p].step = proc[p].step /\ proc'[p].hosts = proc[p].hosts
  /\ proc'[p].start = proc[p].start

LEMMA MovesFacts ==
  ASSUME TypeOK, NEW p \in Process, NEW s \in ProcState, Goto(p, s)
  PROVE  proc' \in [Process -> ProcState] /\ proc'[p] = s /\ Others(p)
BY NewState DEF Others

\* The type invariant after a step of a process.
LEMMA TypeKept ==
  ASSUME TypeOK, proc' \in [Process -> ProcState], file' \in [Url -> File],
         compiled' \in File, UNCHANGED world,
         Incident \/ UNCHANGED incidents, intact' \in BOOLEAN
  PROVE  TypeOK'
<1>1. incidents' \in 0..MaxIncidents
  BY ListsAssumption DEF TypeOK, Incident
<1>2. /\ now' \in Nat /\ remote' \in [Url -> SUBSET Line]
      /\ lastListed' \in [Name -> Nat \union {Never}]
  BY DEF TypeOK, world
<1> QED
  BY <1>1, <1>2 DEF TypeOK

LEMMA NoIncidentFacts ==
  ASSUME TypeOK, NoIncident
  PROVE  UNCHANGED incidents /\ UNCHANGED intact /\ intact' \in BOOLEAN
BY DEF NoIncident, TypeOK

\* msg.Fatal, a kill, the end of the server or of the command
LEMMA DownEffect ==
  ASSUME TypeOK, NEW p \in Process, Goto(p, Down)
  PROVE  proc' \in [Process -> ProcState] /\ proc'[p].pc = "down" /\ Others(p)
BY MovesFacts, DownFacts

LEMMA StartEffect ==
  ASSUME TypeOK, NEW p \in Process, Start(p)
  PROVE  /\ TypeOK' /\ Others(p) /\ UNCHANGED <<file, world>>
         /\ proc[p].pc = "down" /\ proc'[p].pc = "stat"
         /\ proc'[p].hosts = {} /\ proc'[p].start = now
         /\ \/ p = Server /\ compiled' = compiled
            \/ p = Compiler /\ compiled' = NoFile
         /\ intact' = (intact /\ \A q \in Process : ~Working(q))
<1> DEFINE s == [Down EXCEPT !.pc = "stat", !.start = now]
<1>1. s \in ProcState /\ s.pc = "stat" /\ s.hosts = {} /\ s.start = now
  BY DownFacts, ProcFacts
<1>2. proc' \in [Process -> ProcState] /\ proc'[p] = s /\ Others(p)
  BY <1>1, MovesFacts DEF Start
<1>3. intact' \in BOOLEAN
  BY DEF Start
<1>4. compiled' \in File /\ file' \in [Url -> File] /\ UNCHANGED world
  BY FileFacts DEF Start, TypeOK
<1>5. Incident \/ UNCHANGED incidents
  BY DEF Start
<1>6. TypeOK'
  BY <1>2, <1>3, <1>4, <1>5, TypeKept
<1>7. \/ p = Server /\ compiled' = compiled
      \/ p = Compiler /\ compiled' = NoFile
  BY DEF Start
<1>8. /\ UNCHANGED file /\ UNCHANGED world /\ proc[p].pc = "down"
      /\ intact' = (intact /\ \A q \in Process : ~Working(q))
  BY DEF Start
<1> QED
  BY <1>1, <1>2, <1>6, <1>7, <1>8

LEMMA StopEffect ==
  ASSUME TypeOK, Stop
  PROVE  /\ TypeOK' /\ proc'[Server].pc = "down" /\ Others(Server)
         /\ UNCHANGED <<file, compiled, world, intact>>
<1>1. Server \in Process
  BY DEF Process
<1>2. proc' \in [Process -> ProcState] /\ proc'[Server].pc = "down" /\ Others(Server)
  BY <1>1, DownEffect DEF Stop
<1> QED
  BY <1>2, TypeKept, NoIncidentFacts DEF Stop, TypeOK

LEMMA KillEffect ==
  ASSUME TypeOK, NEW p \in Process, Kill(p)
  PROVE  /\ TypeOK' /\ proc'[p].pc = "down" /\ Others(p)
         /\ UNCHANGED <<file, compiled, world>> /\ intact' = FALSE
<1>1. proc' \in [Process -> ProcState] /\ proc'[p].pc = "down" /\ Others(p)
  BY DownEffect DEF Kill, Fatal
<1> QED
  BY <1>1, TypeKept DEF Kill, Fatal, TypeOK

LEMMA StatCompiledEffect ==
  ASSUME TypeOK, NEW p \in Process, StatCompiled(p)
  PROVE  /\ TypeOK' /\ Others(p) /\ UNCHANGED <<file, compiled, world, intact>>
         /\ proc[p].pc = "stat"
         /\ proc'[p].hosts = proc[p].hosts /\ proc'[p].start = proc[p].start
         /\ \/ Usable /\ proc'[p].pc = "compiled"
            \/ /\ proc'[p].step = 1
               /\ proc'[p].pc = IF 1 <= Len(ListSteps) THEN "list" ELSE "config"
<1> DEFINE s == proc[p]
<1>1. s \in ProcState
  BY ProcFacts
<1>2. ASSUME NEW t \in ProcState, Goto(p, t)
      PROVE  TypeOK' /\ Others(p) /\ proc'[p] = t
  BY <1>2, MovesFacts, TypeKept, NoIncidentFacts DEF StatCompiled, TypeOK
<1>3. CASE Usable
  <2>1. [s EXCEPT !.pc = "compiled"] \in ProcState
    BY <1>1 DEF ProcState, PC
  <2>2. TypeOK' /\ Others(p) /\ proc'[p] = [s EXCEPT !.pc = "compiled"]
    BY <1>2, <1>3, <2>1 DEF StatCompiled
  <2> QED
    BY <1>1, <1>3, <2>2 DEF StatCompiled, NoIncident, ProcState
<1>4. CASE ~Usable
  <2>1. AtStep(s, 1) \in ProcState
    BY <1>1, AtStepFacts
  <2>2. TypeOK' /\ Others(p) /\ proc'[p] = AtStep(s, 1)
    BY <1>2, <1>4, <2>1 DEF StatCompiled
  <2> QED
    BY <1>1, <2>2, AtStepFacts DEF StatCompiled, NoIncident
<1> QED
  BY <1>3, <1>4

LEMMA ReadCompiledEffect ==
  ASSUME TypeOK, FilesOK, NEW p \in Process, ReadCompiled(p)
  PROVE  /\ TypeOK' /\ Others(p) /\ UNCHANGED <<file, compiled, world, intact>>
         /\ proc[p].pc = "compiled"
         /\ \/ proc'[p].pc = "down"
            \/ /\ compiled # NoFile
               /\ proc'[p].pc = "config" /\ proc'[p].start = proc[p].start
               /\ proc'[p].hosts = AddLines(proc[p].hosts, compiled.lines)
<1> DEFINE s == proc[p]
           t == [s EXCEPT !.pc = "config",
                          !.hosts = AddLines(s.hosts, compiled.lines)]
<1>1. s \in ProcState /\ s.hosts \in SUBSET Name
  BY ProcFacts
<1>2. CASE Goto(p, Down)
  BY <1>2, DownEffect, TypeKept, NoIncidentFacts DEF ReadCompiled, Fatal, TypeOK
<1>3. CASE compiled # NoFile /\ Goto(p, t)
  <2>1. AddLines(s.hosts, compiled.lines) \in SUBSET Name
    BY <1>1, AddLinesFacts DEF FilesOK
  <2>2. t \in ProcState
    BY <1>1, <2>1 DEF ProcState, PC
  <2>3. proc' \in [Process -> ProcState] /\ proc'[p] = t /\ Others(p)
    BY <1>3, <2>2, MovesFacts
  <2>4. TypeOK'
    BY <2>3, TypeKept, NoIncidentFacts DEF ReadCompiled, Fatal, TypeOK
  <2> QED
    BY <1>1, <1>3, <2>3, <2>4 DEF ReadCompiled, Fatal, NoIncident, ProcState
<1> QED
  BY <1>2, <1>3 DEF ReadCompiled, Fatal

LEMMA StatListEffect ==
  ASSUME TypeOK, NEW p \in Process, StatList(p)
  PROVE  /\ TypeOK' /\ Others(p) /\ UNCHANGED <<file, compiled, world, intact>>
         /\ proc[p].pc = "list" /\ GoesOn(p)
         /\ proc'[p].pc \in {"get", "remove", "open"}
         /\ proc'[p].pc = "open" => /\ file[UrlOf(p)] # NoFile
                                    /\ ~(now > file[UrlOf(p)].mtime + CacheHosts)
<1> DEFINE s == proc[p]
           pc == AfterStat(file[UrlOf(p)])
           t == [s EXCEPT !.pc = pc]
<1>1. s \in ProcState
  BY ProcFacts
<1>2. /\ pc \in {"get", "remove", "open"}
      /\ pc = "open" => /\ file[UrlOf(p)] # NoFile
                        /\ ~(now > file[UrlOf(p)].mtime + CacheHosts)
  BY DEF AfterStat
<1> HIDE DEF pc
<1>3. t \in ProcState /\ t.pc = pc /\ t.step = s.step /\ t.hosts = s.hosts
      /\ t.start = s.start
  BY <1>1, <1>2 DEF ProcState, PC
<1>4. Goto(p, t)
  BY DEF StatList, pc
<1>5. proc' \in [Process -> ProcState] /\ proc'[p] = t /\ Others(p)
  BY <1>3, <1>4, MovesFacts
<1>6. TypeOK'
  BY <1>5, TypeKept, NoIncidentFacts DEF StatList, TypeOK
<1> QED
  BY <1>2, <1>3, <1>5, <1>6 DEF StatList, NoIncident, GoesOn

LEMMA RemoveListEffect ==
  ASSUME TypeOK, NEW p \in Process, UrlOf(p) \in Url, RemoveList(p)
  PROVE  /\ TypeOK' /\ Others(p) /\ UNCHANGED <<compiled, world, intact>>
         /\ proc[p].pc = "remove"
         /\ \/ proc'[p].pc = "down" /\ UNCHANGED file
            \/ /\ proc'[p].pc = "get" /\ GoesOn(p)
               /\ file' = [file EXCEPT ![UrlOf(p)] = NoFile]
<1> DEFINE s == proc[p]
           Detached(q) == IF q = p THEN [s EXCEPT !.pc = "get"]
                          ELSE IF proc[q].pc = "write" /\ UrlOf(q) = UrlOf(p)
                          THEN [proc[q] EXCEPT !.attached = FALSE]
                          ELSE proc[q]
<1>1. s \in ProcState /\ proc \in [Process -> ProcState]
  BY ProcFacts DEF TypeOK
<1>2. CASE Fatal(p)
  BY <1>2, DownEffect, TypeKept, NoIncidentFacts DEF RemoveList, Fatal, TypeOK
<1>3. CASE /\ file' = [file EXCEPT ![UrlOf(p)] = NoFile]
           /\ proc' = [q \in Process |-> Detached(q)]
           /\ UNCHANGED compiled
  <2>1. \A q \in Process : Detached(q) \in ProcState
    BY <1>1 DEF ProcState, PC
  <2>2. /\ proc' \in [Process -> ProcState] /\ proc'[p] = [s EXCEPT !.pc = "get"]
        /\ \A q \in Process \ {p} :
             proc'[q] \in {proc[q], [proc[q] EXCEPT !.attached = FALSE]}
    BY <1>3, <2>1
  <2>3. Others(p)
    BY <1>1, <2>2 DEF Others, ProcState
  <2>4. file' \in [Url -> File]
    BY <1>3, FileFacts DEF TypeOK
  <2>5. TypeOK'
    BY <1>3, <2>2, <2>4, TypeKept, NoIncidentFacts DEF RemoveList, TypeOK
  <2> QED
    BY <1>1, <1>3, <2>2, <2>3, <2>5 DEF RemoveList, NoIncident, GoesOn, ProcState
<1> QED
  BY <1>2, <1>3 DEF RemoveList

\* The list a process is at.
LEMMA AtListFacts ==
  ASSUME BaseInv, NEW p \in Process, proc[p].pc \in AtList
  PROVE  /\ proc[p].step \in 1..Len(ListSteps)
         /\ UrlOf(p) \in Url /\ UrlOf(p) = ListSteps[proc[p].step].url
         /\ file[UrlOf(p)] \in File
<1>1. proc[p].step \in 1..Len(ListSteps)
  BY DEF BaseInv, ProcOK
<1>2. UrlOf(p) \in Url
  BY <1>1, HostLines DEF UrlOf
<1> QED
  BY <1>1, <1>2 DEF BaseInv, TypeOK, UrlOf

LEMMA GetEffect ==
  ASSUME BaseInv, NEW p \in Process, Get(p)
  PROVE  /\ TypeOK' /\ Others(p) /\ UNCHANGED <<file, compiled, world>>
         /\ proc[p].pc = "get"
         /\ \/ proc'[p].pc = "down" /\ intact' = intact
            \/ /\ proc'[p].pc = "create" /\ GoesOn(p)
               /\ proc'[p].data \subseteq remote[UrlOf(p)]
               /\ intact' => intact /\ proc'[p].data = remote[UrlOf(p)]
<1> DEFINE s == proc[p]
<1>1. TypeOK /\ s \in ProcState /\ s.pc = "get"
  BY ProcFacts DEF BaseInv, Get
<1>2. UrlOf(p) \in Url /\ remote[UrlOf(p)] \in SUBSET Line
  BY <1>1, AtListFacts DEF AtList, TypeOK
<1>3. ASSUME NEW lines \in Answers(UrlOf(p)),
             Goto(p, [s EXCEPT !.pc = "create", !.data = lines]),
             intact' = (intact /\ lines = remote[UrlOf(p)]),
             UNCHANGED <<file, compiled, incidents, world>>
      PROVE  /\ TypeOK' /\ Others(p)
             /\ proc'[p].pc = "create" /\ GoesOn(p)
             /\ proc'[p].data \subseteq remote[UrlOf(p)]
             /\ intact' => intact /\ proc'[p].data = remote[UrlOf(p)]
  <2> DEFINE t == [s EXCEPT !.pc = "create", !.data = lines]
  <2>1. lines \subseteq remote[UrlOf(p)]
    BY <1>3 DEF Answers
  <2>2. t \in ProcState /\ t.pc = "create" /\ t.data = lines
        /\ t.step = s.step /\ t.hosts = s.hosts /\ t.start = s.start
    BY <1>1, <1>2, <2>1 DEF ProcState, PC
  <2>3. proc' \in [Process -> ProcState] /\ proc'[p] = t /\ Others(p)
    BY <1>1, <1>3, <2>2, MovesFacts
  <2>4. intact' \in BOOLEAN
    BY <1>3
  <2>5. TypeOK'
    BY <1>1, <1>3, <2>3, <2>4, TypeKept DEF TypeOK
  <2>6. intact' => intact /\ lines = remote[UrlOf(p)]
    BY <1>3
  <2> QED
    BY <2>1, <2>2, <2>3, <2>5, <2>6 DEF GoesOn
<1>4. ASSUME Incident \/ UNCHANGED incidents, Fatal(p), UNCHANGED <<intact, world>>
      PROVE  TypeOK' /\ Others(p) /\ proc'[p].pc = "down"
  <2>1. proc' \in [Process -> ProcState] /\ Others(p) /\ proc'[p].pc = "down"
    BY <1>1, <1>4, DownEffect DEF Fatal
  <2> QED
    BY <1>1, <1>4, <2>1, TypeKept DEF Fatal, TypeOK
<1>5. UNCHANGED <<file, compiled, world>>
  BY DEF Get, Fatal
<1>6. \/ \E lines \in Answers(UrlOf(p)) :
           /\ Goto(p, [s EXCEPT !.pc = "create", !.data = lines])
           /\ intact' = (intact /\ lines = remote[UrlOf(p)])
           /\ UNCHANGED <<file, compiled, incidents, world>>
      \/ (Incident \/ UNCHANGED incidents) /\ Fatal(p) /\ UNCHANGED <<intact, world>>
  BY DEF Get
<1>7. CASE (Incident \/ UNCHANGED incidents) /\ Fatal(p) /\ UNCHANGED <<intact, world>>
  BY <1>1, <1>4, <1>5, <1>7
<1>8. ASSUME NEW lines \in Answers(UrlOf(p)),
             Goto(p, [s EXCEPT !.pc = "create", !.data = lines]),
             intact' = (intact /\ lines = remote[UrlOf(p)]),
             UNCHANGED <<file, compiled, incidents, world>>
      PROVE  /\ TypeOK' /\ Others(p)
             /\ proc'[p].pc = "create" /\ GoesOn(p)
             /\ proc'[p].data \subseteq remote[UrlOf(p)]
             /\ intact' => intact /\ proc'[p].data = remote[UrlOf(p)]
  BY <1>3, <1>8
<1> QED
  BY <1>1, <1>5, <1>6, <1>7, <1>8

LEMMA CreateEffect ==
  ASSUME BaseInv, NEW p \in Process, Create(p)
  PROVE  /\ TypeOK' /\ Others(p) /\ UNCHANGED <<compiled, world, intact>>
         /\ proc[p].pc = "create" /\ proc'[p].pc = "write" /\ GoesOn(p)
         /\ proc'[p].data = proc[p].data /\ proc'[p].attached = TRUE
         /\ file' = [file EXCEPT ![UrlOf(p)] = [lines |-> {}, mtime |-> now]]
<1> DEFINE s == proc[p]
           t == [s EXCEPT !.pc = "write", !.attached = TRUE]
<1>1. TypeOK /\ s \in ProcState /\ s.pc = "create"
  BY ProcFacts DEF BaseInv, Create
<1>2. t \in ProcState /\ t.pc = "write" /\ t.attached = TRUE /\ t.data = s.data
      /\ t.step = s.step /\ t.hosts = s.hosts /\ t.start = s.start
  BY <1>1 DEF ProcState, PC
<1>3. Goto(p, t)
  BY DEF Create
<1>4. proc' \in [Process -> ProcState] /\ proc'[p] = t /\ Others(p)
  BY <1>1, <1>2, <1>3, MovesFacts
<1>5. file' = [file EXCEPT ![UrlOf(p)] = [lines |-> {}, mtime |-> now]]
  BY DEF Create
<1>6. file' \in [Url -> File]
  BY <1>1, <1>5, FileFacts, ProcFacts DEF TypeOK
<1>7. TypeOK'
  BY <1>1, <1>4, <1>6, TypeKept, NoIncidentFacts DEF Create, TypeOK
<1> QED
  BY <1>1, <1>2, <1>4, <1>5, <1>7 DEF Create, NoIncident, GoesOn

LEMMA WriteEffect ==
  ASSUME BaseInv, NEW p \in Process, Write(p)
  PROVE  /\ TypeOK' /\ Others(p) /\ UNCHANGED <<compiled, world>>
         /\ proc[p].pc = "write"
         /\ \/ proc'[p].pc = "down" /\ UNCHANGED file /\ intact' = FALSE
            \/ /\ proc'[p].pc = "open" /\ GoesOn(p) /\ intact' = intact
               /\ \/ ~proc[p].attached /\ UNCHANGED file
                  \/ /\ proc[p].attached
                     /\ \E tail \in SUBSET file[UrlOf(p)].lines :
                          file' = [file EXCEPT ![UrlOf(p)] =
                                     [lines |-> proc[p].data \union tail,
                                      mtime |-> now]]
<1> DEFINE s == proc[p]
           t == [s EXCEPT !.pc = "open"]
           Writes(tail) == file' = [file EXCEPT ![UrlOf(p)] =
                                      [lines |-> s.data \union tail, mtime |-> now]]
<1>1. TypeOK /\ s \in ProcState /\ s.pc = "write" /\ s.data \subseteq Line /\ now \in Nat
  BY ProcFacts DEF BaseInv, Write
<1>2. t \in ProcState /\ t.pc = "open"
      /\ t.step = s.step /\ t.hosts = s.hosts /\ t.start = s.start
  BY <1>1 DEF ProcState, PC
<1>3. file[UrlOf(p)].lines \subseteq Line
  BY <1>1, AtListFacts, FileFacts DEF AtList
<1>4. UNCHANGED <<compiled, world>>
  BY DEF Write, NoIncident, Fatal
<1>5. CASE Fatal(p) /\ Incident /\ intact' = FALSE
  <2>1. proc' \in [Process -> ProcState] /\ Others(p) /\ proc'[p].pc = "down"
    BY <1>1, <1>5, DownEffect DEF Fatal
  <2>2. TypeOK'
    BY <1>1, <1>4, <1>5, <2>1, TypeKept DEF Fatal, TypeOK
  <2> QED
    BY <1>1, <1>4, <1>5, <2>1, <2>2 DEF Fatal
<1>6. ASSUME Goto(p, t), NoIncident, file' \in [Url -> File]
      PROVE  /\ TypeOK' /\ Others(p) /\ proc'[p].pc = "open" /\ GoesOn(p)
             /\ intact' = intact
  <2>1. proc' \in [Process -> ProcState] /\ proc'[p] = t /\ Others(p)
    BY <1>1, <1>2, <1>6, MovesFacts
  <2>2. TypeOK'
    BY <1>1, <1>4, <1>6, <2>1, TypeKept, NoIncidentFacts DEF TypeOK
  <2> QED
    BY <1>2, <1>6, <2>1, <2>2 DEF NoIncident, GoesOn
<1>7. CASE Goto(p, t) /\ NoIncident /\ ~s.attached /\ UNCHANGED file
  BY <1>1, <1>4, <1>6, <1>7 DEF TypeOK
<1>8. ASSUME Goto(p, t), NoIncident, s.attached,
             NEW tail \in SUBSET file[UrlOf(p)].lines, Writes(tail)
      PROVE  /\ TypeOK' /\ Others(p) /\ proc'[p].pc = "open" /\ GoesOn(p)
             /\ intact' = intact
  <2>1. s.data \union tail \in SUBSET Line
    BY <1>1, <1>3
  <2>2. [lines |-> s.data \union tail, mtime |-> now] \in File
    BY <1>1, <2>1, FileFacts
  <2>3. file' \in [Url -> File]
    BY <1>1, <1>8, <2>2 DEF TypeOK
  <2> QED
    BY <1>6, <1>8, <2>3
<1>9. CASE /\ Goto(p, t) /\ NoIncident /\ s.attached
           /\ \E tail \in SUBSET file[UrlOf(p)].lines : Writes(tail)
  BY <1>1, <1>4, <1>8, <1>9
<1>10. \/ Fatal(p) /\ Incident /\ intact' = FALSE
       \/ Goto(p, t) /\ NoIncident /\ ~s.attached /\ UNCHANGED file
       \/ /\ Goto(p, t) /\ NoIncident /\ s.attached
          /\ \E tail \in SUBSET file[UrlOf(p)].lines : Writes(tail)
  BY DEF Write
<1> QED
  BY <1>5, <1>7, <1>9, <1>10

LEMMA OpenEffect ==
  ASSUME BaseInv, NEW p \in Process, Open(p)
  PROVE  LET f == file[UrlOf(p)]
             s == proc[p]
             t == proc'[p]
             op == ListSteps[s.step].op
         IN  /\ TypeOK' /\ Others(p) /\ UNCHANGED <<file, compiled, world, intact>>
             /\ s.pc = "open"
             /\ \/ t.pc = "down"
                \/ /\ f # NoFile /\ f.lines \subseteq MayHave(UrlOf(p))
                   /\ t.step = s.step + 1 /\ t.start = s.start
                   /\ t.pc = IF t.step <= Len(ListSteps) THEN "list" ELSE "config"
                   /\ op = "Hosts.Add" => t.hosts = AddLines(s.hosts, f.lines)
                   /\ op = "Hosts.Remove" => t.hosts = s.hosts \ f.lines
                   /\ op \notin {"Hosts.Add", "Hosts.Remove"} => t.hosts = s.hosts
<1> DEFINE s == proc[p]
           f == file[UrlOf(p)]
           op == ListSteps[s.step].op
           l == Load(s, op, f.lines)
           t == AtStep(l, s.step + 1)
<1>1. TypeOK /\ s \in ProcState /\ s.pc = "open"
  BY ProcFacts DEF BaseInv, Open
<1>2. s.step \in 1..Len(ListSteps) /\ UrlOf(p) \in Url
      /\ UrlOf(p) = ListSteps[s.step].url
  BY <1>1, AtListFacts DEF AtList
<1>3. f.lines \subseteq MayHave(UrlOf(p))
  BY <1>2 DEF BaseInv, FilesOK
<1>4. UNCHANGED <<file, compiled, world, intact>>
  BY DEF Open, Fatal, NoIncident
<1>5. CASE Fatal(p)
  <2>1. proc' \in [Process -> ProcState] /\ Others(p) /\ proc'[p].pc = "down"
    BY <1>1, <1>5, DownEffect DEF Fatal
  <2>2. TypeOK'
    BY <1>1, <1>4, <1>5, <2>1, TypeKept, NoIncidentFacts DEF TypeOK, Open
  <2> QED
    BY <1>1, <1>4, <2>1, <2>2
<1>6. CASE f # NoFile /\ Goto(p, t)
  <2>1. /\ l \in ProcState /\ l.start = s.start
        /\ op = "Hosts.Add" => l.hosts = AddLines(s.hosts, f.lines)
        /\ op = "Hosts.Remove" => l.hosts = s.hosts \ f.lines
        /\ op \notin {"Hosts.Add", "Hosts.Remove"} => l.hosts = s.hosts
    BY <1>1, <1>2, <1>3, LoadFacts
  <2>2. s.step + 1 \in Nat
    BY <1>2
  <2> HIDE DEF l, op
  <2>3. /\ t \in ProcState /\ t.step = s.step + 1
        /\ t.hosts = l.hosts /\ t.start = l.start
        /\ t.pc = IF s.step + 1 <= Len(ListSteps) THEN "list" ELSE "config"
    BY <2>1, <2>2, AtStepFacts
  <2> HIDE DEF t
  <2>4. proc' \in [Process -> ProcState] /\ proc'[p] = t /\ Others(p)
    BY <1>1, <1>6, <2>3, MovesFacts
  <2>5. TypeOK'
    BY <1>1, <1>4, <2>4, TypeKept, NoIncidentFacts DEF TypeOK, Open
  <2> QED
    BY <1>1, <1>3, <1>4, <1>6, <2>1, <2>3, <2>4, <2>5 DEF op
<1> QED
  BY <1>5, <1>6 DEF Open

LEMMA ConfigureEffect ==
  ASSUME TypeOK, NEW p \in Process, Configure(p)
  PROVE  /\ TypeOK' /\ Others(p) /\ UNCHANGED <<file, compiled, world, intact>>
         /\ proc[p].pc = "config" /\ proc'[p].start = proc[p].start
         /\ proc'[p].pc = IF p = Server THEN "ready" ELSE "reduce"
         /\ proc'[p].hosts =
              HostsRemove(HostsAdd(proc[p].hosts, ConfigHosts), ConfigUnhosts)
<1> DEFINE s == proc[p]
           pc == IF p = Server THEN "ready" ELSE "reduce"
           hosts == HostsRemove(HostsAdd(s.hosts, ConfigHosts), ConfigUnhosts)
           regexps == RegexpsRemove(RegexpsAdd(s.regexps, ConfigRegexps),
                                    ConfigUnregexps)
           t == [s EXCEPT !.pc = pc, !.hosts = hosts, !.regexps = regexps]
<1>1. s \in ProcState /\ s.pc = "config" /\ s.hosts \subseteq Name
  BY ProcFacts DEF Configure
<1>2. hosts \subseteq Name
  BY <1>1, HostsAddType, ListsAssumption DEF HostsRemove
<1>3. regexps \in [Regexp -> Nat]
  BY <1>1, RegexpsAddType, RegexpsRemoveType, ListsAssumption DEF ProcState
<1> HIDE DEF hosts, regexps
<1>4. t \in ProcState /\ t.pc = pc /\ t.hosts = hosts /\ t.start = s.start
  BY <1>1, <1>2, <1>3 DEF ProcState, PC
<1>5. Goto(p, t)
  BY DEF Configure, hosts, regexps
<1>6. proc' \in [Process -> ProcState] /\ proc'[p] = t /\ Others(p)
  BY <1>4, <1>5, MovesFacts
<1>7. TypeOK'
  BY <1>6, TypeKept, NoIncidentFacts DEF Configure, TypeOK
<1> QED
  BY <1>1, <1>4, <1>6, <1>7 DEF Configure, NoIncident, hosts

LEMMA ReduceEffect ==
  ASSUME TypeOK, NEW p \in Process, Reduce(p)
  PROVE  /\ TypeOK' /\ Others(p) /\ UNCHANGED <<file, world, intact>>
         /\ proc[p].pc = "reduce" /\ proc'[p].pc = "dump"
         /\ proc'[p].start = proc[p].start
         /\ proc'[p].data \subseteq proc[p].hosts
         /\ \A n \in Name : InHosts(proc'[p].data, n) <=> InHosts(proc[p].hosts, n)
         /\ compiled' = [lines |-> {}, mtime |-> now]
<1> DEFINE s == proc[p]
           T(newHosts) == [s EXCEPT !.pc = "dump", !.data = newHosts]
<1>1. s \in ProcState /\ s.pc = "reduce" /\ s.hosts \subseteq Name
  BY ProcFacts DEF Reduce
<1>2. PICK newHosts \in SUBSET s.hosts :
        /\ \A n \in Name : InHosts(newHosts, n) <=> InHosts(s.hosts, n)
        /\ Goto(p, T(newHosts))
  BY DEF Reduce, Reductions
<1> DEFINE t == T(newHosts)
<1>3. newHosts \in SUBSET Line
  BY <1>1 DEF Line
<1>4. t \in ProcState /\ t.pc = "dump" /\ t.data = newHosts /\ t.start = s.start
  BY <1>1, <1>3 DEF ProcState, PC
<1>5. proc' \in [Process -> ProcState] /\ proc'[p] = t /\ Others(p)
  BY <1>2, <1>4, MovesFacts
<1>6. compiled' = [lines |-> {}, mtime |-> now] /\ compiled' \in File
  BY FileFacts, ProcFacts DEF Reduce
<1>7. TypeOK'
  BY <1>5, <1>6, TypeKept, NoIncidentFacts DEF Reduce, TypeOK
<1> QED
  BY <1>1, <1>2, <1>4, <1>5, <1>6, <1>7 DEF Reduce, NoIncident

LEMMA DumpEffect ==
  ASSUME TypeOK, FilesOK, NEW p \in Process, ProcOK(p), Dump(p)
  PROVE  /\ TypeOK' /\ Others(p) /\ UNCHANGED <<file, world, intact>>
         /\ proc[p].pc = "dump"
         /\ \/ proc'[p].pc = "down" /\ proc[p].data = {} /\ UNCHANGED compiled
            \/ /\ proc'[p].pc = "dump" /\ proc'[p].start = proc[p].start
               /\ \E n \in proc[p].data :
                    /\ proc'[p].data = proc[p].data \ {n}
                    /\ compiled' = [lines |-> compiled.lines \union {n},
                                    mtime |-> now]
<1> DEFINE s == proc[p]
           T(n) == [s EXCEPT !.data = s.data \ {n}]
<1>1. s \in ProcState /\ s.pc = "dump" /\ s.data \subseteq Name
  BY ProcFacts DEF Dump, ProcOK
<1>2. UNCHANGED <<file, world, intact>>
  BY DEF Dump, NoIncident
<1>3. CASE Dumped(p) /\ Goto(p, Down) /\ UNCHANGED compiled
  <2>1. proc' \in [Process -> ProcState] /\ Others(p) /\ proc'[p].pc = "down"
    BY <1>3, DownEffect
  <2>2. TypeOK'
    BY <1>2, <1>3, <2>1, TypeKept, NoIncidentFacts DEF TypeOK, Dump
  <2> QED
    BY <1>1, <1>2, <1>3, <2>1, <2>2 DEF Dumped
<1>4. ASSUME NEW n \in s.data, Goto(p, T(n)),
             compiled' = [lines |-> compiled.lines \union {n}, mtime |-> now]
      PROVE  /\ TypeOK' /\ Others(p) /\ proc'[p].pc = "dump"
             /\ proc'[p].start = s.start /\ proc'[p].data = s.data \ {n}
  <2>1. T(n) \in ProcState /\ T(n).pc = s.pc /\ T(n).start = s.start
        /\ T(n).data = s.data \ {n}
    BY <1>1 DEF ProcState
  <2>2. proc' \in [Process -> ProcState] /\ proc'[p] = T(n) /\ Others(p)
    BY <1>4, <2>1, MovesFacts
  <2>3. compiled.lines \union {n} \in SUBSET Line /\ now \in Nat
    BY <1>1, ProcFacts DEF FilesOK, Line
  <2>4. compiled' \in File
    BY <1>4, <2>3, FileFacts
  <2>5. TypeOK'
    BY <1>2, <2>2, <2>4, TypeKept, NoIncidentFacts DEF TypeOK, Dump
  <2> QED
    BY <1>1, <2>1, <2>2, <2>5
<1>5. \/ Dumped(p) /\ Goto(p, Down) /\ UNCHANGED compiled
      \/ \E n \in s.data :
           /\ compiled' = [lines |-> compiled.lines \union {n}, mtime |-> now]
           /\ Goto(p, T(n))
  BY DEF Dump
<1> QED
  BY <1>1, <1>2, <1>3, <1>4, <1>5

\* The world changes: the lists of all processes stay, the core of every list
\* stays, and what is listed was listed.
LEMMA PublishEffect ==
  ASSUME TypeOK, FilesOK, NEW u \in Url, Publish(u)
  PROVE  /\ TypeOK' /\ UNCHANGED <<file, compiled, proc, now, intact>>
         /\ \A v \in Url : Core[v] \subseteq remote'[v] /\ remote'[v] \subseteq MayHave(v)
         /\ \A n \in Name : lastListed'[n] \in {now, lastListed[n]}
         /\ \A n \in Name : Listed(remote', n) => lastListed'[n] = now
<1>1. PICK line \in Optional[u] :
        remote' = [remote EXCEPT ![u] = IF line \in @ THEN @ \ {line}
                                                      ELSE @ \union {line}]
  BY DEF Publish
<1>2. line \notin Core[u] /\ line \in MayHave(u) /\ line \in Line
  BY ListsAssumption DEF MayHave
<1>3. remote' \in [Url -> SUBSET Line]
  BY <1>1, <1>2 DEF TypeOK
<1>4. \A v \in Url : Core[v] \subseteq remote'[v] /\ remote'[v] \subseteq MayHave(v)
  BY <1>1, <1>2 DEF TypeOK, FilesOK
<1>5. lastListed' = [n \in Name |-> IF Listed(remote', n) THEN now ELSE lastListed[n]]
  BY DEF Publish
<1>6. lastListed' \in [Name -> Nat \union {Never}]
  BY <1>5 DEF TypeOK
<1> QED
  BY <1>3, <1>4, <1>5, <1>6 DEF Publish, TypeOK

LEMMA TickEffect ==
  ASSUME TypeOK, Tick
  PROVE  /\ TypeOK' /\ UNCHANGED <<file, compiled, proc, remote, intact>>
         /\ now' = now + 1
         /\ \A p \in Process : Working(p) => now < proc[p].start + MaxLoad
         /\ \A n \in Name : lastListed'[n] \in {now', lastListed[n]}
         /\ \A n \in Name : Listed(remote, n) => lastListed'[n] = now'
<1>1. now' = now + 1 /\ now \in Nat /\ now' \in Nat
  BY DEF Tick, TypeOK
<1>2. lastListed' = [n \in Name |-> IF Listed(remote, n) THEN now' ELSE lastListed[n]]
  BY DEF Tick
<1>3. lastListed' \in [Name -> Nat \union {Never}]
  BY <1>1, <1>2 DEF TypeOK
<1> QED
  BY <1>1, <1>2, <1>3 DEF Tick, TypeOK

-----------------------------------------------------------------------------
(* The first invariant is inductive                                        *)

\* After a step of p it is enough to look at p and at the files.
LEMMA BaseFrame ==
  ASSUME BaseInv, TypeOK', NEW p \in Process, Others(p), UNCHANGED world,
         \A u \in Url : file'[u].lines \subseteq MayHave(u) /\ file'[u].mtime <= now,
         compiled'.lines \subseteq Name, compiled'.mtime <= now,
         Compiling' => compiled' = NoFile,
         ProcOK(p)'
  PROVE  BaseInv'
<1>1. now' = now /\ remote' = remote
  BY DEF world
<1>2. FilesOK'
  BY <1>1 DEF BaseInv, FilesOK, MayHave
<1>3. \A q \in Process : ProcOK(q)'
  <2>1. SUFFICES ASSUME NEW q \in Process \ {p} PROVE ProcOK(q)'
    OBVIOUS
  <2>2. /\ proc'[q].pc = proc[q].pc /\ proc'[q].step = proc[q].step
        /\ proc'[q].hosts = proc[q].hosts /\ proc'[q].data = proc[q].data
        /\ proc'[q].start = proc[q].start
    BY DEF Others
  <2>3. ProcOK(q)
    BY DEF BaseInv
  <2> QED
    BY <1>1, <2>2, <2>3 DEF ProcOK, Working, UrlOf, MayHave
<1> QED
  BY <1>2, <1>3 DEF BaseInv

\* The same of a step that changes no list file.
LEMMA BaseFrameFiles ==
  ASSUME BaseInv, TypeOK', NEW p \in Process, Others(p), UNCHANGED <<file, world>>,
         \/ UNCHANGED compiled /\ (p = Compiler /\ Compiling' => Compiling)
         \/ compiled' = NoFile
         \/ /\ p = Compiler /\ ~Compiling'
            /\ compiled'.lines \subseteq Name /\ compiled'.mtime <= now,
         ProcOK(p)'
  PROVE  BaseInv'
<1>1. \A u \in Url : file'[u].lines \subseteq MayHave(u) /\ file'[u].mtime <= now
  BY DEF BaseInv, FilesOK
<1>2. compiled'.lines \subseteq Name /\ compiled'.mtime <= now
  BY ProcFacts, FileFacts DEF BaseInv, FilesOK
<1>3. p # Compiler => (Compiling' <=> Compiling)
  BY DEF Others, Compiling, Process
<1>4. Compiling' => compiled' = NoFile
  BY <1>3 DEF BaseInv, FilesOK
<1> QED
  BY <1>1, <1>2, <1>4, BaseFrame

LEMMA BaseInvStep ==
  ASSUME BaseInv, NEW p \in Process, Start(p) \/ Step(p) \/ Kill(p)
  PROVE  BaseInv'
<1> DEFINE s == proc[p]
           t == proc'[p]
<1> USE DEF Process, Server, Compiler, Compiling
<1>1. TypeOK /\ FilesOK /\ ProcOK(p) /\ now \in Nat /\ MaxLoad \in Nat /\ s.start \in Nat
  BY ProcFacts, Constants DEF BaseInv
<1>2. ASSUME t.pc = "down", TypeOK', UNCHANGED world PROVE ProcOK(p)'
  BY <1>2 DEF ProcOK, AtList, Working
<1>3. UNCHANGED world => now' = now
  BY DEF world
\* A process that goes on working has not been at it for too long.
<1>4. ASSUME Working(p), t.start = s.start, UNCHANGED world
      PROVE  t.start <= now' /\ now' <= t.start + MaxLoad
  BY <1>1, <1>3, <1>4 DEF ProcOK
<1>5. CASE Start(p)
  <2>1. ProcOK(p)'
    BY <1>1, <1>3, <1>5, StartEffect DEF ProcOK, AtList, Working
  <2> QED
    BY <1>1, <1>5, <2>1, StartEffect, BaseFrameFiles
<1>6. CASE Kill(p)
  <2>1. ProcOK(p)'
    BY <1>1, <1>2, <1>6, KillEffect
  <2> QED
    BY <1>1, <1>6, <2>1, KillEffect, BaseFrameFiles DEF AtList
<1>7. CASE StatCompiled(p)
  <2>1. /\ TypeOK' /\ Others(p) /\ UNCHANGED <<file, compiled, world>>
        /\ s.pc = "stat" /\ t.hosts = s.hosts /\ t.start = s.start
        /\ \/ Usable /\ t.pc = "compiled"
           \/ t.step = 1 /\ t.pc = IF 1 <= Len(ListSteps) THEN "list" ELSE "config"
    BY <1>1, <1>7, StatCompiledEffect
  <2>2. t.start <= now' /\ now' <= t.start + MaxLoad
    BY <1>4, <2>1 DEF Working
  <2>3. p = Compiler => ~Usable
    BY <1>1, <2>1 DEF FilesOK, Usable
  <2>4. Len(ListSteps) \in Nat /\ s.hosts = {}
    BY <1>1, <2>1, ListsAssumption DEF ProcOK
  <2>5. ProcOK(p)'
    BY <2>1, <2>2, <2>3, <2>4 DEF ProcOK, AtList
  <2> QED
    BY <2>1, <2>5, BaseFrameFiles
<1>8. CASE ReadCompiled(p)
  <2>1. /\ TypeOK' /\ Others(p) /\ UNCHANGED <<file, compiled, world>>
        /\ s.pc = "compiled"
        /\ t.pc = "down" \/ (t.pc = "config" /\ t.start = s.start)
    BY <1>1, <1>8, ReadCompiledEffect
  <2>2. p # Compiler
    BY <1>1, <2>1 DEF ProcOK
  <2>3. ProcOK(p)'
    BY <1>2, <1>4, <2>1, <2>2 DEF ProcOK, AtList, Working
  <2> QED
    BY <2>1, <2>2, <2>3, BaseFrameFiles
<1>9. CASE StatList(p)
  <2>1. /\ TypeOK' /\ Others(p) /\ UNCHANGED <<file, compiled, world>>
        /\ s.pc = "list" /\ GoesOn(p) /\ t.pc \in {"get", "remove", "open"}
    BY <1>1, <1>9, StatListEffect
  <2>2. ProcOK(p)'
    BY <1>1, <1>4, <2>1 DEF ProcOK, AtList, Working, GoesOn
  <2> QED
    BY <2>1, <2>2, BaseFrameFiles DEF AtList
<1>10. CASE RemoveList(p)
  <2>1. s.pc = "remove"
    BY <1>10 DEF RemoveList
  <2>2. UrlOf(p) \in Url
    BY <2>1, AtListFacts DEF AtList
  <2>3. /\ TypeOK' /\ Others(p) /\ UNCHANGED <<compiled, world>>
        /\ \/ t.pc = "down" /\ UNCHANGED file
           \/ /\ t.pc = "get" /\ GoesOn(p)
              /\ file' = [file EXCEPT ![UrlOf(p)] = NoFile]
    BY <1>1, <1>10, <2>2, RemoveListEffect
  <2>4. ProcOK(p)'
    BY <1>1, <1>2, <1>4, <2>1, <2>3 DEF ProcOK, AtList, Working, GoesOn
  <2>5. \A u \in Url : file'[u].lines \subseteq MayHave(u) /\ file'[u].mtime <= now
    BY <1>1, <2>2, <2>3, FileFacts DEF FilesOK, TypeOK
  <2>6. Compiling' => compiled' = NoFile
    BY <1>1, <2>1, <2>3 DEF FilesOK, AtList, Others
  <2> QED
    BY <1>1, <2>3, <2>4, <2>5, <2>6, BaseFrame DEF FilesOK
<1>11. CASE Get(p)
  <2>1. /\ TypeOK' /\ Others(p) /\ UNCHANGED <<file, compiled, world>>
        /\ s.pc = "get"
        /\ \/ t.pc = "down"
           \/ t.pc = "create" /\ GoesOn(p) /\ t.data \subseteq remote[UrlOf(p)]
    BY <1>1, <1>11, GetEffect
  <2>2. remote[UrlOf(p)] \subseteq MayHave(UrlOf(p))
    BY <1>1, <2>1, AtListFacts DEF AtList, FilesOK
  <2>3. GoesOn(p) => UrlOf(p)' = UrlOf(p)
    BY DEF GoesOn, UrlOf
  <2>4. t.pc = "create" => t.data \subseteq MayHave(UrlOf(p))'
    BY <2>1, <2>2, <2>3 DEF MayHave
  <2>5. ProcOK(p)'
    BY <1>1, <1>2, <1>4, <2>1, <2>4 DEF ProcOK, AtList, Working, GoesOn
  <2> QED
    BY <2>1, <2>5, BaseFrameFiles DEF AtList
<1>12. CASE Create(p)
  <2>1. /\ TypeOK' /\ Others(p) /\ UNCHANGED <<compiled, world>>
        /\ s.pc = "create" /\ t.pc = "write" /\ GoesOn(p) /\ t.data = s.data
        /\ file' = [file EXCEPT ![UrlOf(p)] = [lines |-> {}, mtime |-> now]]
    BY <1>1, <1>12, CreateEffect
  <2>2. UrlOf(p) \in Url /\ UrlOf(p)' = UrlOf(p)
    BY <2>1, AtListFacts DEF AtList, GoesOn, UrlOf
  <2>3. t.data \subseteq MayHave(UrlOf(p))'
    BY <1>1, <2>1, <2>2 DEF ProcOK, MayHave
  <2>4. ProcOK(p)'
    BY <1>1, <1>4, <2>1, <2>3 DEF ProcOK, AtList, Working, GoesOn
  <2>5. \A u \in Url : file'[u].lines \subseteq MayHave(u) /\ file'[u].mtime <= now
    BY <1>1, <2>1, <2>2, FileFacts DEF FilesOK, TypeOK
  <2>6. Compiling' => compiled' = NoFile
    BY <1>1, <2>1 DEF FilesOK, AtList, Others
  <2> QED
    BY <1>1, <2>1, <2>4, <2>5, <2>6, BaseFrame DEF FilesOK
<1>13. CASE Write(p)
  <2>1. /\ TypeOK' /\ Others(p) /\ UNCHANGED <<compiled, world>>
        /\ s.pc = "write"
        /\ t.pc = "down" \/ (t.pc = "open" /\ GoesOn(p))
        /\ \/ UNCHANGED file
           \/ \E tail \in SUBSET file[UrlOf(p)].lines :
                file' = [file EXCEPT ![UrlOf(p)] =
                           [lines |-> s.data \union tail, mtime |-> now]]
    BY <1>1, <1>13, WriteEffect
  <2>2. UrlOf(p) \in Url /\ s.data \subseteq MayHave(UrlOf(p))
    BY <1>1, <2>1, AtListFacts DEF AtList, ProcOK
  <2>3. ProcOK(p)'
    BY <1>1, <1>2, <1>4, <2>1 DEF ProcOK, AtList, Working, GoesOn
  <2>4. \A u \in Url : file'[u].lines \subseteq MayHave(u) /\ file'[u].mtime <= now
    BY <1>1, <2>1, <2>2, FileFacts DEF FilesOK, TypeOK
  <2>5. Compiling' => compiled' = NoFile
    BY <1>1, <2>1 DEF FilesOK, AtList, Others
  <2> QED
    BY <1>1, <2>1, <2>3, <2>4, <2>5, BaseFrame DEF FilesOK
<1>14. CASE Open(p)
  <2>1. /\ TypeOK' /\ Others(p) /\ UNCHANGED <<file, compiled, world>>
        /\ s.pc = "open"
        /\ \/ t.pc = "down"
           \/ /\ t.step = s.step + 1 /\ t.start = s.start
              /\ t.pc = IF t.step <= Len(ListSteps) THEN "list" ELSE "config"
    BY <1>1, <1>14, OpenEffect
  <2>2. s.step \in 1..Len(ListSteps)
    BY <2>1, AtListFacts DEF AtList
  <2>3. ProcOK(p)'
    BY <1>2, <1>4, <2>1, <2>2 DEF ProcOK, AtList, Working
  <2> QED
    BY <2>1, <2>3, BaseFrameFiles DEF AtList
<1>15. CASE Configure(p)
  <2>1. /\ TypeOK' /\ Others(p) /\ UNCHANGED <<file, compiled, world>>
        /\ s.pc = "config" /\ t.start = s.start
        /\ t.pc = IF p = Server THEN "ready" ELSE "reduce"
    BY <1>1, <1>15, ConfigureEffect
  <2>2. ProcOK(p)'
    BY <1>1, <1>4, <2>1 DEF ProcOK, AtList, Working
  <2> QED
    BY <2>1, <2>2, BaseFrameFiles
<1>16. CASE Reduce(p)
  <2>1. /\ TypeOK' /\ Others(p) /\ UNCHANGED <<file, world>>
        /\ s.pc = "reduce" /\ t.pc = "dump" /\ t.start = s.start
        /\ t.data \subseteq s.hosts
        /\ compiled' = [lines |-> {}, mtime |-> now]
    BY <1>1, <1>16, ReduceEffect
  <2>2. p = Compiler /\ s.hosts \subseteq Name
    BY <1>1, <2>1, ProcFacts DEF ProcOK
  <2>3. ProcOK(p)'
    BY <1>4, <2>1, <2>2 DEF ProcOK, AtList, Working
  <2> QED
    BY <1>1, <2>1, <2>2, <2>3, BaseFrameFiles DEF AtList
<1>17. CASE Dump(p)
  <2>1. /\ TypeOK' /\ Others(p) /\ UNCHANGED <<file, world>>
        /\ s.pc = "dump"
        /\ \/ t.pc = "down" /\ UNCHANGED compiled
           \/ /\ t.pc = "dump" /\ t.start = s.start
              /\ \E n \in s.data :
                   /\ t.data = s.data \ {n}
                   /\ compiled' = [lines |-> compiled.lines \union {n}, mtime |-> now]
    BY <1>1, <1>17, DumpEffect
  <2>2. p = Compiler /\ s.data \subseteq Name
    BY <1>1, <2>1 DEF ProcOK
  <2>3. ProcOK(p)'
    BY <1>2, <1>4, <2>1, <2>2 DEF ProcOK, AtList, Working
  <2>4. \/ UNCHANGED compiled
        \/ compiled'.lines \subseteq Name /\ compiled'.mtime <= now
    BY <1>1, <2>1, <2>2 DEF FilesOK
  <2> QED
    BY <2>1, <2>2, <2>3, <2>4, BaseFrameFiles DEF AtList
<1> QED
  BY <1>5, <1>6, <1>7, <1>8, <1>9, <1>10, <1>11, <1>12, <1>13, <1>14, <1>15,
     <1>16, <1>17 DEF Step, Local

LEMMA BaseInvInductive ==
  ASSUME BaseInv, [Next]_vars
  PROVE  BaseInv'
<1>1. TypeOK /\ FilesOK /\ now \in Nat /\ MaxLoad \in Nat
  BY ProcFacts, Constants DEF BaseInv
<1>2. CASE UNCHANGED vars
  BY <1>2 DEF vars, BaseInv, TypeOK, FilesOK, ProcOK, Compiling, Working, UrlOf, MayHave
<1>3. ASSUME NEW p \in Process, Start(p) \/ Step(p) \/ Kill(p) PROVE BaseInv'
  BY <1>3, BaseInvStep
<1>4. CASE Stop
  <2>1. ProcOK(Server)'
    BY <1>1, <1>4, StopEffect DEF ProcOK, AtList, Working
  <2> QED
    BY <1>1, <1>4, <2>1, StopEffect, BaseFrameFiles
       DEF Process, Server, Compiler
<1>5. ASSUME NEW u \in Url, Publish(u) PROVE BaseInv'
  <2>1. /\ TypeOK' /\ UNCHANGED <<file, compiled, proc, now>>
        /\ \A v \in Url : Core[v] \subseteq remote'[v] /\ remote'[v] \subseteq MayHave(v)
    BY <1>1, <1>5, PublishEffect
  <2>2. FilesOK'
    BY <1>1, <2>1 DEF FilesOK, MayHave, Compiling
  <2> QED
    BY <2>1, <2>2 DEF BaseInv, ProcOK, Working, UrlOf, MayHave
<1>6. CASE Tick
  <2>1. /\ TypeOK' /\ UNCHANGED <<file, compiled, proc, remote>> /\ now' = now + 1
        /\ \A p \in Process : Working(p) => now < proc[p].start + MaxLoad
    BY <1>1, <1>6, TickEffect
  <2>2. FilesOK'
    BY <1>1, <2>1, FileFacts DEF FilesOK, MayHave, Compiling, TypeOK
  <2>3. ASSUME NEW p \in Process PROVE ProcOK(p)'
    <3>1. ProcOK(p) /\ proc[p].start \in Nat
      BY ProcFacts DEF BaseInv
    <3>2. Working(p)' => proc'[p].start <= now' /\ now' <= proc'[p].start + MaxLoad
      BY <1>1, <2>1, <3>1 DEF ProcOK, Working
    <3> QED
      BY <2>1, <3>1, <3>2 DEF ProcOK, UrlOf, MayHave
  <2> QED
    BY <2>1, <2>2, <2>3 DEF BaseInv
<1> QED
  BY <1>2, <1>3, <1>4, <1>5, <1>6 DEF Next

LEMMA BaseInvInit == Init => BaseInv
<1> SUFFICES ASSUME Init PROVE BaseInv
  OBVIOUS
<1>1. now = 0 /\ remote = Core /\ file = [u \in Url |-> NoFile] /\ compiled = NoFile
      /\ proc = [p \in Process |-> Down] /\ incidents = 0 /\ intact = TRUE
      /\ lastListed = [n \in Name |-> IF Listed(remote, n) THEN 0 ELSE Never]
  BY DEF Init
<1>2. lastListed \in [Name -> Nat \union {Never}]
  BY <1>1
<1>3. TypeOK
  <2>1. file \in [Url -> File] /\ compiled \in File /\ proc \in [Process -> ProcState]
    BY <1>1, FileFacts, DownFacts
  <2>2. remote \in [Url -> SUBSET Line] /\ incidents \in 0..MaxIncidents
    BY <1>1, ListsAssumption
  <2> QED
    BY <1>1, <1>2, <2>1, <2>2 DEF TypeOK
<1>4. \A p \in Process : proc[p].pc = "down"
  BY <1>1, DownFacts
<1>5. FilesOK
  BY <1>1, <1>4, FileFacts, ListsAssumption
     DEF FilesOK, MayHave, Compiling, AtList, Process, Server, Compiler
<1>6. \A p \in Process : ProcOK(p)
  BY <1>4 DEF ProcOK, AtList, Working
<1> QED
  BY <1>3, <1>5, <1>6 DEF BaseInv

\* The files and the processes are always in the states described above.
THEOREM BaseInvHolds == Spec => []BaseInv
<1>1. Init => BaseInv
  BY BaseInvInit
<1>2. BaseInv /\ [Next]_vars => BaseInv'
  BY BaseInvInductive
<1> QED
  BY <1>1, <1>2, PTL DEF Spec

-----------------------------------------------------------------------------
(* The second invariant is inductive                                       *)

\* What was known at a time was known at any earlier one.
LEMMA KnownEarlier ==
  ASSUME TypeOK, NEW t \in Int, NEW e \in Int, e <= t, NEW n \in Name
  PROVE  /\ Known(n, t) => Known(n, e)
         /\ Sourced(n, t) => Sourced(n, e)
<1>1. lastListed[n] \in Int
  BY DEF TypeOK, Never
<1> QED
  BY <1>1 DEF Known, Sourced

LEMMA HostUrlLines ==
  ASSUME NEW u \in Url, HostUrl(u), NEW line \in MayHave(u)
  PROVE  line \in Name /\ StripWWW(line) \in Name
<1>1. PICK i \in 1..Len(ListSteps) :
        ListSteps[i].op = "Hosts.Add" /\ ListSteps[i].url = u
  BY DEF HostUrl
<1>2. line \in Name
  BY <1>1, HostLines
<1> QED
  BY <1>2, StripWWWIsSuffix

LEMMA LinesKnownEarlier ==
  ASSUME TypeOK, NEW t \in Int, NEW e \in Int, e <= t,
         NEW u \in Url, NEW lines \in SUBSET MayHave(u), LinesKnown(u, lines, t)
  PROVE  LinesKnown(u, lines, e)
BY KnownEarlier, HostUrlLines DEF LinesKnown

\* The lines a file may get in a step: those that are new in it have been on
\* the list since a process that still works started.
NewFileOK(u) ==
  \/ file'[u] = file[u]
  \/ file'[u] = NoFile
  \/ /\ file'[u].mtime = now
     /\ LinesKnown(u, file'[u].lines, now - 2 * MaxLoad)
     /\ LinesKnown(u, file'[u].lines \ file[u].lines, now - MaxLoad)

\* After a step of p it is enough to look at p and at the files.
LEMMA AgeFrame ==
  ASSUME BaseInv, BaseInv', AgeInv, NEW p \in Process, Others(p), UNCHANGED world,
         \A u \in Url : NewFileOK(u),
         \/ UNCHANGED compiled
         \/ p = Compiler /\ compiled' = NoFile
         \/ /\ p = Compiler /\ compiled'.mtime = now
            /\ \A n \in compiled'.lines : Sourced(n, now - ListAge - MaxLoad),
         (FetchedOK(p) /\ HostsOK(p) /\ CompiledOK(p))'
  PROVE  AgeInv'
<1>1. now' = now /\ remote' = remote /\ lastListed' = lastListed
  BY DEF world
<1>2. \A n, t : /\ Known(n, t)' <=> Known(n, t)
                /\ Sourced(n, t)' <=> Sourced(n, t)
  BY <1>1 DEF Known, Sourced
<1>3. \A u, lines, t : LinesKnown(u, lines, t)' <=> LinesKnown(u, lines, t)
  BY <1>2 DEF LinesKnown
<1>4. /\ TypeOK /\ FilesOK /\ FilesOK' /\ now \in Nat /\ MaxLoad \in Nat
      /\ CacheHosts \in Nat /\ ListAge \in Nat
  BY ProcFacts, Constants DEF BaseInv
<1>5. HistoryOK'
  BY <1>1 DEF AgeInv, HistoryOK, Listed
<1>6. \A u \in Url : LinesKnown(u, file'[u].lines, file'[u].mtime - 2 * MaxLoad)
  <2> SUFFICES ASSUME NEW u \in Url
               PROVE  LinesKnown(u, file'[u].lines, file'[u].mtime - 2 * MaxLoad)
    OBVIOUS
  <2>1. CASE file'[u] = NoFile
    BY <2>1, FileFacts DEF LinesKnown
  <2> QED
    BY <2>1 DEF NewFileOK, AgeInv
<1>7. \A n \in compiled'.lines : Sourced(n, compiled'.mtime - ListAge - MaxLoad)
  <2>1. CASE compiled' = NoFile
    BY <2>1, FileFacts
  <2> QED
    BY <2>1 DEF AgeInv
<1>8. ASSUME NEW q \in Process \ {p} PROVE (FetchedOK(q) /\ HostsOK(q) /\ CompiledOK(q))'
  <2> DEFINE s == proc[q]
             u == UrlOf(q)
  <2>1. /\ proc'[q].pc = s.pc /\ proc'[q].step = s.step
        /\ proc'[q].hosts = s.hosts /\ proc'[q].data = s.data
        /\ proc'[q].start = s.start
        /\ proc'[q].attached => s.attached
    BY DEF Others
  <2>2. UrlOf(q)' = u
    BY <2>1 DEF UrlOf
  <2>3. FetchedOK(q) /\ HostsOK(q) /\ CompiledOK(q) /\ s.start \in Nat
    BY <1>4, ProcFacts DEF AgeInv
  <2>4. Working(q) => s.start <= now /\ now <= s.start + MaxLoad
    BY DEF BaseInv, ProcOK
  <2>5. HostsOK(q)'
    BY <1>1, <2>1, <2>3 DEF HostsOK, Sourced, Known
  <2>6. CompiledOK(q)'
    <3>1. CASE s.pc = "compiled"
      <4>1. CacheHosts > 0 /\ (compiled = NoFile \/ s.start < compiled.mtime + CacheHosts)
        BY <2>3, <3>1 DEF CompiledOK
      <4>2. s.start < now + CacheHosts
        BY <1>4, <2>3, <2>4, <3>1, <4>1 DEF Working
      <4>3. compiled' = NoFile \/ s.start < compiled'.mtime + CacheHosts
        BY <4>1, <4>2
      <4> QED
        BY <2>1, <3>1, <4>1, <4>3 DEF CompiledOK
    <3>2. CASE s.pc = "dump"
      <4>1. UNCHANGED compiled
        BY <3>2 DEF BaseInv, ProcOK, Process
      <4> QED
        BY <1>1, <2>1, <2>3, <3>2, <4>1 DEF CompiledOK, Sourced, Known
    <3> QED
      BY <2>1, <3>1, <3>2 DEF CompiledOK
  <2>7. FetchedOK(q)'
    <3>1. CASE s.pc \notin {"create", "write", "open"}
      BY <2>1, <3>1 DEF FetchedOK
    <3>2. CASE s.pc \in {"create", "write", "open"}
      <4>1. u \in Url /\ NewFileOK(u) /\ Working(q)
            /\ file[u].mtime \in Int /\ file'[u].mtime \in Int
        BY <3>2, AtListFacts, FileFacts DEF AtList, Working, BaseInv, TypeOK
      <4>2. s.pc \in {"create", "write"} => LinesKnown(u, s.data, s.start)
        BY <2>3 DEF FetchedOK
      <4>3. s.pc = "write" => file'[u] = NoFile \/ s.start <= file'[u].mtime
        BY <1>4, <2>3, <2>4, <4>1 DEF FetchedOK, NewFileOK
      <4>4. s.pc = "open" => file'[u] = NoFile \/ s.start <= file'[u].mtime + CacheHosts
        BY <1>4, <2>3, <2>4, <4>1 DEF FetchedOK, NewFileOK
      <4>5. ASSUME s.pc = "write", s.attached
            PROVE  LinesKnown(u, file'[u].lines, s.start - MaxLoad)
        <5>1. LinesKnown(u, file[u].lines, s.start - MaxLoad)
          BY <2>3, <4>5 DEF FetchedOK
        <5>2. CASE file'[u] = file[u] \/ file'[u] = NoFile
          BY <5>1, <5>2, FileFacts DEF LinesKnown
        <5>3. CASE LinesKnown(u, file'[u].lines \ file[u].lines, now - MaxLoad)
          <6>1. file'[u].lines \ file[u].lines \subseteq MayHave(u)
            BY <1>4, <4>1 DEF FilesOK, MayHave
          <6>2. s.start - MaxLoad <= now - MaxLoad
                /\ s.start - MaxLoad \in Int /\ now - MaxLoad \in Int
            BY <1>4, <2>3, <2>4, <4>1
          <6>3. LinesKnown(u, file'[u].lines \ file[u].lines, s.start - MaxLoad)
            BY <1>4, <4>1, <5>3, <6>1, <6>2, LinesKnownEarlier
          <6> QED
            BY <5>1, <6>3 DEF LinesKnown
        <5> QED
          BY <4>1, <5>2, <5>3 DEF NewFileOK
      <4> QED
        BY <1>1, <2>1, <2>2, <4>2, <4>3, <4>4, <4>5
           DEF FetchedOK, LinesKnown, Known
    <3> QED
      BY <3>1, <3>2
  <2> QED
    BY <2>5, <2>6, <2>7
<1> QED
  BY <1>2, <1>3, <1>5, <1>6, <1>7, <1>8 DEF AgeInv

\* What is fetched is on the list at that time.
LEMMA FetchedNow ==
  ASSUME TypeOK, FilesOK, HistoryOK, NEW u \in Url
  PROVE  LinesKnown(u, remote[u], now)
<1> SUFFICES ASSUME HostUrl(u), NEW line \in remote[u] PROVE Known(StripWWW(line), now)
  BY DEF LinesKnown
<1>1. StripWWW(line) \in Name
  BY HostUrlLines DEF FilesOK
<1>2. Listed(remote, StripWWW(line))
  BY DEF Listed, HostUrl
<1> QED
  BY <1>1, <1>2 DEF HistoryOK, Known, Never, TypeOK

LEMMA AgeInvStep ==
  ASSUME BaseInv, BaseInv', AgeInv, NEW p \in Process, Start(p) \/ Step(p) \/ Kill(p)
  PROVE  AgeInv'
<1> DEFINE s == proc[p]
           t == proc'[p]
           u == UrlOf(p)
           OK == (FetchedOK(p) /\ HostsOK(p) /\ CompiledOK(p))'
<1> USE DEF Process, Server, Compiler
<1>1. /\ TypeOK /\ FilesOK /\ HistoryOK /\ ProcOK(p)
      /\ FetchedOK(p) /\ HostsOK(p) /\ CompiledOK(p)
      /\ now \in Nat /\ s.start \in Nat /\ MaxLoad \in Nat /\ CacheHosts \in Nat
      /\ ListAge \in Nat /\ AgeBound \in Int
  BY ProcFacts, Constants DEF BaseInv, AgeInv
<1>2. Working(p) => s.start <= now /\ now <= s.start + MaxLoad
  BY <1>1 DEF ProcOK
<1>3. ASSUME t.pc \in {"down", "stat", "ready"} PROVE OK
  BY <1>3 DEF FetchedOK, HostsOK, CompiledOK, AtList
<1>4. UNCHANGED world => now' = now /\ remote' = remote /\ lastListed' = lastListed
  BY DEF world
<1>5. UNCHANGED file => \A v \in Url : NewFileOK(v)
  BY DEF NewFileOK
\* Between the calls for one list the hosts stay.
<1>6. ASSUME s.pc \in AtList, t.pc \in AtList, GoesOn(p), UNCHANGED world
      PROVE  u \in Url /\ UrlOf(p)' = u /\ (HostsOK(p) /\ CompiledOK(p))'
  <2>1. u \in Url /\ UrlOf(p)' = u
    BY <1>6, AtListFacts DEF UrlOf, GoesOn
  <2>2. (HostsOK(p) /\ CompiledOK(p))'
    BY <1>1, <1>4, <1>6 DEF HostsOK, CompiledOK, GoesOn, AtList, Known
  <2> QED
    BY <2>1, <2>2
<1>7. CASE Start(p)
  BY <1>1, <1>3, <1>5, <1>7, StartEffect, AgeFrame
<1>8. CASE Kill(p)
  BY <1>1, <1>3, <1>5, <1>8, KillEffect, AgeFrame
<1>9. CASE StatCompiled(p)
  <2>1. /\ Others(p) /\ UNCHANGED <<file, compiled, world>>
        /\ s.pc = "stat" /\ t.hosts = s.hosts /\ t.start = s.start
        /\ \/ Usable /\ t.pc = "compiled"
           \/ t.pc \in {"list", "config"}
    BY <1>1, <1>9, StatCompiledEffect
  <2>2. s.hosts = {} /\ s.start <= now
    BY <1>1, <1>2, <2>1 DEF ProcOK, Working
  <2>3. ASSUME t.pc \in {"list", "config"} PROVE OK
    BY <2>1, <2>2, <2>3 DEF FetchedOK, HostsOK, CompiledOK
  <2>4. ASSUME Usable, t.pc = "compiled" PROVE OK
    <3>1. CacheHosts > 0 /\ s.start < compiled.mtime + CacheHosts
      BY <1>1, <2>2, <2>4, FileFacts DEF Usable, FilesOK, TypeOK
    <3> QED
      BY <2>1, <2>4, <3>1 DEF FetchedOK, HostsOK, CompiledOK, AtList
  <2> QED
    BY <1>5, <2>1, <2>3, <2>4, AgeFrame
<1>10. CASE ReadCompiled(p)
  <2>1. /\ Others(p) /\ UNCHANGED <<file, compiled, world>> /\ s.pc = "compiled"
        /\ \/ t.pc = "down"
           \/ /\ compiled # NoFile /\ t.pc = "config" /\ t.start = s.start
              /\ t.hosts = AddLines(s.hosts, compiled.lines)
    BY <1>1, <1>10, ReadCompiledEffect
  <2>2. ASSUME t.pc # "down" PROVE OK
    <3>1. p # Compiler /\ s.hosts = {}
      BY <1>1, <2>1 DEF ProcOK
    <3>2. CacheHosts > 0 /\ s.start < compiled.mtime + CacheHosts
      BY <1>1, <2>1, <2>2 DEF CompiledOK
    <3> DEFINE e == compiled.mtime - ListAge - MaxLoad
               b == s.start + MaxLoad - AgeBound
    <3>3. e \in Int /\ b \in Int /\ b <= e
      BY <1>1, <3>2, Constants, FileFacts DEF ListAge, TypeOK
    <3>4. \A m \in compiled.lines : m \in Name /\ Sourced(m, e)
      BY <1>1 DEF AgeInv, FilesOK
    <3> HIDE DEF e, b
    <3>5. \A m \in compiled.lines : m \in Name /\ Sourced(m, b)
      BY <1>1, <3>3, <3>4, KnownEarlier
    <3>6. \A n \in t.hosts : \E m \in Name : n \in {m, StripWWW(m)} /\ Sourced(m, b)
      BY <2>1, <2>2, <3>1, <3>5 DEF AddLines
    <3>7. HostsOK(p)'
      BY <1>4, <2>1, <2>2, <3>1, <3>6 DEF HostsOK, AtList, Sourced, Known, b
    <3> QED
      BY <2>1, <2>2, <3>7 DEF FetchedOK, CompiledOK
  <2>3. OK
    BY <1>3, <2>2
  <2> QED
    BY <1>5, <2>1, <2>3, AgeFrame
<1>11. CASE StatList(p)
  <2>1. /\ Others(p) /\ UNCHANGED <<file, compiled, world>>
        /\ s.pc = "list" /\ GoesOn(p) /\ t.pc \in {"get", "remove", "open"}
        /\ t.pc = "open" => ~(now > file[u].mtime + CacheHosts)
    BY <1>1, <1>11, StatListEffect
  <2>2. u \in Url /\ UrlOf(p)' = u /\ (HostsOK(p) /\ CompiledOK(p))'
    BY <1>6, <2>1 DEF AtList
  <2>3. t.pc = "open" => s.start <= file[u].mtime + CacheHosts
    BY <1>1, <1>2, <2>1, <2>2, FileFacts DEF Working, TypeOK
  <2>4. FetchedOK(p)'
    BY <2>1, <2>2, <2>3 DEF FetchedOK, GoesOn
  <2> QED
    BY <1>5, <2>1, <2>2, <2>4, AgeFrame
<1>12. CASE RemoveList(p)
  <2>1. s.pc = "remove"
    BY <1>12 DEF RemoveList
  <2>2. u \in Url
    BY <2>1, AtListFacts DEF AtList
  <2>3. /\ Others(p) /\ UNCHANGED <<compiled, world>>
        /\ \/ t.pc = "down" /\ UNCHANGED file
           \/ t.pc = "get" /\ GoesOn(p) /\ file' = [file EXCEPT ![u] = NoFile]
    BY <1>1, <1>12, <2>2, RemoveListEffect
  <2>4. \A v \in Url : NewFileOK(v)
    BY <1>1, <2>2, <2>3 DEF NewFileOK, TypeOK
  <2>5. t.pc = "get" => OK
    BY <1>6, <2>1, <2>3 DEF AtList, FetchedOK
  <2> QED
    BY <1>3, <2>3, <2>4, <2>5, AgeFrame
<1>13. CASE Get(p)
  <2>1. /\ Others(p) /\ UNCHANGED <<file, compiled, world>> /\ s.pc = "get"
        /\ \/ t.pc = "down"
           \/ t.pc = "create" /\ GoesOn(p) /\ t.data \subseteq remote[u]
    BY <1>1, <1>13, GetEffect
  <2>2. ASSUME t.pc = "create" PROVE OK
    <3>1. u \in Url /\ UrlOf(p)' = u /\ (HostsOK(p) /\ CompiledOK(p))'
      BY <1>6, <2>1, <2>2 DEF AtList
    <3>2. s.start <= now /\ remote[u] \subseteq MayHave(u)
      BY <1>1, <1>2, <2>1, <3>1 DEF Working, FilesOK
    <3>3. LinesKnown(u, remote[u], s.start)
      BY <1>1, <3>1, <3>2, FetchedNow, LinesKnownEarlier
    <3>4. LinesKnown(u, t.data, s.start)
      BY <2>1, <2>2, <3>3 DEF LinesKnown
    <3>5. FetchedOK(p)'
      BY <1>4, <2>1, <2>2, <3>1, <3>4 DEF FetchedOK, GoesOn, LinesKnown, Known
    <3> QED
      BY <3>1, <3>5
  <2> QED
    BY <1>3, <1>5, <2>1, <2>2, AgeFrame
<1>14. CASE Create(p)
  <2>1. /\ Others(p) /\ UNCHANGED <<compiled, world>>
        /\ s.pc = "create" /\ t.pc = "write" /\ GoesOn(p) /\ t.data = s.data
        /\ file' = [file EXCEPT ![u] = [lines |-> {}, mtime |-> now]]
    BY <1>1, <1>14, CreateEffect
  <2>2. u \in Url /\ UrlOf(p)' = u /\ (HostsOK(p) /\ CompiledOK(p))'
    BY <1>6, <2>1 DEF AtList
  <2>3. file'[u].lines = {} /\ file'[u].mtime = now
        /\ \A v \in Url \ {u} : file'[v] = file[v]
    BY <1>1, <2>1, <2>2 DEF TypeOK
  <2>4. \A v \in Url : NewFileOK(v)
    BY <2>3 DEF NewFileOK, LinesKnown
  <2>5. LinesKnown(u, s.data, s.start) /\ s.start <= now
    BY <1>1, <1>2, <2>1 DEF FetchedOK, Working
  <2>6. FetchedOK(p)'
    BY <1>4, <2>1, <2>2, <2>3, <2>5 DEF FetchedOK, GoesOn, LinesKnown, Known
  <2> QED
    BY <2>1, <2>2, <2>4, <2>6, AgeFrame
<1>15. CASE Write(p)
  <2>1. /\ Others(p) /\ UNCHANGED <<compiled, world>> /\ s.pc = "write"
        /\ \/ t.pc = "down" /\ UNCHANGED file
           \/ /\ t.pc = "open" /\ GoesOn(p)
              /\ \/ UNCHANGED file
                 \/ /\ s.attached
                    /\ \E tail \in SUBSET file[u].lines :
                         file' = [file EXCEPT ![u] =
                                    [lines |-> s.data \union tail, mtime |-> now]]
    BY <1>1, <1>15, WriteEffect
  <2>2. /\ u \in Url /\ file[u].mtime \in Int
        /\ s.start <= now /\ now <= s.start + MaxLoad
        /\ s.data \subseteq MayHave(u) /\ file[u].lines \subseteq MayHave(u)
    BY <1>1, <1>2, <2>1, AtListFacts, FileFacts DEF AtList, Working, FilesOK, ProcOK
  <2>3. ASSUME s.attached, NEW tail \in SUBSET file[u].lines,
               file' = [file EXCEPT ![u] =
                          [lines |-> s.data \union tail, mtime |-> now]]
        PROVE  file'[u].mtime = now /\ \A v \in Url : NewFileOK(v)
    <3>1. /\ file'[u].lines = s.data \union tail /\ file'[u].mtime = now
          /\ \A v \in Url \ {u} : file'[v] = file[v]
      BY <1>1, <2>2, <2>3 DEF TypeOK
    <3>2. LinesKnown(u, s.data, s.start)
          /\ LinesKnown(u, file[u].lines, s.start - MaxLoad)
      BY <1>1, <2>1, <2>3 DEF FetchedOK
    <3>3. /\ s.start - MaxLoad \in Int /\ now - MaxLoad \in Int
          /\ now - 2 * MaxLoad \in Int /\ now - 2 * MaxLoad <= now - MaxLoad
          /\ now - MaxLoad <= s.start /\ now - 2 * MaxLoad <= s.start - MaxLoad
      BY <1>1, <2>2
    <3>4. LinesKnown(u, s.data, now - MaxLoad)
      BY <1>1, <2>2, <3>2, <3>3, LinesKnownEarlier
    <3>5. LinesKnown(u, s.data, now - 2 * MaxLoad)
      BY <1>1, <2>2, <3>3, <3>4, LinesKnownEarlier
    <3>6. LinesKnown(u, file[u].lines, now - 2 * MaxLoad)
      BY <1>1, <2>2, <3>2, <3>3, LinesKnownEarlier
    <3>7. LinesKnown(u, file'[u].lines, now - 2 * MaxLoad)
      BY <3>1, <3>5, <3>6 DEF LinesKnown
    <3>8. LinesKnown(u, file'[u].lines \ file[u].lines, now - MaxLoad)
      BY <3>1, <3>4 DEF LinesKnown
    <3> QED
      BY <3>1, <3>7, <3>8 DEF NewFileOK
  <2>4. \A v \in Url : NewFileOK(v)
    BY <1>5, <2>1, <2>3
  <2>5. ASSUME t.pc = "open" PROVE OK
    <3>1. GoesOn(p)
      BY <2>1, <2>5
    <3>2. UrlOf(p)' = u /\ (HostsOK(p) /\ CompiledOK(p))'
      BY <1>6, <2>1, <2>5, <3>1 DEF AtList
    <3>3. file[u] = NoFile \/ s.start <= file[u].mtime
      BY <1>1, <2>1 DEF FetchedOK
    <3>4. file'[u] = file[u] \/ file'[u].mtime = now
      BY <2>1, <2>3, <2>5
    <3>5. file'[u] = NoFile \/ s.start <= file'[u].mtime + CacheHosts
      BY <1>1, <2>2, <3>3, <3>4
    <3>6. FetchedOK(p)'
      BY <2>5, <3>1, <3>2, <3>5 DEF FetchedOK, GoesOn
    <3> QED
      BY <3>2, <3>6
  <2> QED
    BY <1>3, <2>1, <2>4, <2>5, AgeFrame
<1>16. CASE Open(p)
  <2> DEFINE f == file[u]
             op == ListSteps[s.step].op
  <2>1. /\ Others(p) /\ UNCHANGED <<file, compiled, world>> /\ s.pc = "open"
        /\ \/ t.pc = "down"
           \/ /\ f # NoFile /\ f.lines \subseteq MayHave(u) /\ t.start = s.start
              /\ t.pc \in {"list", "config"}
              /\ op = "Hosts.Add" => t.hosts = AddLines(s.hosts, f.lines)
              /\ op # "Hosts.Add" => t.hosts \subseteq s.hosts
    BY <1>1, <1>16, OpenEffect
  <2>2. /\ s.step \in 1..Len(ListSteps) /\ u \in Url /\ u = ListSteps[s.step].url
        /\ f \in File /\ s.hosts \subseteq Name
    BY <1>1, <2>1, AtListFacts, ProcFacts DEF AtList
  <2>3. ASSUME t.pc # "down" PROVE OK
    <3> DEFINE a == s.start - ListAge
               b == s.start + MaxLoad - AgeBound
               e == f.mtime - 2 * MaxLoad
    <3>1. s.start <= f.mtime + CacheHosts
      BY <1>1, <2>1, <2>3 DEF FetchedOK
    <3>2. /\ a \in Int /\ b \in Int /\ e \in Int /\ a <= e /\ b <= a
      <4>1. f.mtime \in Int
        BY <2>2, FileFacts
      <4>2. a \in Int /\ b \in Int /\ e \in Int
        BY <1>1, <4>1
      <4>3. a <= e
        BY <1>1, <3>1, <4>1 DEF ListAge
      <4>4. b <= a
        BY <1>1, Constants DEF ListAge
      <4> QED
        BY <4>2, <4>3, <4>4
    <3>3. LinesKnown(u, f.lines, e)
      BY <2>2 DEF AgeInv
    <3>4. \A n \in s.hosts : Known(n, a)
      BY <1>1, <2>1 DEF HostsOK, AtList
    <3> HIDE DEF a, b, e
    <3>5. LinesKnown(u, f.lines, a)
      BY <1>1, <2>1, <2>2, <2>3, <3>2, <3>3, LinesKnownEarlier
    <3>6. \A n \in t.hosts : n \in Name /\ Known(n, a)
      <4>1. CASE op = "Hosts.Add"
        <5>1. HostUrl(u)
          BY <2>2, <4>1 DEF HostUrl
        <5>2. \A line \in f.lines : StripWWW(line) \in Name /\ Known(StripWWW(line), a)
          BY <2>1, <2>2, <2>3, <3>5, <5>1, HostUrlLines DEF LinesKnown
        <5> QED
          BY <2>1, <2>2, <2>3, <3>4, <4>1, <5>2 DEF AddLines
      <4>2. CASE op # "Hosts.Add"
        BY <2>1, <2>2, <2>3, <3>4, <4>2
      <4> QED
        BY <4>1, <4>2
    <3>7. \A n \in t.hosts : n \in Name /\ Sourced(n, b)
      BY <1>1, <3>2, <3>6, KnownEarlier DEF Sourced
    <3>8. HostsOK(p)'
      BY <1>4, <2>1, <2>3, <3>6, <3>7 DEF HostsOK, Sourced, Known, a, b
    <3> QED
      BY <2>1, <2>3, <3>8 DEF FetchedOK, CompiledOK
  <2>4. OK
    BY <1>3, <2>3
  <2> QED
    BY <1>5, <2>1, <2>4, AgeFrame
<1>17. CASE Configure(p)
  <2>1. /\ Others(p) /\ UNCHANGED <<file, compiled, world>>
        /\ s.pc = "config" /\ t.start = s.start
        /\ t.pc = IF p = Server THEN "ready" ELSE "reduce"
        /\ t.hosts = HostsRemove(HostsAdd(s.hosts, ConfigHosts), ConfigUnhosts)
    BY <1>1, <1>17, ConfigureEffect
  <2>2. ASSUME p = Compiler PROVE OK
    <3>1. \A n \in s.hosts : Known(n, s.start - ListAge)
      BY <1>1, <2>1, <2>2 DEF HostsOK
    <3>2. HostsAdd(s.hosts, ConfigHosts) \subseteq s.hosts \union Configured
      BY HostsAddBounds DEF Configured
    <3>3. t.hosts \subseteq s.hosts \union Configured
      BY <2>1, <3>2 DEF HostsRemove
    <3>4. \A n \in t.hosts : Sourced(n, s.start - ListAge)
      BY <3>1, <3>3 DEF Sourced
    <3> QED
      BY <1>4, <2>1, <2>2, <3>4
         DEF FetchedOK, HostsOK, CompiledOK, AtList, Sourced, Known
  <2>3. OK
    BY <1>3, <2>1, <2>2
  <2> QED
    BY <1>5, <2>1, <2>3, AgeFrame
<1>18. CASE Reduce(p)
  <2>1. /\ Others(p) /\ UNCHANGED <<file, world>>
        /\ s.pc = "reduce" /\ t.pc = "dump" /\ t.start = s.start
        /\ t.data \subseteq s.hosts
        /\ compiled' = [lines |-> {}, mtime |-> now]
    BY <1>1, <1>18, ReduceEffect
  <2>2. p = Compiler
    BY <1>1, <2>1 DEF ProcOK
  <2>3. compiled'.lines = {} /\ compiled'.mtime = now
    BY <2>1
  <2>4. \A n \in t.data : Sourced(n, s.start - ListAge)
    BY <1>1, <2>1 DEF HostsOK
  <2>5. OK
    BY <1>4, <2>1, <2>3, <2>4
       DEF FetchedOK, HostsOK, CompiledOK, AtList, Sourced, Known
  <2> QED
    BY <1>5, <2>1, <2>2, <2>3, <2>5, AgeFrame
<1>19. CASE Dump(p)
  <2>1. /\ Others(p) /\ UNCHANGED <<file, world>> /\ s.pc = "dump"
        /\ \/ t.pc = "down" /\ UNCHANGED compiled
           \/ /\ t.pc = "dump" /\ t.start = s.start
              /\ \E n \in s.data :
                   /\ t.data = s.data \ {n}
                   /\ compiled' = [lines |-> compiled.lines \union {n}, mtime |-> now]
    BY <1>1, <1>19, DumpEffect
  <2>2. p = Compiler /\ s.data \subseteq Name
    BY <1>1, <2>1 DEF ProcOK
  <2>3. \A n \in s.data \union compiled.lines : n \in Name /\ Sourced(n, s.start - ListAge)
    BY <1>1, <2>1, <2>2 DEF CompiledOK, FilesOK
  <2>4. ASSUME t.pc = "dump"
        PROVE  /\ t.data \union compiled'.lines \subseteq s.data \union compiled.lines
               /\ t.start = s.start /\ compiled'.mtime = now
    BY <2>1, <2>4
  <2>5. ASSUME t.pc = "dump" PROVE OK
    <3>1. (FetchedOK(p) /\ HostsOK(p))'
      BY <2>5 DEF FetchedOK, HostsOK, AtList
    <3>2. \A n \in t.data \union compiled'.lines : Sourced(n, s.start - ListAge)
      BY <2>3, <2>4, <2>5
    <3>3. CompiledOK(p)'
      BY <1>4, <2>1, <2>4, <2>5, <3>2 DEF CompiledOK, Sourced, Known
    <3> QED
      BY <3>1, <3>3
  <2>6. now - ListAge - MaxLoad <= s.start - ListAge
        /\ now - ListAge - MaxLoad \in Int /\ s.start - ListAge \in Int
    BY <1>1, <1>2, <2>1 DEF Working
  <2>7. \A n \in s.data \union compiled.lines : Sourced(n, now - ListAge - MaxLoad)
    BY <1>1, <2>3, <2>6, KnownEarlier
  <2>8. \/ UNCHANGED compiled
        \/ /\ compiled'.mtime = now
           /\ \A n \in compiled'.lines : Sourced(n, now - ListAge - MaxLoad)
    BY <2>1, <2>4, <2>7
  <2> QED
    BY <1>3, <1>5, <2>1, <2>2, <2>5, <2>8, AgeFrame
<1> QED
  BY <1>7, <1>8, <1>9, <1>10, <1>11, <1>12, <1>13, <1>14, <1>15, <1>16, <1>17,
     <1>18, <1>19 DEF Step, Local

LEMMA AgeInvInductive ==
  ASSUME BaseInv, BaseInv', AgeInv, [Next]_vars
  PROVE  AgeInv'
<1>1. /\ TypeOK /\ FilesOK /\ HistoryOK /\ now \in Nat /\ MaxLoad \in Nat
      /\ CacheHosts \in Nat /\ ListAge \in Nat /\ AgeBound \in Int
  BY ProcFacts, Constants DEF BaseInv, AgeInv
\* The world changes: what has been listed stays so, and is the same age or new.
<1>2. ASSUME UNCHANGED <<file, compiled, proc>>, now' \in Nat, now <= now',
             \A n \in Name : lastListed'[n] \in {now', lastListed[n]},
             \A n \in Name : Listed(remote, n)' => lastListed'[n] = now'
      PROVE  AgeInv'
  <2>1. HistoryOK'
    BY <1>1, <1>2 DEF HistoryOK, TypeOK, Never
  <2>2. \A n \in Name : \A t \in Int : Known(n, t) => Known(n, t)'
    BY <1>1, <1>2 DEF HistoryOK, Known, TypeOK, Never
  <2>3. \A n \in Name : \A t \in Int : Sourced(n, t) => Sourced(n, t)'
    BY <2>2 DEF Sourced
  <2>4. \A u \in Url : \A lines \in SUBSET MayHave(u) : \A t \in Int :
          LinesKnown(u, lines, t) => LinesKnown(u, lines, t)'
    BY <2>2, HostUrlLines DEF LinesKnown
  <2>5. \A u \in Url : LinesKnown(u, file[u].lines, file[u].mtime - 2 * MaxLoad)'
    <3> SUFFICES ASSUME NEW u \in Url
                 PROVE  LinesKnown(u, file[u].lines, file[u].mtime - 2 * MaxLoad)'
      OBVIOUS
    <3>1. /\ file[u].lines \subseteq MayHave(u)
          /\ file[u].mtime - 2 * MaxLoad \in Int
      BY <1>1, FileFacts DEF FilesOK, TypeOK
    <3>2. LinesKnown(u, file[u].lines, file[u].mtime - 2 * MaxLoad)
      BY DEF AgeInv
    <3> QED
      BY <1>2, <2>4, <3>1, <3>2
  <2>6. \A n \in compiled.lines : Sourced(n, compiled.mtime - ListAge - MaxLoad)'
    <3>1. compiled.lines \subseteq Name /\ compiled.mtime - ListAge - MaxLoad \in Int
      BY <1>1, FileFacts DEF FilesOK, TypeOK
    <3>2. \A n \in compiled.lines : Sourced(n, compiled.mtime - ListAge - MaxLoad)
      BY DEF AgeInv
    <3> QED
      BY <1>2, <2>3, <3>1, <3>2
  <2>7. ASSUME NEW p \in Process PROVE (FetchedOK(p) /\ HostsOK(p) /\ CompiledOK(p))'
    <3> DEFINE s == proc[p]
    <3>1. /\ FetchedOK(p) /\ HostsOK(p) /\ CompiledOK(p) /\ ProcOK(p)
          /\ s.start \in Nat /\ s.hosts \subseteq Name
          /\ s.start - ListAge \in Int /\ s.start - MaxLoad \in Int
          /\ s.start + MaxLoad - AgeBound \in Int
      BY <1>1, ProcFacts DEF BaseInv, AgeInv
    <3>2. proc' = proc /\ UrlOf(p)' = UrlOf(p)
      BY <1>2 DEF UrlOf
    <3>3. FetchedOK(p)'
      <4>1. CASE s.pc \notin {"create", "write", "open"}
        BY <3>2, <4>1 DEF FetchedOK
      <4>2. CASE s.pc \in {"create", "write", "open"}
        <5>1. UrlOf(p) \in Url /\ file[UrlOf(p)].lines \subseteq MayHave(UrlOf(p))
          BY <1>1, <4>2, AtListFacts DEF AtList, FilesOK
        <5>2. s.pc \in {"create", "write"} => s.data \subseteq MayHave(UrlOf(p))
          BY <3>1 DEF ProcOK
        <5>3. s.pc \in {"create", "write"} => LinesKnown(UrlOf(p), s.data, s.start)'
          BY <1>2, <2>4, <3>1, <3>2, <5>1, <5>2 DEF FetchedOK
        <5>4. s.pc = "write" /\ s.attached =>
                LinesKnown(UrlOf(p), file[UrlOf(p)].lines, s.start - MaxLoad)'
          BY <1>2, <2>4, <3>1, <3>2, <5>1 DEF FetchedOK
        <5> QED
          BY <1>2, <3>1, <3>2, <5>3, <5>4 DEF FetchedOK
      <4> QED
        BY <4>1, <4>2
    <3>4. HostsOK(p)'
      BY <1>2, <2>2, <2>3, <3>1, <3>2 DEF HostsOK
    <3>5. CompiledOK(p)'
      <4>1. s.pc = "dump" =>
              \A n \in s.data \union compiled.lines :
                n \in Name /\ Sourced(n, s.start - ListAge)
        BY <1>1, <3>1 DEF CompiledOK, ProcOK, FilesOK
      <4>2. s.pc = "dump" =>
              \A n \in s.data \union compiled.lines : Sourced(n, s.start - ListAge)'
        BY <1>2, <2>3, <3>1, <3>2, <4>1
      <4> QED
        BY <1>2, <3>1, <3>2, <4>2 DEF CompiledOK
    <3> QED
      BY <3>3, <3>4, <3>5
  <2> QED
    BY <1>2, <2>1, <2>5, <2>6, <2>7 DEF AgeInv
<1>3. CASE UNCHANGED vars
  <2>1. /\ UNCHANGED <<file, compiled, proc>> /\ now' = now /\ remote' = remote
        /\ lastListed' = lastListed
    BY <1>3 DEF vars
  <2>2. \A n \in Name : Listed(remote, n)' => lastListed'[n] = now'
    BY <1>1, <2>1 DEF HistoryOK, Listed
  <2> QED
    BY <1>1, <1>2, <2>1, <2>2
<1>4. ASSUME NEW p \in Process, Start(p) \/ Step(p) \/ Kill(p) PROVE AgeInv'
  BY <1>4, AgeInvStep
<1>5. CASE Stop
  <2>1. /\ proc'[Server].pc = "down" /\ Others(Server)
        /\ UNCHANGED <<file, compiled, world>>
    BY <1>1, <1>5, StopEffect
  <2>2. (FetchedOK(Server) /\ HostsOK(Server) /\ CompiledOK(Server))'
    BY <2>1 DEF FetchedOK, HostsOK, CompiledOK, AtList
  <2>3. \A u \in Url : NewFileOK(u)
    BY <2>1 DEF NewFileOK
  <2> QED
    BY <2>1, <2>2, <2>3, AgeFrame DEF Process
<1>6. ASSUME NEW u \in Url, Publish(u) PROVE AgeInv'
  BY <1>1, <1>2, <1>6, PublishEffect
<1>7. CASE Tick
  <2>1. remote' = remote
    BY <1>1, <1>7, TickEffect
  <2>2. \A n \in Name : Listed(remote, n)' => lastListed'[n] = now'
    BY <1>1, <1>7, <2>1, TickEffect DEF Listed
  <2> QED
    BY <1>1, <1>2, <1>7, <2>2, TickEffect
<1> QED
  BY <1>3, <1>4, <1>5, <1>6, <1>7 DEF Next

LEMMA AgeInvInit == Init => AgeInv
<1> SUFFICES ASSUME Init PROVE AgeInv
  OBVIOUS
<1>1. /\ now = 0 /\ file = [u \in Url |-> NoFile] /\ compiled = NoFile
      /\ \A n \in Name : lastListed[n] = IF Listed(remote, n) THEN 0 ELSE Never
  BY DEF Init
<1>2. \A p \in Process : proc[p].pc = "down"
  BY DownFacts DEF Init
<1>3. HistoryOK
  BY <1>1 DEF HistoryOK, Never
<1>4. \A u \in Url : LinesKnown(u, file[u].lines, file[u].mtime - 2 * MaxLoad)
  BY <1>1, FileFacts DEF LinesKnown
<1>5. \A n \in compiled.lines : Sourced(n, compiled.mtime - ListAge - MaxLoad)
  BY <1>1, FileFacts
<1>6. \A p \in Process : FetchedOK(p) /\ HostsOK(p) /\ CompiledOK(p)
  BY <1>2 DEF FetchedOK, HostsOK, CompiledOK, AtList
<1> QED
  BY <1>3, <1>4, <1>5, <1>6 DEF AgeInv

\* A process that has just finished to load has been at it for MaxLoad at most.
LEMMA AgeInvImplies ==
  ASSUME BaseInv, AgeInv
  PROVE  HostAgeBounded
<1> SUFFICES ASSUME NEW p \in Process, proc[p].pc = "config", NEW n \in proc[p].hosts
             PROVE  \E m \in Name :
                      /\ n \in {m, StripWWW(m)}
                      /\ \/ m \in Configured
                         \/ lastListed[m] # Never /\ now - lastListed[m] <= AgeBound
  BY DEF HostAgeBounded
<1>1. PICK m \in Name :
        n \in {m, StripWWW(m)} /\ Sourced(m, proc[p].start + MaxLoad - AgeBound)
  BY DEF AgeInv, HostsOK
<1>2. /\ now \in Nat /\ now <= proc[p].start + MaxLoad /\ proc[p].start \in Nat
      /\ MaxLoad \in Nat /\ AgeBound \in Int /\ lastListed[m] \in Int
  BY ProcFacts, Constants DEF BaseInv, ProcOK, Working, TypeOK, Never
<1>3. CASE Known(m, proc[p].start + MaxLoad - AgeBound)
  BY <1>1, <1>2, <1>3 DEF Known
<1> QED
  BY <1>1, <1>3 DEF Sourced

\* Whatever is killed, refetched, compiled and restarted, what a process has
\* read from its lists is no older than the two caches and the loading times
\* allow (ReadHostsLists, loadCachedURL, compile).
THEOREM HostAgeBoundedHolds == Spec => []HostAgeBounded
<1>1. Init => BaseInv /\ AgeInv
  BY BaseInvInit, AgeInvInit
<1>2. (BaseInv /\ AgeInv) /\ [Next]_vars => (BaseInv /\ AgeInv)'
  BY BaseInvInductive, AgeInvInductive
<1>3. BaseInv /\ AgeInv => HostAgeBounded
  BY AgeInvImplies
<1> QED
  BY <1>1, <1>2, <1>3, PTL DEF Spec

-----------------------------------------------------------------------------
(* The third invariant is inductive                                        *)

\* When all lists have been read, every lasting name is a host.
LEMMA ReadAll ==
  ASSUME NEW s, NEW i \in Nat, i > Len(ListSteps), HasRead(s, i)
  PROVE  Covers(s.hosts)
<1> SUFFICES ASSUME NEW n \in Lasting
             PROVE  \E x \in Suffixes(n) \intersect s.hosts : x \notin Unhosts
  BY DEF Covers
<1>1. n \in Name /\ n \notin Unhosts /\ n \in Suffixes(n)
  BY SuffixesReflexive DEF Lasting, Spared, Removed
<1>2. PICK j \in 1..Len(ListSteps) :
        /\ ListSteps[j].op = "Hosts.Add"
        /\ \E line \in Core[ListSteps[j].url] : StripWWW(line) = n
  BY DEF Lasting
<1>3. j \in 1..(i - 1)
  BY ListsAssumption
<1>4. n \in s.hosts
  BY <1>2, <1>3 DEF HasRead
<1> QED
  BY <1>1, <1>4

\* A compiled file that covers the lasting names does so when it is read, in
\* spite of what Hosts.Add makes of its lines.
LEMMA CoversRead ==
  ASSUME NEW m, NEW lines \in SUBSET Name, Covers(lines)
  PROVE  Covers(AddLines(m, lines))
<1> SUFFICES ASSUME NEW n \in Lasting
             PROVE  \E y \in Suffixes(n) \intersect AddLines(m, lines) : y \notin Unhosts
  BY DEF Covers
<1>1. PICK x \in Suffixes(n) \intersect lines : x \notin Unhosts
  BY DEF Covers
<1>2. n \in Name /\ Spared(n) /\ x \in Name
  BY DEF Lasting
<1>3. StripWWW(x) \in Suffixes(n)
  BY <1>2, StripWWWIsSuffix, SuffixesTransitive
<1>4. StripWWW(x) \notin Unhosts
  BY <1>1, <1>2 DEF Spared, Removed
<1> QED
  BY <1>3, <1>4 DEF AddLines

\* The unhost lines leave what covers the lasting names.
LEMMA CoversConfigured ==
  ASSUME NEW m, Covers(m)
  PROVE  LET hosts == HostsRemove(HostsAdd(m, ConfigHosts), ConfigUnhosts)
         IN  Covers(hosts) /\ hosts \intersect Unhosts = {}
<1>1. m \subseteq HostsAdd(m, ConfigHosts)
  BY HostsAddBounds
<1> QED
  BY <1>1 DEF Covers, HostsRemove, Unhosts

\* So does the reduction, which blocks the same names.
LEMMA CoversReduced ==
  ASSUME NEW m, NEW newHosts \in SUBSET m, Covers(m), m \intersect Unhosts = {},
         \A n \in Name : InHosts(newHosts, n) <=> InHosts(m, n)
  PROVE  Covers(newHosts)
<1> SUFFICES ASSUME NEW n \in Lasting
             PROVE  \E x \in Suffixes(n) \intersect newHosts : x \notin Unhosts
  BY DEF Covers
<1>1. n \in Name /\ InHosts(m, n)
  BY DEF Covers, Lasting, InHosts
<1>2. PICK x \in Suffixes(n) : x \in newHosts
  BY <1>1 DEF InHosts
<1> QED
  BY <1>2

\* What a list adds is there when it has been read; no list takes a lasting name.
LEMMA HasReadNext ==
  ASSUME NEW s \in ProcState, NEW t \in ProcState, NEW i \in 1..Len(ListSteps),
         HasRead(s, i), NEW lines \in SUBSET MayHave(ListSteps[i].url),
         Core[ListSteps[i].url] \subseteq lines,
         ListSteps[i].op = "Hosts.Add" => t.hosts = AddLines(s.hosts, lines),
         ListSteps[i].op = "Hosts.Remove" => t.hosts = s.hosts \ lines,
         ListSteps[i].op \notin {"Hosts.Add", "Hosts.Remove"} => t.hosts = s.hosts
  PROVE  HasRead(t, i + 1)
<1> SUFFICES ASSUME NEW n \in Lasting, NEW j \in 1..i,
                    ListSteps[j].op = "Hosts.Add",
                    \E line \in Core[ListSteps[j].url] : StripWWW(line) = n
             PROVE  n \in t.hosts
  BY DEF HasRead
<1>1. CASE j = i
  BY <1>1 DEF AddLines
<1>2. CASE j # i
  <2>1. j \in 1..(i - 1)
    BY <1>2
  <2>2. n \in s.hosts
    BY <2>1 DEF HasRead
  <2>3. CASE ListSteps[i].op = "Hosts.Add"
    BY <2>2, <2>3 DEF AddLines
  <2>4. CASE ListSteps[i].op = "Hosts.Remove"
    <3>1. MayHave(ListSteps[i].url) \subseteq Removed
      BY <2>4 DEF Removed, MayHave
    <3>2. n \notin Removed
      BY DEF Lasting, Spared
    <3> QED
      BY <2>2, <2>4, <3>1, <3>2
  <2> QED
    BY <2>2, <2>3, <2>4
<1> QED
  BY <1>1, <1>2

\* While nothing has been interrupted, a process that works is alone.
LEMMA WorksAlone ==
  ASSUME IntactInv, intact, NEW p \in Process, Working(p)
  PROVE  /\ \A q \in Process \ {p} : proc[q].pc \in {"down", "ready"}
         /\ proc[p].pc # "write" =>
              \A u \in Url : file[u] = NoFile \/ Core[u] \subseteq file[u].lines
         /\ proc[p].pc = "write" =>
              \A u \in Url \ {UrlOf(p)} :
                file[u] = NoFile \/ Core[u] \subseteq file[u].lines
BY DEF IntactInv, Working

\* After a step of p it is enough to look at p and at the files.
LEMMA IntactFrame ==
  ASSUME BaseInv, IntactInv, intact, NEW p \in Process, Working(p), Others(p),
         \A u \in Url : \/ file'[u] = NoFile \/ Core[u] \subseteq file'[u].lines
                        \/ proc'[p].pc = "write" /\ UrlOf(p)' = u,
         compiled' # NoFile /\ proc'[Compiler].pc # "dump" => Covers(compiled'.lines),
         IntactOK(p)'
  PROVE  IntactInv'
<1>1. \A q \in Process \ {p} : proc[q].pc \in {"down", "ready"}
  BY WorksAlone
<1>2. \A q \in Process \ {p} : proc'[q].pc = proc[q].pc /\ proc'[q].hosts = proc[q].hosts
  BY DEF Others
<1>3. \A q \in Process \ {p} : ~Working(q)'
  BY <1>1, <1>2 DEF Working
<1>4. ASSUME NEW q \in Process \ {p} PROVE IntactOK(q)'
  BY <1>1, <1>2 DEF IntactInv, IntactOK, AtList, Covers
<1> QED
  BY <1>3, <1>4 DEF IntactInv, Covers

LEMMA IntactInvStep ==
  ASSUME BaseInv, IntactInv, intact, intact', NEW p \in Process, Start(p) \/ Step(p)
  PROVE  IntactInv'
<1> DEFINE s == proc[p]
           t == proc'[p]
           u == UrlOf(p)
           Kept(f, v) == f = NoFile \/ Core[v] \subseteq f.lines
           CompiledKept ==
             compiled' # NoFile /\ proc'[Compiler].pc # "dump" => Covers(compiled'.lines)
<1> USE DEF Process, Server, Compiler
<1>1. /\ TypeOK /\ FilesOK /\ ProcOK(p) /\ IntactOK(p) /\ s \in ProcState
      /\ s.hosts \subseteq Name
  BY ProcFacts DEF BaseInv, IntactInv
<1>2. ASSUME t.pc \in {"down", "stat", "compiled"} PROVE IntactOK(p)'
  BY <1>2 DEF IntactOK, AtList
\* The compiled file stays, and no process writes it.
<1>3. ASSUME UNCHANGED compiled, Others(p), s.pc # "dump", Working(p) PROVE CompiledKept
  <2>1. compiled # NoFile => Covers(compiled.lines)
    <3>1. proc[Compiler].pc # "dump"
      BY <1>3, WorksAlone
    <3> QED
      BY <3>1 DEF IntactInv
  <2> QED
    BY <1>3, <2>1
\* No file is written.
<1>4. ASSUME Working(p), s.pc # "write", UNCHANGED file
      PROVE  \A v \in Url : Kept(file'[v], v)
  BY <1>4, WorksAlone
\* Between the calls for one list the hosts stay.
<1>5. ASSUME s.pc \in AtList, t.pc \in AtList, GoesOn(p)
      PROVE  UrlOf(p)' = u /\ HasRead(t, t.step)
  BY <1>1, <1>5 DEF IntactOK, HasRead, GoesOn, UrlOf
<1>6. CASE Start(p)
  <2>1. /\ Others(p) /\ UNCHANGED file /\ s.pc = "down" /\ t.pc = "stat"
        /\ \/ UNCHANGED compiled
           \/ compiled' = NoFile
        /\ \A q \in Process : ~Working(q)
    BY <1>1, <1>6, StartEffect
  <2>2. \A q \in Process : proc[q].pc \in {"down", "ready"}
    BY <2>1 DEF Working
  <2>3. \A q \in Process \ {p} :
          proc'[q].pc = proc[q].pc /\ proc'[q].hosts = proc[q].hosts
    BY <2>1 DEF Others
  <2>4. \A v \in Url : Kept(file'[v], v)
    BY <2>1, <2>2 DEF IntactInv
  <2>5. compiled' # NoFile => Covers(compiled'.lines)
    BY <2>1, <2>2 DEF IntactInv
  <2>6. ASSUME NEW q \in Process \ {p} PROVE IntactOK(q)' /\ ~Working(q)'
    BY <2>2, <2>3 DEF IntactInv, IntactOK, AtList, Covers, Working
  <2> QED
    BY <1>2, <2>1, <2>4, <2>5, <2>6 DEF IntactInv, Covers
<1>7. CASE StatCompiled(p)
  <2>1. /\ Others(p) /\ UNCHANGED <<file, compiled>> /\ s.pc = "stat"
        /\ \/ t.pc = "compiled"
           \/ t.step = 1 /\ t.pc = IF 1 <= Len(ListSteps) THEN "list" ELSE "config"
    BY <1>1, <1>7, StatCompiledEffect
  <2>2. HasRead(t, 1)
    BY DEF HasRead
  <2>3. ASSUME t.pc = "config" PROVE Covers(t.hosts)
    <3>1. Len(ListSteps) \in Nat
      BY ListsAssumption
    <3>2. 1 > Len(ListSteps)
      BY <2>1, <2>3, <3>1
    <3> QED
      BY <2>2, <3>2, ReadAll
  <2>4. IntactOK(p)'
    BY <1>2, <2>1, <2>2, <2>3 DEF IntactOK, AtList, HasRead, Covers
  <2> QED
    BY <1>3, <1>4, <2>1, <2>4, IntactFrame DEF Working
<1>8. CASE ReadCompiled(p)
  <2>1. /\ Others(p) /\ UNCHANGED <<file, compiled>> /\ s.pc = "compiled"
        /\ \/ t.pc = "down"
           \/ /\ compiled # NoFile /\ t.pc = "config"
              /\ t.hosts = AddLines(s.hosts, compiled.lines)
    BY <1>1, <1>8, ReadCompiledEffect
  <2>2. CompiledKept
    BY <1>3, <2>1 DEF Working
  <2>3. t.pc # "down" => Covers(t.hosts)
    <3>1. p # Compiler /\ compiled.lines \subseteq Name
      BY <1>1, <2>1 DEF ProcOK, FilesOK
    <3>2. proc[Compiler].pc # "dump"
      BY <2>1, <3>1, WorksAlone DEF Working
    <3>3. t.pc # "down" => Covers(compiled.lines)
      BY <2>1, <3>2 DEF IntactInv
    <3> QED
      BY <2>1, <3>1, <3>3, CoversRead
  <2>4. IntactOK(p)'
    BY <1>2, <2>1, <2>3 DEF IntactOK, AtList, Covers
  <2> QED
    BY <1>4, <2>1, <2>2, <2>4, IntactFrame DEF Working
<1>9. CASE StatList(p)
  <2>1. /\ Others(p) /\ UNCHANGED <<file, compiled>> /\ s.pc = "list" /\ GoesOn(p)
        /\ t.pc \in {"get", "remove", "open"}
    BY <1>1, <1>9, StatListEffect
  <2>2. IntactOK(p)'
    BY <1>5, <2>1 DEF IntactOK, AtList, HasRead
  <2> QED
    BY <1>3, <1>4, <2>1, <2>2, IntactFrame DEF Working
<1>10. CASE RemoveList(p)
  <2>1. s.pc = "remove"
    BY <1>10 DEF RemoveList
  <2>2. u \in Url
    BY <2>1, AtListFacts DEF AtList
  <2>3. /\ Others(p) /\ UNCHANGED compiled
        /\ \/ t.pc = "down" /\ UNCHANGED file
           \/ t.pc = "get" /\ GoesOn(p) /\ file' = [file EXCEPT ![u] = NoFile]
    BY <1>1, <1>10, <2>2, RemoveListEffect
  <2>4. \A v \in Url : Kept(file[v], v)
    BY <2>1, WorksAlone DEF Working
  <2>5. \A v \in Url : Kept(file'[v], v)
    BY <1>1, <2>2, <2>3, <2>4 DEF TypeOK
  <2>6. IntactOK(p)'
    BY <1>2, <1>5, <2>1, <2>3 DEF IntactOK, AtList, HasRead
  <2> QED
    BY <1>3, <2>1, <2>3, <2>5, <2>6, IntactFrame DEF Working
<1>11. CASE Get(p)
  <2>1. /\ Others(p) /\ UNCHANGED <<file, compiled>> /\ s.pc = "get"
        /\ \/ t.pc = "down"
           \/ t.pc = "create" /\ GoesOn(p) /\ t.data = remote[u]
    BY <1>1, <1>11, GetEffect
  <2>2. Core[u] \subseteq remote[u]
    BY <1>1, <2>1, AtListFacts DEF AtList, FilesOK
  <2>3. IntactOK(p)'
    BY <1>2, <1>5, <2>1, <2>2 DEF IntactOK, AtList, HasRead
  <2> QED
    BY <1>3, <1>4, <2>1, <2>3, IntactFrame DEF Working
<1>12. CASE Create(p)
  <2>1. /\ Others(p) /\ UNCHANGED compiled
        /\ s.pc = "create" /\ t.pc = "write" /\ GoesOn(p) /\ t.data = s.data
        /\ t.attached = TRUE
        /\ file' = [file EXCEPT ![u] = [lines |-> {}, mtime |-> now]]
    BY <1>1, <1>12, CreateEffect
  <2>2. UrlOf(p)' = u /\ HasRead(t, t.step)
    BY <1>5, <2>1 DEF AtList
  <2>3. \A v \in Url : Kept(file[v], v)
    BY <2>1, WorksAlone DEF Working
  <2>4. \A v \in Url : Kept(file'[v], v) \/ (t.pc = "write" /\ UrlOf(p)' = v)
    BY <1>1, <2>1, <2>2, <2>3 DEF TypeOK
  <2>5. IntactOK(p)'
    BY <1>1, <2>1, <2>2 DEF IntactOK, AtList, HasRead
  <2> QED
    BY <1>3, <2>1, <2>4, <2>5, IntactFrame DEF Working
<1>13. CASE Write(p)
  <2>1. /\ Others(p) /\ UNCHANGED compiled /\ s.pc = "write"
        /\ t.pc = "open" /\ GoesOn(p)
        /\ \/ ~s.attached
           \/ \E tail \in SUBSET file[u].lines :
                file' = [file EXCEPT ![u] = [lines |-> s.data \union tail,
                                             mtime |-> now]]
    BY <1>1, <1>13, WriteEffect
  <2>2. s.attached /\ Core[u] \subseteq s.data /\ u \in Url
    BY <1>1, <2>1, AtListFacts DEF IntactOK, AtList
  <2>3. \A v \in Url \ {u} : Kept(file[v], v)
    BY <2>1, WorksAlone DEF Working
  <2>4. \A v \in Url : Kept(file'[v], v)
    BY <1>1, <2>1, <2>2, <2>3 DEF TypeOK
  <2>5. IntactOK(p)'
    BY <1>5, <2>1 DEF IntactOK, AtList, HasRead
  <2> QED
    BY <1>3, <2>1, <2>4, <2>5, IntactFrame DEF Working
<1>14. CASE Open(p)
  <2> DEFINE f == file[u]
             op == ListSteps[s.step].op
  <2>1. /\ TypeOK' /\ Others(p) /\ UNCHANGED <<file, compiled>> /\ s.pc = "open"
        /\ \/ t.pc = "down"
           \/ /\ f # NoFile /\ f.lines \subseteq MayHave(u) /\ t.step = s.step + 1
              /\ t.pc = IF t.step <= Len(ListSteps) THEN "list" ELSE "config"
              /\ op = "Hosts.Add" => t.hosts = AddLines(s.hosts, f.lines)
              /\ op = "Hosts.Remove" => t.hosts = s.hosts \ f.lines
              /\ op \notin {"Hosts.Add", "Hosts.Remove"} => t.hosts = s.hosts
    BY <1>1, <1>14, OpenEffect
  <2>2. s.step \in 1..Len(ListSteps) /\ u \in Url /\ u = ListSteps[s.step].url
        /\ t \in ProcState
    BY <2>1, AtListFacts DEF AtList, TypeOK
  <2>3. ASSUME t.pc # "down" PROVE HasRead(t, t.step)
    <3>1. Core[u] \subseteq f.lines
      BY <2>1, <2>2, <2>3, WorksAlone DEF Working
    <3>2. HasRead(s, s.step)
      BY <1>1, <2>1 DEF IntactOK, AtList
    <3>3. HasRead(t, s.step + 1)
      BY <1>1, <2>1, <2>2, <2>3, <3>1, <3>2, HasReadNext
    <3> QED
      BY <2>1, <2>3, <3>3
  <2>4. ASSUME t.pc = "config" PROVE Covers(t.hosts)
    <3>1. Len(ListSteps) \in Nat /\ t.step \in Nat
      BY <2>1, <2>2, <2>4
    <3>2. t.step > Len(ListSteps)
      BY <2>1, <2>4, <3>1
    <3> QED
      BY <2>3, <2>4, <3>1, <3>2, ReadAll
  <2>5. IntactOK(p)'
    BY <1>2, <2>1, <2>3, <2>4 DEF IntactOK, AtList, HasRead, Covers
  <2> QED
    BY <1>3, <1>4, <2>1, <2>5, IntactFrame DEF Working
<1>15. CASE Configure(p)
  <2>1. /\ Others(p) /\ UNCHANGED <<file, compiled>> /\ s.pc = "config"
        /\ t.pc = IF p = Server THEN "ready" ELSE "reduce"
        /\ t.hosts = HostsRemove(HostsAdd(s.hosts, ConfigHosts), ConfigUnhosts)
    BY <1>1, <1>15, ConfigureEffect
  <2>2. Covers(t.hosts) /\ t.hosts \intersect Unhosts = {}
    BY <1>1, <2>1, CoversConfigured DEF IntactOK
  <2>3. IntactOK(p)'
    BY <2>1, <2>2 DEF IntactOK, AtList, Covers
  <2> QED
    BY <1>3, <1>4, <2>1, <2>3, IntactFrame DEF Working
<1>16. CASE Reduce(p)
  <2>1. /\ Others(p) /\ UNCHANGED file /\ s.pc = "reduce" /\ t.pc = "dump"
        /\ t.data \subseteq s.hosts
        /\ \A n \in Name : InHosts(t.data, n) <=> InHosts(s.hosts, n)
        /\ compiled' = [lines |-> {}, mtime |-> now]
    BY <1>1, <1>16, ReduceEffect
  <2>2. p = Compiler
    BY <1>1, <2>1 DEF ProcOK
  <2>3. Covers(t.data)
    BY <1>1, <2>1, CoversReduced DEF IntactOK
  <2>4. t.data \union compiled'.lines = t.data
    BY <2>1
  <2>5. IntactOK(p)'
    BY <2>1, <2>3, <2>4 DEF IntactOK, AtList, Covers
  <2> QED
    BY <1>4, <2>1, <2>2, <2>5, IntactFrame DEF Working
<1>17. CASE Dump(p)
  <2>1. /\ Others(p) /\ UNCHANGED file /\ s.pc = "dump"
        /\ \/ t.pc = "down" /\ s.data = {} /\ UNCHANGED compiled
           \/ /\ t.pc = "dump"
              /\ \E n \in s.data :
                   /\ t.data = s.data \ {n}
                   /\ compiled' = [lines |-> compiled.lines \union {n}, mtime |-> now]
    BY <1>1, <1>17, DumpEffect DEF BaseInv
  <2>2. p = Compiler /\ Covers(s.data \union compiled.lines)
    BY <1>1, <2>1 DEF ProcOK, IntactOK
  <2>3. CASE t.pc = "down"
    <3>1. s.data \union compiled.lines = compiled'.lines
      BY <2>1, <2>3
    <3>2. CompiledKept
      BY <2>2, <3>1
    <3> QED
      BY <1>2, <1>4, <2>1, <2>3, <3>2, IntactFrame DEF Working
  <2>4. CASE t.pc = "dump"
    <3>1. s.data \union compiled.lines = t.data \union compiled'.lines
      BY <2>1, <2>4
    <3>2. IntactOK(p)'
      BY <2>2, <2>4, <3>1 DEF IntactOK, AtList, Covers
    <3> QED
      BY <1>4, <2>1, <2>2, <2>4, <3>2, IntactFrame DEF Working
  <2> QED
    BY <2>1, <2>3, <2>4
<1> QED
  BY <1>6, <1>7, <1>8, <1>9, <1>10, <1>11, <1>12, <1>13, <1>14, <1>15, <1>16,
     <1>17 DEF Step, Local

LEMMA IntactInvInductive ==
  ASSUME BaseInv, IntactInv, [Next]_vars
  PROVE  IntactInv'
<1> SUFFICES ASSUME intact' PROVE IntactInv'
  BY DEF IntactInv
<1>1. TypeOK /\ FilesOK
  BY DEF BaseInv
<1>2. ASSUME intact, UNCHANGED <<file, compiled, proc>> PROVE IntactInv'
  BY <1>2 DEF IntactInv, IntactOK, Working, UrlOf, HasRead, Covers
<1>3. CASE UNCHANGED vars
  BY <1>2, <1>3 DEF vars
<1>4. ASSUME NEW p \in Process, Start(p) \/ Step(p) PROVE IntactInv'
  <2>1. intact
    BY <1>4 DEF Start, Step, Local, StatCompiled, ReadCompiled, StatList, RemoveList, Get,
                Create, Write, Open, Configure, Reduce, Dump, NoIncident
  <2> QED
    BY <1>4, <2>1, IntactInvStep
<1>5. ASSUME NEW p \in Process, Kill(p) PROVE IntactInv'
  BY <1>5 DEF Kill
<1>6. CASE Stop
  <2>1. /\ proc[Server].pc = "ready" /\ proc'[Server].pc = "down" /\ Others(Server)
        /\ UNCHANGED <<file, compiled, intact>>
    BY <1>1, <1>6, StopEffect DEF Stop, Ready
  <2>2. proc'[Compiler] = proc[Compiler]
    BY <1>1, <1>6, NewState, DownFacts DEF Stop, Process, Server, Compiler
  <2>3. IntactOK(Server)'
    BY <2>1 DEF IntactOK, AtList
  <2>4. intact /\ Server # Compiler /\ Process = {Server, Compiler}
    BY <2>1 DEF Process, Server, Compiler
  <2>5. IntactOK(Compiler)'
    BY <2>1, <2>2, <2>4 DEF IntactInv, IntactOK, UrlOf, HasRead, Covers
  <2>6. /\ ~Working(Server)' /\ Working(Compiler)' = Working(Compiler)
        /\ UrlOf(Compiler)' = UrlOf(Compiler)
    BY <2>1, <2>2 DEF Working, UrlOf
  <2>7. \A u \in Url : \/ file'[u] = NoFile \/ Core[u] \subseteq file'[u].lines
                       \/ proc'[Compiler].pc = "write" /\ UrlOf(Compiler)' = u
    BY <2>1, <2>2, <2>4, <2>6 DEF IntactInv
  <2>8. compiled' # NoFile /\ proc'[Compiler].pc # "dump" => Covers(compiled'.lines)
    BY <2>1, <2>2, <2>4 DEF IntactInv
  <2> QED
    BY <2>3, <2>4, <2>5, <2>6, <2>7, <2>8 DEF IntactInv, Covers
<1>7. ASSUME NEW u \in Url, Publish(u) PROVE IntactInv'
  BY <1>1, <1>2, <1>7, PublishEffect
<1>8. CASE Tick
  BY <1>1, <1>2, <1>8, TickEffect
<1> QED
  BY <1>3, <1>4, <1>5, <1>6, <1>7, <1>8 DEF Next

LEMMA IntactInvInit == Init => IntactInv
<1> SUFFICES ASSUME Init PROVE IntactInv
  OBVIOUS
<1>1. /\ file = [u \in Url |-> NoFile] /\ compiled = NoFile
      /\ \A p \in Process : proc[p].pc = "down"
  BY DownFacts DEF Init
<1> QED
  BY <1>1 DEF IntactInv, IntactOK, Working, AtList

\* As long as no process has been killed or has started while the other one
\* worked, and every response was a whole list, caching, restarts, compilations
\* and expiries lose no line: a server that is ready blocks what its lists have
\* always had (ReadHosts, loadCachedURL, Compile).
THEOREM IntactListsBlockedHolds == Spec => []IntactListsBlocked
<1>1. Init => BaseInv /\ IntactInv
  BY BaseInvInit, IntactInvInit
<1>2. (BaseInv /\ IntactInv) /\ [Next]_vars => (BaseInv /\ IntactInv)'
  BY BaseInvInductive, IntactInvInductive
<1>3. BaseInv /\ IntactInv => IntactListsBlocked
  BY DEF IntactInv, IntactOK, IntactListsBlocked, ListedNamesBlocked, Ready,
         Covers, InHosts, Process
<1> QED
  BY <1>1, <1>2, <1>3, PTL DEF Spec

=============================================================================
