-------------------------------- MODULE Locks --------------------------------
(***************************************************************************)
(* The locks of the server.  Hosts, Regexps, Override, Cache and           *)
(* Surrogates are a sync.RWMutex each, and every goroutine is a sequence   *)
(* of critical sections.  The methods called Dump write to the connection  *)
(* of a control client while they hold the lock of the list, and           *)
(* Surrogates.Add takes the lock of the hosts inside its own.              *)
(***************************************************************************)
EXTENDS FiniteSets

CONSTANTS
  Request,   \* the goroutines that serve DNS requests
  Page,      \* the goroutines that serve HTTP requests
  Command,   \* the goroutines that serve control connections
  Janitor,   \* the goroutine that calls PurgeExpired, as a set
  Main,      \* the goroutine that runs listen()
  Asked,     \* the places at which the control commands that are sent begin
  Nobody     \* no goroutine

Goroutine == Request \union Page \union Command \union Janitor \union {Main}

ASSUME LocksAssumption ==
  /\ Nobody \notin Goroutine
  /\ Main \notin Request \union Page \union Command \union Janitor
  /\ Asked \subseteq {"lenHosts", "countHosts", "flushCache", "flushOverride",
                      "dumpCache", "dumpRegexps", "dumpOverride", "answer"}

Lock == {"Hosts", "Regexps", "Override", "Cache", "Surrogates"}

-----------------------------------------------------------------------------
(* The critical sections.  Each is a place in the code of a goroutine: the *)
(* lock it takes and how, whether it waits for the client while it holds   *)
(* it, whether the lock is kept when it ends, and the places that may come *)
(* next.  Sections on the same lock that follow each other in a loop are   *)
(* one place; what is sent without a lock is sent with the answer.         *)

Idle == "idle"

Locking(l, mode, does, next) == [on |-> l, mode |-> mode, does |-> does, then |-> next]

Reading(l, next) == Locking(l, "read", {}, next)
Writing(l, next) == Locking(l, "write", {}, next)

\* getResponse with checkOverride and determineResponse
RequestSection ==
  [override  |-> Reading("Override", {"expired", "cache", Idle}),
   expired   |-> Writing("Override", {"cache"}),
   cache     |-> Reading("Cache", {"override2", Idle}),
   override2 |-> Reading("Override", {"expired2", "host", "store"}),
   expired2  |-> Writing("Override", {"host"}),
   host      |-> Reading("Hosts", {"regexp", "store"}),
   regexp    |-> Writing("Regexps", {"store"}),
   store     |-> Writing("Cache", {Idle})]

\* Mutant: Find looks at the surrogates before it unlocks the hosts.
PageSectionNested ==
  [findHost   |-> Locking("Hosts", "read", {"keep"}, {"findRegexp", Idle}),
   findRegexp |-> Writing("Surrogates", {Idle}),
   allow      |-> Writing("Override", {"uncache"}),
   uncache    |-> Writing("Cache", {Idle})]

\* Surrogates.Find for a blocked page, and the allow link
PageSection ==
  [findHost   |-> Reading("Hosts", {"findRegexp", Idle}),
   findRegexp |-> Writing("Surrogates", {Idle}),
   allow      |-> Writing("Override", {"uncache"}),
   uncache    |-> Writing("Cache", {Idle})]

\* The dump of a list, with the lock it takes.
DumpSection ==
  [dumpCache    |-> Locking("Cache", "read", {"send"}, {"answer"}),
   dumpHosts    |-> Locking("Hosts", "read", {"send"}, {"answer"}),
   dumpRegexps  |-> Locking("Regexps", "write", {"send"}, {"answer"}),
   dumpOverride |-> Locking("Override", "read", {"send"}, {"answer"})]

\* handleCtl: the summary of the status, the other commands, and the answer
CommandSection ==
  [lenHosts      |-> Writing("Hosts", {"lenRegexps"}),
   lenRegexps    |-> Writing("Regexps", {"lenCache"}),
   lenCache      |-> Writing("Cache", {"answer"}),
   countHosts    |-> Writing("Hosts", {"dumpHosts"}),
   flushCache    |-> Writing("Cache", {"answer"}),
   flushOverride |-> Writing("Override", {"answer"}),
   answer        |-> Locking("Hosts", "none", {"send"}, {Idle})]

\* Mutant: the lock is still held when Add returns.
AddSectionLocked ==
  [surrogates    |-> Locking("Surrogates", "write", {"keep"}, {"setScript", "endSurrogates"}),
   setScript     |-> Writing("Hosts", {"endSurrogates"}),
   endSurrogates |-> Locking("Surrogates", "held", {"keep"}, {Idle})]

\* Surrogates.Add, with SetScript for the hosts that match
AddSection ==
  [surrogates    |-> Locking("Surrogates", "write", {"keep"}, {"setScript", "endSurrogates"}),
   setScript     |-> Writing("Hosts", {"endSurrogates"}),
   endSurrogates |-> Locking("Surrogates", "held", {}, {Idle})]

\* ReadHosts up to Surrogates.Add, and PurgeExpired
MainSection ==
  [addHosts      |-> Writing("Hosts", {"removeHosts"}),
   removeHosts   |-> Writing("Hosts", {"addRegexps"}),
   addRegexps    |-> Writing("Regexps", {"removeRegexps"}),
   removeRegexps |-> Writing("Regexps", {"surrogates"}),
   purge         |-> Writing("Cache", {Idle})]

Section(x) ==
  CASE x \in DOMAIN RequestSection -> RequestSection[x]
    [] x \in DOMAIN PageSection    -> PageSection[x]
    [] x \in DOMAIN DumpSection    -> DumpSection[x]
    [] x \in DOMAIN CommandSection -> CommandSection[x]
    [] x \in DOMAIN AddSection     -> AddSection[x]
    [] OTHER                       -> MainSection[x]

Place == DOMAIN RequestSection \union DOMAIN PageSection \union DOMAIN DumpSection
           \union DOMAIN CommandSection \union DOMAIN AddSection \union DOMAIN MainSection

\* Where a goroutine that is started begins.
Entry(g) ==
  CASE g \in Request -> {"override"}
    [] g \in Page    -> {"findHost", "allow"}
    [] g \in Command -> Asked
    [] g \in Janitor -> {"purge"}
    [] OTHER         -> {}

-----------------------------------------------------------------------------

VARIABLES
  at,        \* the place of each goroutine, or Idle
  step,      \* where in its section it is
  readers,   \* the goroutines that hold each lock for reading
  writer,    \* the goroutine that has it, or will get it next, for writing
  queued     \* the readers that wait for that writer

mutexes == <<readers, writer, queued>>
vars == <<at, step, mutexes>>

Step == {"ask", "in", "sent"}

TypeOK ==
  /\ at \in [Goroutine -> Place \union {Idle}]
  /\ step \in [Goroutine -> Step]
  /\ readers \in [Lock -> SUBSET Goroutine]
  /\ writer \in [Lock -> Goroutine \union {Nobody}]
  /\ queued \in [Lock -> SUBSET Goroutine]

Init ==
  /\ at = [g \in Goroutine |-> IF g = Main THEN "addHosts" ELSE Idle]
  /\ step = [g \in Goroutine |-> "ask"]
  /\ readers = [l \in Lock |-> {}]
  /\ writer = [l \in Lock |-> Nobody]
  /\ queued = [l \in Lock |-> {}]

Busy(g) == at[g] # Idle

Here(g) == Section(at[g])

Asks(g, mode) == Busy(g) /\ step[g] = "ask" /\ Here(g).mode = mode

FirstStep(x) ==
  IF x # Idle /\ Section(x).mode \in {"held", "none"} THEN "in" ELSE "ask"

\* A request, a page, a control connection or the janitor's timer.
Begin(g) ==
  /\ ~Busy(g)
  /\ \E x \in Entry(g) :
       /\ at' = [at EXCEPT ![g] = x]
       /\ step' = [step EXCEPT ![g] = FirstStep(x)]
  /\ UNCHANGED mutexes

-----------------------------------------------------------------------------
(* sync.RWMutex *)

\* RLock: a reader that finds a writer waits for it, even if the writer is
\* still waiting for other readers.
RLock(g) ==
  LET l == Here(g).on
  IN  /\ Asks(g, "read") /\ g \notin queued[l]
      /\ \/ /\ writer[l] = Nobody
            /\ readers' = [readers EXCEPT ![l] = @ \union {g}]
            /\ step' = [step EXCEPT ![g] = "in"]
            /\ UNCHANGED queued
         \/ /\ writer[l] # Nobody
            /\ queued' = [queued EXCEPT ![l] = @ \union {g}]
            /\ UNCHANGED <<readers, step>>
      /\ UNCHANGED <<at, writer>>

\* The first half of Lock: no other writer, and no new reader from now on.
Announce(g) ==
  LET l == Here(g).on
  IN  /\ Asks(g, "write") /\ writer[l] = Nobody
      /\ writer' = [writer EXCEPT ![l] = g]
      /\ UNCHANGED <<at, step, readers, queued>>

\* The second half: the last reader has left.
Locked(g) ==
  LET l == Here(g).on
  IN  /\ Asks(g, "write") /\ writer[l] = g /\ readers[l] = {}
      /\ step' = [step EXCEPT ![g] = "in"]
      /\ UNCHANGED <<at, mutexes>>

\* The client of a control connection takes what has been written to it.
Send(g) ==
  /\ Busy(g) /\ step[g] = "in" /\ "send" \in Here(g).does
  /\ step' = [step EXCEPT ![g] = "sent"]
  /\ UNCHANGED <<at, mutexes>>

\* The end of a section.  Unlock lets in the readers that have waited for
\* the writer, before any other writer.
Leave(g) ==
  LET l == Here(g).on
      unlocks == Here(g).mode \in {"write", "held"} /\ "keep" \notin Here(g).does
      freed == IF unlocks THEN queued[l] ELSE {}
  IN  /\ Busy(g)
      /\ step[g] = "sent" \/ (step[g] = "in" /\ "send" \notin Here(g).does)
      /\ \E y \in Here(g).then :
           /\ at' = [at EXCEPT ![g] = y]
           /\ step' = [h \in Goroutine |-> IF h = g THEN FirstStep(y)
                                           ELSE IF h \in freed THEN "in" ELSE step[h]]
      /\ IF unlocks
         THEN /\ writer' = [writer EXCEPT ![l] = Nobody]
              /\ readers' = [readers EXCEPT ![l] = queued[l]]
              /\ queued' = [queued EXCEPT ![l] = {}]
         ELSE /\ readers' = IF Here(g).mode = "read" /\ "keep" \notin Here(g).does
                            THEN [readers EXCEPT ![l] = @ \ {g}]
                            ELSE readers
              /\ UNCHANGED <<writer, queued>>

Run(g) == RLock(g) \/ Locked(g) \/ Leave(g)

Next == \E g \in Goroutine : Begin(g) \/ Run(g) \/ Announce(g) \/ Send(g)

Spec == Init /\ [][Next]_vars

(***************************************************************************)
(* The scheduler runs every goroutine that can run, and a sync.Mutex lets  *)
(* every writer in at last (after a millisecond the one that has waited    *)
(* longest is next).  Nothing makes a client read what it is sent.         *)
(***************************************************************************)
FairSpec ==
  /\ Spec
  /\ \A g \in Goroutine : WF_vars(Run(g)) /\ SF_vars(Announce(g))

-----------------------------------------------------------------------------
(* Properties *)

\* The goroutines that g waits for.
WaitsFor(g) ==
  LET l == Here(g).on
  IN  CASE Busy(g) /\ g \in queued[l]                      -> {writer[l]}
        [] Asks(g, "write") /\ writer[l] = g               -> readers[l]
        [] Asks(g, "write") /\ writer[l] \notin {g, Nobody} -> {writer[l]}
        [] OTHER                                           -> {}

Blocked(g) == WaitsFor(g) # {}

Ahead(S) == S \union UNION {WaitsFor(g) : g \in S}

\* Whoever waits for a lock waits in the end for a goroutine that waits for
\* none: a page behind ReadHosts, which has the surrogates and asks for the
\* hosts, behind a control command that asks for the hosts too, behind a
\* dump (Surrogates.Add, cfg/surrogates.go; handleStatus, srvctl/srvctl.go).
NoDeadlock ==
  \A g \in Goroutine : Blocked(g) =>
    \E h \in Ahead(Ahead(Ahead({g}))) : ~Blocked(h)

\* The goroutine waits for its client while it holds the lock of a list.
Dumping(g) == at[g] \in DOMAIN DumpSection /\ step[g] = "in"

\* Every request, page and command comes to its end, and ReadHosts does,
\* unless it waits for its own client, or some dump waits for its client for
\* ever: a client that stops reading stalls the others only if it does so in
\* the middle of a list (the Dump methods).
ServedUnlessADumpStalls ==
  \A g \in Goroutine :
    \/ Busy(g) ~> ~Busy(g)
    \/ <>[](Busy(g) /\ "send" \in Here(g).does /\ step[g] = "in")
    \/ \E c \in Command : <>[]Dumping(c)

=============================================================================
