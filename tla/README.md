# Trackwall: specification, model checking and proofs

trackwall is a DNS server that blocks domains. A client that asks for a blocked
name gets the address of trackwall's own HTTP server, which sends a page with
links that unblock the name for a while. This directory holds TLA+ modules that
model the program's decisions and the files it keeps, configurations with which
TLC checks them, and proofs that TLAPS checks.

    tlc -config MC_decisions.cfg MCTrackwall        (one run; see "Runs")
    tlapm StalenessProofs.tla                       (one proof module)

`PROJECT.json` lists, for machines, what this file says in prose: components,
runs, the mutant that breaks each property, the source lines of each definition,
findings, hazards and theorems.

## 1. Inventory

Everything below is package code of the repository; `src/vendor` is left aside.

| Part | Source | State it keeps | Operations |
|---|---|---|---|
| DNS front end | `srvdns/dns.go` | none but its goroutines | `handleDNS`, `getResponse`, `checkOverride`, `determineResponse`, `forward`, `spoof`, `spoofEmpty` |
| Action cache | `srvdns/cache.go` | `Cache.m`: `"A name"` to action and expiry | `Get`, `Store`, `Delete`, `Purge`, `PurgeExpired` |
| Block lists | `cfg/hosts.go`, `cfg/regexps.go` | `Hosts.m`, `Regexps.l` | `Add`, `Remove`, `Get`, `Match`, `SetScript` |
| Overrides | `cfg/override.go` | `Override.m`: name to expiry | `Get`, `Store`, `Delete`, `Purge` |
| HTTP server | `srvhttp/srvhttp.go` | none | block page, surrogate script, `/$@_allow/...` |
| Certificates | `srvhttp/tls.go`, `cmd/helper.go` | root key, root certificate, `/cache/certs/*.crt` | `MakeRootKey`, `MakeRootCert`, `getCert`, `makeCert` |
| Control socket | `srvctl/srvctl.go` | none | `status`, `cache`, `override`, `host`, `regex` |
| List loading | `cfg/config.go` | `/cache/hosts/*`, `/cache/compiled` | `ReadHosts`, `loadCachedURL`, `readHostsCache` |
| Compile command | `cmd/compile.go`, `cfg/config.go` | `/cache/compiled` | `Compile` |
| Surrogates | `cfg/surrogates.go` | regexp and script pairs | `Add`, `Find` |
| Configuration | `cfg/cfg.go` | `Config` | `Load`, `AddrT.set`, handlers |
| Startup | `cmd/server.go`, `cmd/helper.go` | none | `listen`, `chroot`, `DropPrivs` |
| Messages | `msg/msg.go` | none | `Fatal`, `DurationToSeconds` |
| Command line | `cmd/*.go` | none | one line sent to the control socket each |

**Interactions.** Every DNS request, HTTP request, TLS handshake and control
connection runs in a goroutine of its own. They share the four in-memory lists
and the surrogates; each has its own RWMutex, every method holds it from its first
access to its last, and nothing is held between two calls, but for two places:
`Surrogates.Add` locks the hosts inside its own lock, and the `Dump` methods
write to the connection of a control client while they hold the lock of the list. A request reads the
override list, the action cache, the override list again, the host list label by
label and the regexps, and then writes the cache. The allow link writes the
override list, and then deletes from the cache. The control socket flushes one
list or the other. The main goroutine fills the block lists *after* the servers
have started, since remote lists are fetched by way of the DNS server itself. A
janitor goroutine deletes expired cache entries every five minutes. The server
and the `compile` command are two processes that share the files under `/cache`
without a lock.

**What is hard.** Requests that decide on lists which change under them, and
store a decision after the change (section 3, SrvDNS). Cached actions and expiry
comparisons at the second (`>` in one place, `>=` in effect in the other). Lists
that are incomplete while requests are answered. Files that are created in one
step and filled in another, by processes that can be killed in between. Two
caches of the block lists, one built from the other. Scripts that are copied into
the host list one by one while pages are served from it. Locks that are held while
a client is waited for.

**What makes each part correct.**

- DNS front end, cache, overrides: a decision is never older than a stated bound;
  a live override is honoured and lost only in a named race; a blocked name is not
  forwarded.
- Block lists and their files: what is on the lists is blocked when the server is
  ready, and what has left the lists is not blocked for long.
- Compile command: the compiled list blocks what the lists block.
- Configuration: the unhost lines have the last word, in whatever order the lists and
  lines that name a host come, and a restart blocks what the lists did.
- Surrogates: a page gets a script that fits its host, and once the loading is over
  always the same one.
- Locks: no set of goroutines waits for one another, and a client that does not read
  what it has asked for stalls nobody outside the middle of a dump.
- Certificates: what is sent to a client verifies against the root certificate, and
  nothing but a crash or two handshakes at once damages a file.

## 2. Modules

| Module | Extends or instantiates | What it is |
|---|---|---|
| HostLists | | names and operators on block lists |
| Stores | HostLists | the shared lists and the clock |
| SrvDNS, SrvHTTP, SrvCtl | Stores | one package each |
| Trackwall | SrvDNS, SrvHTTP, SrvCtl | the running server |
| Filter | | what the DNS front end promises |
| TrackwallHistory | Trackwall, Filter (INSTANCE) | history variables, properties |
| Compile, Lists | HostLists | the compile command; the files of the lists |
| Reduction | HostLists | what the compile command promises |
| Config | HostLists | the configuration file and the calls `ReadHosts` makes |
| Surrogates | Config | `ReadHosts` with the scripts, beside the HTTP pages |
| Setup | Compile, Surrogates, Reduction (INSTANCE) | from the configuration over the compiled file to the server |
| Locks | | the locks of the server and who waits for whom |
| Certs | | the key and certificate files |
| NameLemmas, TrackwallProofs, StalenessProofs, HonouredProofs, SetupProofs, ListsProofs, LocksProofs, CertsProofs | | proofs |
| MCTrackwall, MCCompile, MCSetup, MCLists, MCLocks, MCCerts | | constants for TLC |

**HostLists** - names, and the operators on the block lists. A name is a sequence
of labels from the top-level domain inward, so a parent domain is a prefix of the
sequence; `Matches` says which regexp matches which name. `HostsAdd` takes the
whole batch of one call and, as the code does, stops at the first host that is
already there; `RegexpsRemove` removes one occurrence of an expression for each
of its arguments.

**Stores** - the clock in seconds and the four lists, with one operator for each
method. `CachePurgeExpired(max)` looks at `max + 1` entries, whichever the map
iteration comes upon.

**SrvDNS** - a handler is a process whose `pc` names the next access to a shared
list; one action is one access with everything that is computed from it up to the
next one. The two calls of `checkOverride` share their actions, and `site` says
who called. `time.Now()` and the access it goes with are one step: a second that
passes between the two is a second that passes before or after both, since the
handler's other steps are where others interleave. A request that is decided is
answered (`Reply`) or sent on (`Exchange`), which returns with an answer, an error or
a timeout.

**SrvHTTP**, **SrvCtl** - the operations that change a list: the two steps of the
allow link, the two flushes.

**Trackwall** - all of these together with the calls `ReadHosts` makes on the lists
(`LoadSteps`, in order) and the clock.

**TrackwallHistory** - Trackwall with history variables (`lastOpen`, `lastBlocked`:
when forwarding or blocking each name was last right; `trusted`, `closed`: which
handlers have had one and the same live override, or a name that was not free, from the arrival of
their request on; `granted`: when a user last granted the override a name has), and the
properties. No action of Trackwall reads them.

**Filter** - the abstract specification: a request is passed on or blocked in one
step, by knowledge that is at most `Bound` seconds old. There is no cache, no list
and no lock in it. `TrackwallHistory` instantiates it; a handler that holds a
name is a request that is still open, and a handler in `"exchange"` one that has
been passed on.

**Compile** - the reduction of the host list, with the two map iterations in any
order, the writing of the file host by host, and a kill between any two steps.
`TextSuffix` models `strings.HasSuffix` on text, which also holds across a label
(`xads.net` ends in `ads.net`).

**Lists** - `ReadHosts` with its files. The two processes `"server"` and
`"compiler"` go through `Stat`, `Remove`, `Get`, `Create`, `Write`, `Open` for
each list, one system call per action. A file is the set of its lines and its
modification time. Removing a file that the other process is writing detaches
it; creating it again truncates it, and what is written over it may keep an end of
what was there. A download passes through the server's own filter and may bring the
block page, and it may take for ever: `Get` and `Write` wait for the remote side. The compile command is that of `Reduction`.

**Reduction** - the abstract specification of the compile command: it reads hosts,
chooses in one step a part of them that blocks the same names, writes that to the
file host by host, and may be killed anywhere. It has no map and no order of visits.
`Setup` instantiates it. `Lists` takes its steps for the command (both use
`Reductions` of HostLists), so that what `Lists` assumes of the command is what the
detailed one is shown to do.

**Config** - pure operators. `Load` folds the handlers over the lines of the file;
each appends to a field of `ConfigT` (`FieldOf`: the handler of `unregexplist`
appends to the field of `regexplist`, as in the code). `ReadHostsLists` and
`ConfigCalls` are the calls `ReadHosts` makes with these fields, in its order: one
per line of every list, then one each for the host, unhost, regexp, unregexp and
surrogate lines.

**Surrogates** - a process that makes these calls one by one, and pages that are
requested meanwhile. `Surrogates.Add` is taken apart: it takes its lock, appends a
surrogate, gives its script to the hosts that match in any order, goes on to the
next, and unlocks. A page looks into the host list (`Request`) and, if there is no
script for its host, searches the surrogates when their lock is free (`Match`). A
page remembers how far the loading was when it began.

**Setup** - the composition: the compile command makes the calls of `ReadHosts`,
looks at the keys (`Begin`) and reduces them (Compile), unless it is killed or not
run at all; then the server starts, with the calls for the compiled file if there
is one and those for the lists if not, and serves pages while it makes them. The
configurations and the contents of their lists are a constant (`Sources`). The
history variable `known` keeps the expressions the compile command had read, which
are not in its file.

**Locks** - what is left of the server when only its locks are looked at. Every
goroutine is at a critical section of a table: the lock it takes, whether for
reading or writing, whether it waits for its client meanwhile, whether it keeps the
lock (only `Surrogates.Add` does), and the sections that may follow. `RLock` and
`Lock` are those of `sync.RWMutex`: a writer announces itself, later readers
queue behind it, and `Unlock` lets those in before the next writer. A client takes
what it is sent (`Send`) when it likes.

**Certs** - the root key and the root certificate as files that are missing, empty or
whole, and the file of every host line by line. `pem.Encode` writes a header, the
lines of the text and a trailer to the file one by one, and every handshake that
found no file has a descriptor of its own: `Create` truncates, `Write` puts the next
line at the handshake's own place, `Read` takes the next one, and the steps of
different handshakes alternate. A line is a part of a certificate, which is the key it
certifies, the key of its issuer and a serial number, so that a file can hold the lines of
two certificates. `tls.LoadX509KeyPair` (`Load`) refuses a file with a line missing
and one for another key; it does not look at the signature, so a mixture may be
accepted. `raced` (history) is the set of hosts whose file was created twice. `chroot`
is the main goroutine. A crash can come at any point; the files stay as they are.

Definitions whose comment begins with "Mutant" are not part of any
specification: each is a form of the definition after it that a plausible mistake
would produce, and exists to show that the property it is listed with in
`PROJECT.json` can fail.

## 3. Runs

| Run | Module | Checks | Bounds |
|---|---|---|---|
| `decisions` | MCTrackwall | `HTypeOK`, `ForwardedOnlyIfRecentlyOpen`, `SpoofedOnlyIfRecentlyBlocked`, `OverrideHonoured`, `FilterSpec`, `GrantLostOnlyInRace` | 2 handlers, AAAA, cache-dns 1, lag 1, clock 3; grants of 0 and 1 seconds; symmetry of handlers; the subdomain is added and removed, and its parent added (as `www.`), while requests run |
| `overrides` | MCTrackwall | `BlockHonoured`, `OverrideHonoured` | 2 handlers, a name of three labels, grants for it, its parent and its top-level domain; cache-dns 0, lists loaded first, with an unhost and an unregexp; symmetry of handlers; clock 1 |
| `lost_grant` | MCTrackwall | `LiveOverrideKept` *is violated* | clock 4 |
| `unblock_leak` | MCTrackwall | `BlockHonoured` *is violated* | cache-dns 1, clock 4 |
| `compile` | MCSetup | `CompiledBlocksTheSame`, `CompiledBlocksNoMore`, `UnhostsLiteral`, `RestartLosesOnlyListRegexps`, `ScriptSettled`, `NoScriptMissed`, `ReductionSpec` | every list over 6 names of 4 depths; a regexplist; 6 configurations with one or two unhosts (one of them a `www.`), two host lines, a regexp twice and an unregexp, an `unhostlist` or a second surrogate; one page for two hosts |
| `host_lines` | MCSetup | `HostLinesBlocked` *is violated* | as above |
| `compile_redundant` | MCCompile | `NoRedundantEntry` *is violated* | every host list over 6 names |
| `lists` | MCLists | `HostAgeBounded`, `IntactListsBlocked`, `ServerGetsReady` | one list with a line that stays, under its `www.` name, and one that comes and goes; cache-hosts 1, load time 1, 2 incidents, error pages, clock 6 |
| `lists_killed` | MCLists | `ListedNamesBlocked` *is violated* | the server only, no compile command; one incident |
| `locks` | MCLocks | `NoDeadlock`, `ServedUnlessADumpStalls` | `ReadHosts`, one DNS request, one page and one control connection that sends four of the commands; fairness |
| `certs` | MCCerts | `ServedVerifiesUnlessRaced`, `DamagedOnlyByCrashOrRace` | 3 handshakes, 1 host, files of 3 lines, 2 crashes; symmetry of handshakes |
| `certs_start` | MCCerts | `ServerStarts` *is violated* | 1 crash |

**What the passing runs show.**

- *Staleness.* However requests, grants, flushes, the janitor and list changes
  interleave, a name is forwarded only if it was free to be at most
  `StalenessBound` seconds ago, and blocked only if it was on a list at most that
  long ago. The bound is `DnsCache + 2 * MaxLag - 1` (`MaxLag` without a cache): a
  slow request decides, its decision is cached, and another slow request reads it in
  its last second. Both an entry used one second too long and an expiry one second
  too late break it, so it is exact.
- *Overrides.* A request that runs under a live override of exactly its name is
  forwarded, also when another handler puts a spoof back into the cache after the
  grant has deleted it; the order of the two checks in `getResponse` is what does it.
  The same is true of the override of a parent domain, whose grant leaves the cache
  entries of the subdomains where they are, as long as it is the first one that the
  search meets and is not replaced while the request runs: a renewal may come between
  the reading of the old expiry and its comparison with the clock. `decisions` has
  grants on the name itself and a cache. `overrides` has no cache and grants on three
  levels, so that an expired override of a parent hides a live one below it. Parent
  grants together with the cache are beyond TLC; the theorem covers them.
  A live grant that nobody flushes can be lost (`lost_grant`), but only to a request
  for that name that began before that very grant was made (`GrantLostOnlyInRace`, over
  `granted`, which is the time of the click and not computed from a duration): once
  older than a request takes, it stays until it ends.
- *Blocking.* Without the cache, and with the lists complete, no interleaving of the
  two override checks with grants, expiries and flushes forwards a name that was
  blocked all the time.
- *Refinement.* Every step of the server is a step of `Filter` or invisible in it, and
  every step of the compile command, fed by `ReadHosts`, one of `Reduction`: a file
  that is cut off is a part of a list that blocks the same names, and a file that is
  finished the whole of it.
- *Lists.* The two layers of caching do not add up to more than
  `2 * CacheHosts + 4 * MaxLoad - 1`; the formula was also compared with other
  values of the two constants and is exact. Whatever the processes do to each
  other's files, once the incidents stop the server gets ready or waits for ever in
  `http.Get` or `ReadAll`, which the code puts no time limit on.
  If no process is killed or starts while the other works, and every response is a
  whole list, then no interleaving of caching, expiry, compilation and restart loses
  a line. Two things limit this. A host that still begins with `www.` after
  `Add` (`www.www.` on the list) loses that when the compiled file is read, so
  `HostAgeBounded` accepts either form of it. And the compiled list may have kept a
  parent domain in place of a host: if that parent begins with `www.`, what an unhost
  line must spare is the parent without it (`Spared`).
- *From the configuration to the server.* An unhost line takes out the host with its own
  text, whatever lists, host lines and compiled file add before it, and no other line of
  the lists is lost to it. That is less than `config:144` says, "takes a regexp and
  removes all hosts that match it": an unhost that is an expression, or the `www.x` of
  a list line that `Add` has stored as `x`, keeps nothing, and `UnhostsLiteral` says
  that the code does so (one configuration has such a line). A server that starts from
  the compiled file blocks what the compile command had read a host for, or an
  expression of the configuration. Three limits are in the property: it *loses* every
  name that only an expression of a `regexplist` matches, since `ReadHostsLists`
  returns after the compiled file; a key that still begins with `www.` loses that once
  more when the file is read (a list with `www.www.` in a line); and the server may
  block *more*, since `Add`, which stops at the first host it has, may get further
  along the host lines when the compiled file holds fewer hosts.
- *Scripts.* A page requested after the loading gets the script that the surrogate
  lines determine: the last one that fits for a host in the list, the first one for
  any other host, or for one whose last script is empty. Which of the two a
  host gets thus depends on the list, and on whether it was compiled (a redundant
  host is not in the compiled list any more). A page requested while
  the scripts are put in the table may get that of another surrogate that
  fits, but never none.
- *Locks.* There is no deadlock although `Surrogates.Add` holds one lock while it asks
  for another. A control client that stops reading stalls the server only if it
  does so in the middle of a dump; then the writers of that list wait, and behind
  them every reader.
- *Certificates.* What is sent is always for the present root key and names the installed
  root certificate. It is one certificate, which verifies, unless two handshakes have
  made the file of that host at the same time. Then the file may hold lines of both
  for ever, without any crash, and be sent although its signature is not its own: the
  properties allow this (`raced`) because the code does it. What simultaneous
  handshakes cannot do is leave a hole in the file; only a crash does that, and then
  every later handshake for the host fails.

**Why the bounds are enough.** The staleness hazards need a writer and a reader of
one cache entry, hence two handlers on one name, and a clock that gets past the
bound (2) by one. A parent and a subdomain give the label loops a round that misses
and one that hits; three labels, in `overrides`, give an entry that hides another. With
one entry in the cache and `PurgeMax` 0 the janitor finds it; what it passes over in a
larger cache is only kept longer, as a lookup checks the expiry itself. Grants of two
lengths let an override be replaced by one that ends sooner or later. `Compile` needs a domain, its subdomain and
the subdomain's subdomain, and two names that share text but no domain. `Setup`
needs two host lines with a list host as the first of one and as the second of the
other, and a subdomain that two surrogates fit. In `Locks` a goroutine of each kind
is enough for every chain of waiting there is (page, `ReadHosts`, dump, client). A
certificate file of three lines has a first, a middle and a last one; a fourth brings no
new case, and the proof is for any number. In
`Lists` the worst case needs a fetch, a cached copy, a compiled file and two
overlapping loads, which fit in a clock of 6 with cache-hosts 1, one second more
than `AgeBound`. The bounds are constants of the modules: `MaxTime` (clock),
`MaxLag` (how long a decision takes at most), `MaxLoad` (how long loading takes
at most), `MaxIncidents` (kills, network failures, compile commands), `MaxCrashes`.

The clock is bounded, so states at `MaxTime` have no `Tick`. `compile_redundant`
looks at the compile command alone, which ends, so deadlock is no error there; every
other run checks for it unless its cfg says otherwise.

**Fairness.**

- In `Trackwall`, none. A handler waits for locks that a control client can hold up (see
  `Locks`), so it is not sure to get on. That a request does get on when its locks
  are granted is the theorem `RequestsAdvanceHolds`; when they are granted is
  `ServedUnlessADumpStalls`.
- In `Lists`, weak fairness of the steps that wait for no other machine (`Local`): the
  operating system runs every process that can run. `Get` and `Write` have none:
  `http.Get` uses the default client, which has no timeout, and `ReadAll` waits
  for the rest of the response.
- `Start(Server)` in `Lists`, `Main` and the handshakes in `Certs`: a supervisor starts the server again, which
  `cmd/server.go` says it relies on and `init/runit` does, and nothing here waits for
  a client.
- In `Locks`, weak fairness of the steps a goroutine can take by itself, and strong
  fairness of `Announce`: a `sync.Mutex` that has kept a goroutine waiting for a
  millisecond is handed to the one that has waited longest, so no writer waits for
  ever for others to come and go.
- No client, user, remote list or incident is fair: the properties must hold
  when a client never reads what it is sent (`Send` has no fairness).

**Findings.** Six runs end in a counterexample to something the repository says.

- `lost_grant`: `checkOverride` deletes the override of the name after comparing
  an expiry that it read earlier; a grant made in between is lost. `GrantLostOnlyInRace`
  says that nothing worse than this happens: no grant older than the request.
- `unblock_leak`: a request that misses an override in the first check and meets
  it in the second caches "forward" for cache-dns, so a name unblocked for ten
  seconds stays open for an hour. The same property fails in the same configuration
  with `AllowName = {}` and `ServeWhileLoading = TRUE`: decisions that were made
  while the lists were incomplete are in the cache when the server says it is ready.
- `compile_redundant`: the inner loop of `Compile` deletes the wrong key, so
  subdomains visited before their parent stay.
- `host_lines`: `ReadHosts` passes the hosts of all host lines to one call of `Add`,
  which returns at the first one that is in the list already; the hosts after it are
  not blocked.
- `lists_killed`: `os.Create` comes before the response is read. A server that ends
  between that and `fp.Write`, because the response breaks off (`msg.Fatal`) or a
  signal comes, leaves an empty list that its next start uses for cache-hosts. There is
  no second process in this run.
- `certs_start`: a crash while the root key is being made keeps the server from
  ever starting.

## 4. Proofs

All are checked by TLAPS to the last leaf, for every value of the constants that the
named assumptions (`NameAssumption`, `SrvDNSAssumption`, ...) allow: any
set of names, any number of handlers, any lists, cache-dns and MaxLag.

- **TrackwallProofs**: type correctness (`TypeCorrect`). `TypeInv` adds to `TypeOK`
  that a handler has a name while it decides, that its loop index stays within
  the labels, and that a response about to be used is one of the three.
  `RequestsAdvanceHolds`: `StepsLeft`, which
  is `3 * l + 10` for a name of `l` labels at most, gets smaller with every step
  of the handler and stays as it is in every other step, so no loop goes on because
  the lists keep changing. That the handler does take its steps is not claimed: each of
  them waits for a lock.
- **StalenessProofs**: `ForwardedOnlyIfRecentlyOpenHolds`,
  `SpoofedOnlyIfRecentlyBlockedHolds`, and `ImplementsFilter`, the refinement. The
  properties speak about `"reply"` only and are not inductive. `IInv` adds what each
  earlier step of a handler relies on: `CacheSupported` (a cached action was right
  `MaxLag` seconds before it was stored, or later), `SupportedOK` (in `"hosts"`,
  either the name has been open since the request arrived or none of the suffixes
  looked up so far is in the list; in `"regexps"`, `"store"`, `"fresh"` and `"reply"`
  likewise) and `TimelyOK` (a decision is at most `MaxLag` old). The disjunct "has been
  open since" is what makes the label loop provable while the lists change: a
  change that falsifies the second disjunct establishes the first, or is
  harmless.
- **HonouredProofs**: `OverrideHonouredHolds`, and `BlockHonouredHolds` under
  `DnsCache = 0`. A trusted handler never leaves the first `checkOverride`: its name is
  live, or its search has not got past the parent domain whose entry it will find
  (`GrantKept`: what leaves a grant as it is leaves that entry as it is). A closed
  handler has seen only expired overrides, and no suffix it has looked up is on the
  host list, which is complete by then and does not change any more.
  `GrantLostOnlyInRaceHolds` rests on `RaceInv`: once a handler has looked for the
  override of its name, that override is absent, or the one whose expiry the handler
  has read, or one granted since the request arrived (`granted`, whatever the
  durations). An override of the
  second kind is deleted only when it has expired, so a live one that is deleted is
  of the third.
- **SetupProofs**, on the compile command alone: `CompiledBlocksTheSameHolds`,
  `CompiledBlocksNoMoreHolds`. The invariant: the hosts kept so far and those still to
  be visited block together what the list blocks; leaving one out is harmless when
  its parent is kept (`RedundantHost`, on `SuffixesTransitive` of NameLemmas). On the
  composition: `UnhostsLiteralHolds`, `RestartLosesOnlyListRegexpsHolds`,
  `ScriptSettledHolds`, `NoScriptMissedHolds`, and `CompiledBlocksTheSameInSetup`,
  `CompiledBlocksNoMoreInSetup`, the first two for the hosts that
  `ReadHosts` has put together. The invariant `SInv` has five parts. `Loading`
  counts the calls that are left from the end, where the last five are those of
  `ConfigCalls`: with at most three left the unhosts are gone. `Compiling` is the
  first invariant as soon as the command has read its hosts. `Restarting`:
  every host of the compiled file is a key or the argument of a call to come.
  `Scripts`: every key has the script of the last surrogate added so far that fits, or,
  if the loop has still to visit it, of the last but one. `Pages`: what a
  page that began at some stage can rely on. A second invariant, `LInv`, follows what
  the lists and the configuration have put in: `ForLines`, the calls before the last
  five are for one line each; `Expressions`, an expression that no list has is there
  exactly as often as the regexp and unregexp lines say, at each of the last calls and
  when the compile command has read them; `Listed`, a line of a list is still to come,
  or is a key, or has been taken out by its text. Names are assumed to be finitely many,
  since a file has finitely many lines, and a call for a list has one argument, since
  `loadList` makes one for every line. `ImplementsReduction` is the refinement, step
  by step: the visits are stutters, and `Create`, which happens when nothing is left
  to visit, is `Reduce`, because by the invariant what has been kept blocks the same
  names as the hosts that were read.
- **ListsProofs**: `HostAgeBoundedHolds` and `IntactListsBlockedHolds`, for any set of
  remote lists, order of the calls, cache-hosts, MaxLoad and number of incidents.
  `BaseInv` (`BaseInvHolds`) has the types and what a process can hold where it is,
  above all that a process that works has worked for at most MaxLoad, and that there is
  no compiled file while the compile command reads. `AgeInv` follows a line: every
  cached file has lines that were listed at most 2 MaxLoad before its modification time
  (one for the download, one for what a second download at the same time has left of
  the first); a file is loaded at most cache-hosts after that (`ListAge`); what is
  compiled was read at most MaxLoad before; and a process that uses the compiled file
  has started less than cache-hosts after its modification and is done within another
  MaxLoad. The sum is `AgeBound`. `IntactInv` follows the lines that are always
  there: as long as `intact` is true the two
  processes never work at the same time, so a cached file holds the whole of its list
  unless its writer is at work, a process has what it has passed (`HasRead`), and the
  compiled file covers `Lasting` (`Covers`) when it is used. Neither property was
  inductive, and the proofs made both more precise: the first versions said
  nothing about `www.www.` or about a parent that an unhost line meets only after the
  compilation, and were false there. One assumption was missing too: `Core` and
  `Optional` have no line in common.
- **LocksProofs**: `LocksInvariant`, `NoDeadlockHolds`, for any number of requests, pages
  and commands. The invariant relates the locks to the places: a reader or a writer
  of a lock is in a section on it, or is `ReadHosts` in the middle of
  `Surrogates.Add`. A reader waits for nobody; a writer that has announced itself waits
  for readers; `Surrogates.Add` is the only one that holds a lock and asks for
  another, and the holders of that one hold nothing else.
- **CertsProofs**: `CertsTypeCorrect`, `ServedVerifiesHolds`,
  `DamagedOnlyByCrashOrRaceHolds`, for any number of connections, hosts, lines and
  crashes. `IInv`: the root key is not made again once a root certificate can exist, so
  every line in a file, and everything a handshake has made or read, is of the present
  key and issuer (`Genuine`). `FilesOK` has for each host `OneMaker` (as long as the
  file was created once it has one writer, whose certificate is all that can be read) and
  `NothingLeftOut` (without a crash, the handshake that created the file last has
  written every line up to its own place, or all of them). The second is what a truncation
  by a later handshake could break and does not: that handshake writes all lines again.

**Only model-checked:** liveness (`ServerGetsReady`, `ServedUnlessADumpStalls`), which
needs fairness and ENABLED and is out of TLAPS's reach. Every invariant that a passing run checks is proved, and so are both
refinements.

## 5. What is not modelled, and why

- The DNS wire format, TLS and X.509: libraries. A request is a name and a type, a
  certificate two keys; certificates do not expire in the model (they last 38 months).
- The vendored parser of the configuration, the values that are no lists (addresses,
  the user, the chroot, durations), and the text of list lines (`readLine`). What the
  parser hands to the handlers is modelled. `DurationToSeconds` multiplies without an
  overflow check; its 64-bit arithmetic is beyond TLC's integers.
- Lists with a `file://` URL are opened in place and pass through none of the
  steps of `Lists` but the last. The name of a cache file is taken to be different
  for every URL, which holds unless two URLs differ only in punctuation. The loop
  over the lines of a list is one step of `Lists`; in `Trackwall` and `Surrogates`
  each call on a block list is one, and requests or pages run in between.
- `chroot` and `DropPrivs` but for the making of the root files. The compile
  command calls `chroot` too; `Certs` has one main goroutine. The root files are read
  and written in one step each: one goroutine writes them, before any handshake.
- The `msg.Fatal` of `spoof`, which ends the server when the DNS library cannot make
  an answer of the configured address.
- The lookup of `net/http` for a list goes through the filter (`Answers`), but
  overrides and cached actions are covered only in that the outcome is left open
  when the site is blocked.
- The words of the control protocol and their split (`readCommand`). The command line
  sends `regexp` where the server knows `regex`, and neither `host` nor `regex` does
  anything but answer with an empty line; no property speaks of these.
- `unhost` is described as taking a regexp (`config:144`) and deletes hosts as they are
  written; the model does what the code does (`UnhostsLiteral`).
- Expired overrides of a *parent* are never deleted, and the first hit of the label
  loop ends it, so an expired override of a parent hides a live one further down.
  The model has this (`GetLabel`); `OverrideHonoured` promises nothing of the hidden
  one, only of the entry that the search finds first (`FoundAt`).

## 6. Plan

Done: HostLists, Stores, SrvDNS, SrvHTTP, SrvCtl, Trackwall, Filter, Compile, Config,
Surrogates, Setup, Reduction, Lists, Locks, Certs; the proofs above.

Next: a second process in Certs (the compile command's `chroot`), with the race of the
first start that the hazards list names.
