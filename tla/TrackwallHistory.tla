--------------------------- MODULE TrackwallHistory ---------------------------
(***************************************************************************)
(* The server of Trackwall with history variables, and the properties of   *)
(* its decisions.  The history variables record what the lists said about  *)
(* a name and since when; no action of the server reads them.              *)
(***************************************************************************)
EXTENDS Trackwall

VARIABLES
  lastOpen,     \* when a name was last free to be forwarded, or Never
  lastBlocked,  \* when a name was last on a block list, or Never
  trusted,      \* handlers whose name has had one override since the request came
  closed,       \* handlers whose name has not been free since the request came
  granted       \* when the user last overrode a name that is overridden, or Never

history == <<lastOpen, lastBlocked, trusted, closed, granted>>
hvars == <<vars, history>>

Never == -1

\* Forwarding the name is right now: the lists are not complete yet, or do not
\* block it, or it or a parent domain is overridden.
Open(n) == Loading \/ ~Blocked(n) \/ \E c \in Suffixes(n) : Live(c)

\* checkOverride finds no entry for n itself, and the entry of the i-th parent
\* domain, counted from the top-level domain, before any other; it is live.
FoundAt(n, i) ==
  /\ override[n] = Absent
  /\ Live(Suffix(n, i))
  /\ \A j \in 1..(i - 1) : override[Suffix(n, j)] = Absent

\* What n is overridden by: an entry of its own, whatever its expiry, or the
\* entry of a parent domain and its expiry.
Grant(n) ==
  IF Live(n)
  THEN {<<0, 0>>}
  ELSE {<<i, override[Suffix(n, i)]>> : i \in {j \in 1..Len(n) : FoundAt(n, j)}}

\* The handler is on its way from the arrival of a request to its decision.
InProgress(h) == handler[h].name # NoName

HistoryTypeOK ==
  /\ lastOpen \in [QueryName -> Nat \union {Never}]
  /\ lastBlocked \in [QueryName -> Nat \union {Never}]
  /\ trusted \subseteq Handler
  /\ closed \subseteq Handler
  /\ granted \in [Name -> Nat \union {Never}]

HistoryInit ==
  /\ lastOpen = [n \in QueryName |-> IF Open(n) THEN now ELSE Never]
  /\ lastBlocked = [n \in QueryName |-> IF Blocked(n) THEN now ELSE Never]
  /\ trusted = {}
  /\ closed = {}
  /\ granted = [n \in Name |-> Never]

\* A click on the "allow" link of the page for n.
Granting(n) == \E b \in Browser, secs \in AllowSecs : AllowStore(b, n, secs)

HistoryStep ==
  /\ lastOpen' = [n \in QueryName |-> IF Open(n)' THEN now' ELSE lastOpen[n]]
  /\ lastBlocked' =
       [n \in QueryName |-> IF Blocked(n)' THEN now' ELSE lastBlocked[n]]
  /\ trusted' = {h \in Handler :
                   /\ InProgress(h)'
                   /\ Grant(handler[h].name)' # {}
                   /\ InProgress(h) =>
                        h \in trusted /\ UNCHANGED Grant(handler[h].name)}
  /\ closed' = {h \in Handler : /\ InProgress(h) => h \in closed
                                /\ InProgress(h)'
                                /\ ~Open(handler[h].name)'}
  /\ granted' = [n \in Name |-> IF override'[n] = Absent THEN Never
                                ELSE IF Granting(n) THEN now ELSE granted[n]]

HInit == Init /\ HistoryInit
HNext == Next /\ HistoryStep
HSpec == HInit /\ [][HNext]_hvars

HTypeOK == TypeOK /\ HistoryTypeOK

-----------------------------------------------------------------------------
(* Properties *)

Decided(h, r) == handler[h].pc = "reply" /\ handler[h].response \in r

\* The longest time an action can be out of date when it is taken: it is
\* decided by a request that runs for MaxLag, is cached for DnsCache, and is
\* taken from the cache in the last second by a request that runs for MaxLag.
StalenessBound ==
  IF DnsCache = 0 THEN MaxLag ELSE DnsCache + 2 * MaxLag - 1

\* A name is forwarded only if, StalenessBound seconds ago or later, the
\* lists left it free or an override was live for it: however requests, grants
\* and flushes interleave, and whatever the cache holds, a ban takes effect
\* within that time (getResponse, srvdns/dns.go).
ForwardedOnlyIfRecentlyOpen ==
  \A h \in Handler : Decided(h, {reponseForward}) =>
    /\ lastOpen[handler[h].name] # Never
    /\ now - lastOpen[handler[h].name] <= StalenessBound

\* A name is spoofed or answered empty only if, StalenessBound seconds ago or
\* later, a block list held it, a parent domain or a regexp for it: a name
\* that no list ever held is never touched, and an "unhost" takes effect in
\* that time.
SpoofedOnlyIfRecentlyBlocked ==
  \A h \in Handler : Decided(h, {reponseSpoof, reponseEmpty}) =>
    /\ lastBlocked[handler[h].name] # Never
    /\ now - lastBlocked[handler[h].name] <= StalenessBound

\* As long as an override for the name asked for stays live, renewed or not,
\* requests that arrive under it are forwarded; and as long as there is none
\* for the name and the first that the search over its parent domains meets is
\* live and not replaced, they are as well.  The cache may hold a spoof for the
\* name all the while: one that another handler stores after the grant has
\* removed it, or one that a grant for a parent domain never removes.
OverrideHonoured ==
  \A h \in trusted : handler[h].pc = "reply" =>
                     handler[h].response = reponseForward

\* A name that was blocked and not overridden during the whole request is not
\* forwarded.
BlockHonoured ==
  \A h \in closed : handler[h].pc = "reply" =>
                    handler[h].response # reponseForward

\* A live override ends when it expires or is flushed, or a user renews it;
\* nothing else removes it.
LiveOverrideKept ==
  [][\A n \in Name : Live(n) /\ override'[n] = Absent => Ctl]_hvars

\* A live override is lost to a request only if the user made or renewed the
\* grant while that request was under way (it read an older expiry, of the name
\* or of a parent domain, before the grant and acts on it after it): a grant that
\* is older than the request stays, unless it is flushed, until it ends
\* (checkOverride, srvdns/dns.go).
GrantLostOnlyInRace ==
  [][\A n \in Name : Live(n) /\ override'[n] = Absent =>
       \/ Ctl
       \/ \E h \in Handler : /\ handler[h].name = n /\ Deciding(h)
                            /\ handler[h].start <= granted[n]]_hvars

(***************************************************************************)
(* The server implements Filter: to its clients the cache, the two rounds  *)
(* of checkOverride and the label-by-label reading of lists that change    *)
(* meanwhile look like one decision on the lists as they were at one time, *)
(* StalenessBound seconds ago or later.  A request that is decided is      *)
(* decided once and answered once.                                         *)
(***************************************************************************)
F == INSTANCE Filter WITH
  Client  <- Handler,
  Asked   <- QueryName,
  Nobody  <- NoName,
  Bound   <- StalenessBound,
  open    <- lastOpen,
  blocked <- lastBlocked,
  asking  <- [h \in Handler |-> handler[h].name],
  passed  <- {h \in Handler : handler[h].pc = "exchange"}

FilterSpec == F!Spec

=============================================================================
