------------------------------- MODULE Stores -------------------------------
(***************************************************************************)
(* The state the goroutines of the server share: the clock, the block      *)
(* lists, the overrides (cfg/override.go) and the cache of actions         *)
(* (srvdns/cache.go).  Every list has its own RWMutex and every method     *)
(* holds it from its first to its last access, so each operator below      *)
(* describes one atomic step on one list.                                  *)
(***************************************************************************)
EXTENDS HostLists

VARIABLES
  now,        \* time.Now().Unix()
  hosts,      \* keys of cfg.Hosts.m
  regexps,    \* cfg.Regexps.l: how often each regexp is in it
  override,   \* cfg.Override.m: expiry of each overridden name, or Absent
  cache       \* srvdns.Cache.m: entry for each key, or NoEntry

stores == <<now, hosts, regexps, override, cache>>

\* The query types that are filtered, and the keys of the cache: t + " " + name.
FilteredType == {"A", "AAAA"}
Key == FilteredType \X Name

\* The response* constants of srvdns/dns.go; 0 is the zero value.
reponseForward == 1
reponseSpoof   == 2
reponseEmpty   == 3
Response == {reponseForward, reponseSpoof, reponseEmpty}

\* What a missing key reads as: "not ok" for an override, CacheEntry{} for
\* the cache.
Absent  == -1
NoEntry == [response |-> 0, expires |-> 0]
CacheEntry == [response : Response, expires : Nat]

StoresTypeOK ==
  /\ now \in Nat
  /\ hosts \subseteq Name
  /\ regexps \in [Regexp -> Nat]
  /\ override \in [Name -> Nat \union {Absent}]
  /\ cache \in [Key -> CacheEntry \union {NoEntry}]

StoresInit ==
  /\ now = 0
  /\ hosts = {}
  /\ regexps = [r \in Regexp |-> 0]
  /\ override = [n \in Name |-> Absent]
  /\ cache = [k \in Key |-> NoEntry]

-----------------------------------------------------------------------------
(* What the lists say about a name *)

\* The name is on a block list: itself, a parent domain, or by a regexp.
Blocked(n) == InHosts(hosts, n) \/ MatchesAny(regexps, n)

\* An override for the key n is present and has not expired.
Live(n) == override[n] # Absent /\ now <= override[n]

-----------------------------------------------------------------------------
(* OverrideList *)

OverrideStore(n, expire) == override' = [override EXCEPT ![n] = expire]

OverrideDelete(n) == override' = [override EXCEPT ![n] = Absent]

OverridePurge == override' = [n \in Name |-> Absent]

-----------------------------------------------------------------------------
(* CacheList *)

CacheStore(k, entry) == cache' = [cache EXCEPT ![k] = entry]

CacheDelete(keys) ==
  cache' = [k \in Key |-> IF k \in keys THEN NoEntry ELSE cache[k]]

CachePurge == cache' = [k \in Key |-> NoEntry]

Cached == {k \in Key : cache[k] # NoEntry}

\* CacheList.PurgeExpired(max) looks at max + 1 entries, in the arbitrary
\* order of the map, and deletes those that have expired.
CachePurgeExpired(max) ==
  \E S \in SUBSET Cached :
    /\ Cardinality(S) = max + 1 \/ (S = Cached /\ Cardinality(S) <= max)
    /\ cache' = [k \in Key |-> IF k \in S /\ now > cache[k].expires
                               THEN NoEntry
                               ELSE cache[k]]

=============================================================================
