------------------------------- MODULE SrvHTTP -------------------------------
(***************************************************************************)
(* Package srvhttp, the part that changes shared state: the "allow" link   *)
(* of the page shown for a blocked site.  The request                      *)
(* /$@_allow/<duration>/<redirect> runs in a goroutine of the HTTP server  *)
(* and touches two lists, one after the other.                             *)
(***************************************************************************)
EXTENDS Stores

CONSTANTS
  Browser,     \* the HTTP requests that can be in progress at the same time
  AllowName,   \* the hosts users unblock
  AllowSecs    \* the durations on offer, in seconds

ASSUME SrvHTTPAssumption == AllowName \subseteq Name /\ AllowSecs \subseteq Nat

VARIABLE allowing   \* the host each request still has to drop from the cache

SrvHTTPTypeOK == allowing \in [Browser -> Name \union {NoName}]

SrvHTTPInit == allowing = [b \in Browser |-> NoName]

\* cfg.Override.Store(host, now + secs)
AllowStore(b, n, secs) ==
  /\ allowing[b] = NoName
  /\ OverrideStore(n, now + secs)
  /\ allowing' = [allowing EXCEPT ![b] = n]
  /\ UNCHANGED <<now, hosts, regexps, cache>>

\* srvdns.Cache.Delete("A "+host, "AAAA "+host), and the redirect.
AllowUncache(b) ==
  /\ allowing[b] # NoName
  /\ CacheDelete(FilteredType \X {allowing[b]})
  /\ allowing' = [allowing EXCEPT ![b] = NoName]
  /\ UNCHANGED <<now, hosts, regexps, override>>

SrvHTTPNext ==
  \E b \in Browser :
    \/ \E n \in AllowName, secs \in AllowSecs : AllowStore(b, n, secs)
    \/ AllowUncache(b)

=============================================================================
