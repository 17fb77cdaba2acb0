------------------------------- MODULE SrvDNS -------------------------------
(***************************************************************************)
(* Package srvdns: the DNS front end.  Every request runs in a goroutine   *)
(* of its own (the dns library starts it), so a handler is a process whose *)
(* steps are its accesses to the shared lists; between two of them any     *)
(* other goroutine may run.                                                *)
(*                                                                         *)
(*   handleDNS --> getResponse                                             *)
(*                   checkOverride       "exact", "label", "expiry"        *)
(*                   Cache.Get           "cache", "fresh"                  *)
(*                   determineResponse                                     *)
(*                     checkOverride     "exact", "label", "expiry"        *)
(*                     Hosts.Get         "hosts"                           *)
(*                     Regexps.Match     "regexps"                         *)
(*                   Cache.Store         "store"                           *)
(*             --> spoof, spoofEmpty     "reply"                           *)
(*             --> forward               "reply", "exchange"               *)
(***************************************************************************)
EXTENDS Stores

CONSTANTS
  Handler,     \* the goroutines that can serve a request at the same time
  QueryName,   \* the names clients ask for
  QueryType,   \* the filtered record types they ask for
  DnsCache,    \* cache-dns, in seconds
  PurgeMax     \* the argument of PurgeExpired (1000 in Serve)

ASSUME SrvDNSAssumption ==
  /\ QueryName \subseteq Name
  /\ QueryType \subseteq FilteredType
  /\ DnsCache \in Nat
  /\ PurgeMax \in Nat

VARIABLE handler   \* the state of each handler goroutine

PC == {"idle", "exact", "label", "expiry", "cache", "fresh",
       "hosts", "regexps", "store", "reply", "exchange"}

HandlerState ==
  [pc       : PC,
   name     : Name \union {NoName},
   qtype    : FilteredType,
   site     : {"getResponse", "determineResponse"},   \* caller of checkOverride
   i        : Nat,                     \* round of the loop over the labels
   expires  : Nat,                     \* expiry read from a list
   response : Response \union {0},
   start    : Nat]                     \* when the request arrived

IdleHandler ==
  [pc |-> "idle", name |-> NoName, qtype |-> "A", site |-> "getResponse",
   i |-> 0, expires |-> 0, response |-> 0, start |-> 0]

SrvDNSTypeOK == handler \in [Handler -> HandlerState]

SrvDNSInit == handler = [h \in Handler |-> IdleHandler]

Goto(h, state) == handler' = [handler EXCEPT ![h] = state]

\* The states in which the decision about the request is still open, or made
\* but not yet acted on.
Deciding(h) == handler[h].pc \notin {"idle", "exchange"}

-----------------------------------------------------------------------------
(* handleDNS: a request for an A or AAAA record goes through getResponse,  *)
(* any other is forwarded at once.  A request without a question is        *)
(* refused and touches no state.                                           *)

\* Mutant: the cache is consulted before the overrides.
ReceiveCacheFirst(h, n, t) ==
  /\ handler[h].pc = "idle"
  /\ Goto(h, [IdleHandler EXCEPT !.pc = "cache", !.name = n, !.qtype = t,
                                 !.start = now])
  /\ UNCHANGED stores

Receive(h, n, t) ==
  /\ handler[h].pc = "idle"
  /\ Goto(h, [IdleHandler EXCEPT !.pc = "exact", !.name = n, !.qtype = t,
                                 !.start = now])
  /\ UNCHANGED stores

ReceiveOther(h) ==
  /\ handler[h].pc = "idle"
  /\ Goto(h, [IdleHandler EXCEPT !.pc = "exchange"])
  /\ UNCHANGED stores

-----------------------------------------------------------------------------
(* checkOverride *)

\* Where the caller goes on once checkOverride has returned.
Returned(s, haveOverride) ==
  LET back == [s EXCEPT !.i = 0, !.expires = 0]
  IN  CASE s.site = "getResponse" /\ haveOverride ->
             [back EXCEPT !.pc = "reply", !.response = reponseForward]
        [] s.site = "getResponse" /\ ~haveOverride ->
             [back EXCEPT !.pc = "cache"]
        [] s.site = "determineResponse" /\ haveOverride ->
             [back EXCEPT !.pc = "store", !.response = reponseForward]
        [] OTHER ->
             [back EXCEPT !.pc = "hosts", !.i = 1]

\* Mutant: the search over the labels leaves out the top-level domain.
GetExactNoTop(h) ==
  LET s == handler[h]
      e == override[s.name]
  IN  /\ s.pc = "exact"
      /\ \/ e # Absent /\ Goto(h, [s EXCEPT !.pc = "expiry", !.expires = e])
         \/ e = Absent /\ Goto(h, [s EXCEPT !.pc = "label", !.i = 2])
      /\ UNCHANGED stores

\* cfg.Override.Get(name)
GetExact(h) ==
  LET s == handler[h]
      e == override[s.name]
  IN  /\ s.pc = "exact"
      /\ \/ e # Absent /\ Goto(h, [s EXCEPT !.pc = "expiry", !.expires = e])
         \/ e = Absent /\ Goto(h, [s EXCEPT !.pc = "label", !.i = 1])
      /\ UNCHANGED stores

\* cfg.Override.Get(c): from the top-level domain down, to the first hit.
GetLabel(h) ==
  LET s == handler[h]
      e == override[Suffix(s.name, s.i)]
  IN  /\ s.pc = "label"
      /\ \/ e # Absent /\ Goto(h, [s EXCEPT !.pc = "expiry", !.expires = e])
         \/ /\ e = Absent /\ s.i < Len(s.name)
            /\ Goto(h, [s EXCEPT !.i = @ + 1])
         \/ /\ e = Absent /\ s.i = Len(s.name)
            /\ Goto(h, Returned(s, FALSE))
      /\ UNCHANGED stores

\* Mutant: an expired override still counts for the request that removes it.
CheckExpiryForgetful(h) ==
  LET s == handler[h]
  IN  /\ s.pc = "expiry"
      /\ \/ now > s.expires /\ OverrideDelete(s.name)
         \/ now <= s.expires /\ UNCHANGED override
      /\ Goto(h, Returned(s, TRUE))
      /\ UNCHANGED <<now, hosts, regexps, cache>>

\* Mutant: an override is deleted in the second it expires.
CheckExpiryEarly(h) ==
  LET s == handler[h]
  IN  /\ s.pc = "expiry"
      /\ \/ /\ now >= s.expires
            /\ OverrideDelete(s.name)
            /\ Goto(h, Returned(s, FALSE))
         \/ /\ now < s.expires
            /\ UNCHANGED override
            /\ Goto(h, Returned(s, TRUE))
      /\ UNCHANGED <<now, hosts, regexps, cache>>

\* The expiry that was read is compared with the clock; if it has passed, the
\* entry of the name itself is deleted, whatever it is by now and whichever
\* entry the expiry was read from.
CheckExpiry(h) ==
  LET s == handler[h]
  IN  /\ s.pc = "expiry"
      /\ \/ /\ now > s.expires
            /\ OverrideDelete(s.name)
            /\ Goto(h, Returned(s, FALSE))
         \/ /\ now <= s.expires
            /\ UNCHANGED override
            /\ Goto(h, Returned(s, TRUE))
      /\ UNCHANGED <<now, hosts, regexps, cache>>

-----------------------------------------------------------------------------
(* getResponse and determineResponse *)

Determine(s) ==
  [s EXCEPT !.pc = "exact", !.site = "determineResponse",
            !.expires = 0, !.response = 0]

\* Cache.Get(cachekey)
GetCache(h) ==
  LET s == handler[h]
      entry == cache[<<s.qtype, s.name>>]
  IN  /\ s.pc = "cache"
      /\ \/ /\ entry # NoEntry
            /\ Goto(h, [s EXCEPT !.pc = "fresh", !.expires = entry.expires,
                                 !.response = entry.response])
         \/ /\ entry = NoEntry
            /\ Goto(h, Determine(s))
      /\ UNCHANGED stores

\* Mutant: an entry is still used in the second it expires.
CheckFreshInclusive(h) ==
  LET s == handler[h]
  IN  /\ s.pc = "fresh"
      /\ \/ /\ s.expires >= now
            /\ Goto(h, [s EXCEPT !.pc = "reply", !.expires = 0])
         \/ /\ s.expires < now
            /\ Goto(h, Determine(s))
      /\ UNCHANGED stores

\* cache.expires > time.Now().Unix()
CheckFresh(h) ==
  LET s == handler[h]
  IN  /\ s.pc = "fresh"
      /\ \/ /\ s.expires > now
            /\ Goto(h, [s EXCEPT !.pc = "reply", !.expires = 0])
         \/ /\ s.expires <= now
            /\ Goto(h, Determine(s))
      /\ UNCHANGED stores

\* The last lines of determineResponse, for a name that is on a list.
BlockResponse(t) == IF t = "AAAA" THEN reponseEmpty ELSE reponseSpoof

\* cfg.Hosts.Get(c)
GetHost(h) ==
  LET s == handler[h]
      hit == Suffix(s.name, s.i) \in hosts
  IN  /\ s.pc = "hosts"
      /\ \/ /\ hit
            /\ Goto(h, [s EXCEPT !.pc = "store", !.i = 0,
                                 !.response = BlockResponse(s.qtype)])
         \/ /\ ~hit /\ s.i < Len(s.name)
            /\ Goto(h, [s EXCEPT !.i = @ + 1])
         \/ /\ ~hit /\ s.i = Len(s.name)
            /\ Goto(h, [s EXCEPT !.pc = "regexps", !.i = 0])
      /\ UNCHANGED stores

\* Mutant: the response of a name that is on no list is left unset.
MatchRegexpsUnset(h) ==
  LET s == handler[h]
  IN  /\ s.pc = "regexps"
      /\ Goto(h, [s EXCEPT !.pc = "store",
                           !.response = IF MatchesAny(regexps, s.name)
                                        THEN BlockResponse(s.qtype)
                                        ELSE 0])
      /\ UNCHANGED stores

\* cfg.Regexps.Match(name)
MatchRegexps(h) ==
  LET s == handler[h]
  IN  /\ s.pc = "regexps"
      /\ Goto(h, [s EXCEPT !.pc = "store",
                           !.response = IF MatchesAny(regexps, s.name)
                                        THEN BlockResponse(s.qtype)
                                        ELSE reponseForward])
      /\ UNCHANGED stores

\* Mutant: the expiry is one second too late.
StoreCacheLate(h) ==
  LET s == handler[h]
  IN  /\ s.pc = "store"
      /\ CacheStore(<<s.qtype, s.name>>,
                    [response |-> s.response, expires |-> now + DnsCache + 1])
      /\ Goto(h, [s EXCEPT !.pc = "reply"])
      /\ UNCHANGED <<now, hosts, regexps, override>>

\* Cache.Store(cachekey, ...)
StoreCache(h) ==
  LET s == handler[h]
  IN  /\ s.pc = "store"
      /\ CacheStore(<<s.qtype, s.name>>,
                    [response |-> s.response, expires |-> now + DnsCache])
      /\ Goto(h, [s EXCEPT !.pc = "reply"])
      /\ UNCHANGED <<now, hosts, regexps, override>>

-----------------------------------------------------------------------------
(* spoof, spoofEmpty and forward *)

\* Mutant: the empty answer falls through to the forwarder.
ReplyFallThrough(h) ==
  LET s == handler[h]
  IN  /\ s.pc = "reply"
      /\ \/ /\ s.response # reponseSpoof
            /\ Goto(h, [IdleHandler EXCEPT !.pc = "exchange"])
         \/ /\ s.response = reponseSpoof
            /\ Goto(h, IdleHandler)
      /\ UNCHANGED stores

\* The switch of handleDNS: the request is sent on, or answered here.  That spoof
\* ends the process if the answer cannot be built (msg.Fatal) is left out.
Reply(h) ==
  LET s == handler[h]
  IN  /\ s.pc = "reply"
      /\ \/ /\ s.response = reponseForward
            /\ Goto(h, [IdleHandler EXCEPT !.pc = "exchange"])
         \/ /\ s.response # reponseForward
            /\ Goto(h, IdleHandler)
      /\ UNCHANGED stores

\* c.Exchange returns, with the answer or with an error (the client of the
\* dns library gives up after its timeout); either is passed to the client.
Exchange(h) ==
  /\ handler[h].pc = "exchange"
  /\ Goto(h, IdleHandler)
  /\ UNCHANGED stores

-----------------------------------------------------------------------------
(* The goroutine that sleeps 5 minutes and calls Cache.PurgeExpired        *)

PurgeExpired ==
  /\ CachePurgeExpired(PurgeMax)
  /\ UNCHANGED <<now, hosts, regexps, override, handler>>

Arrive(h) ==
  \/ \E n \in QueryName, t \in QueryType : Receive(h, n, t)
  \/ ReceiveOther(h)

HandlerStep(h) ==
  \/ GetExact(h) \/ GetLabel(h) \/ CheckExpiry(h)
  \/ GetCache(h) \/ CheckFresh(h)
  \/ GetHost(h) \/ MatchRegexps(h) \/ StoreCache(h)
  \/ Reply(h) \/ Exchange(h)

SrvDNSNext == (\E h \in Handler : Arrive(h) \/ HandlerStep(h)) \/ PurgeExpired

=============================================================================
