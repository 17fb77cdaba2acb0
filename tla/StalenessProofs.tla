--------------------------- MODULE StalenessProofs ---------------------------
(***************************************************************************)
(* What TLAPS proves of the decisions of the server (TrackwallHistory):    *)
(* for every number of handlers, every set of names, every block list and  *)
(* every cache-dns, a decision is never based on knowledge older than      *)
(* StalenessBound.                                                         *)
(***************************************************************************)
EXTENDS TrackwallHistory, TrackwallProofs

-----------------------------------------------------------------------------
(* The inductive invariant                                                 *)

\* The last second at which response r was the right one for the name n.
Known(n, r) == IF r = reponseForward THEN lastOpen[n] ELSE lastBlocked[n]

\* A handler that is deciding is at most MaxLag seconds old.
TimelyOK(s) == s.name # NoName => s.start <= now /\ now <= s.start + MaxLag

\* The history variables are up to date.
HistoryExact ==
  \A n \in QueryName : /\ Open(n) => lastOpen[n] = now
                       /\ Blocked(n) => lastBlocked[n] = now
                       /\ lastOpen[n] <= now
                       /\ lastBlocked[n] <= now

\* A response for the name n and an expiry that are or were in the cache: the
\* response was right MaxLag seconds before it was stored, or later.
Supported(n, r, e) ==
  /\ e <= now + DnsCache
  /\ Known(n, r) # Never
  /\ e - DnsCache - MaxLag <= Known(n, r)

CacheSupported ==
  \A t \in FilteredType, n \in QueryName :
    cache[<<t, n>>] # NoEntry =>
      Supported(n, cache[<<t, n>>].response, cache[<<t, n>>].expires)

\* The name has been open at some time since the request came.
OpenSince(s) == s.start <= lastOpen[s.name]

\* What each step of a handler relies on.
SupportedOK(s) ==
  /\ s.pc = "expiry" /\ now <= s.expires => OpenSince(s)
  /\ s.pc = "hosts" =>
       OpenSince(s) \/ \A j \in 1..(s.i - 1) : Suffix(s.name, j) \notin hosts
  /\ s.pc = "regexps" => OpenSince(s) \/ ~InHosts(hosts, s.name)
  /\ s.pc = "store" => s.start <= Known(s.name, s.response)
  /\ s.pc = "fresh" => Supported(s.name, s.response, s.expires)
  /\ s.pc = "reply" =>
       \/ s.start <= Known(s.name, s.response)
       \/ /\ DnsCache > 0
          /\ Known(s.name, s.response) # Never
          /\ s.start + 1 - DnsCache - MaxLag <= Known(s.name, s.response)

IInv ==
  /\ TypeInv
  /\ HistoryTypeOK
  /\ HistoryExact
  /\ CacheSupported
  /\ \A h \in Handler : TimelyOK(handler[h]) /\ SupportedOK(handler[h])

\* What every step does to the clock and to the history.
Later ==
  /\ now <= now'
  /\ \A n \in QueryName : lastOpen[n] <= lastOpen'[n] /\ lastBlocked[n] <= lastBlocked'[n]

-----------------------------------------------------------------------------
(* The history variables                                                   *)

\* What the invariant says of the types of one handler and of the history.
LEMMA Facts ==
  ASSUME IInv
  PROVE  /\ now \in Nat /\ MaxLag \in Nat /\ DnsCache \in Nat
         /\ QueryName \subseteq Name /\ NoName \notin Name
         /\ \A n \in QueryName : /\ lastOpen[n] \in Nat \union {Never}
                                 /\ lastBlocked[n] \in Nat \union {Never}
         /\ \A h \in Handler : /\ handler[h] \in HandlerState
                               /\ ShapeOK(handler[h])
                               /\ TimelyOK(handler[h])
                               /\ SupportedOK(handler[h])
BY HandlerType, StoresTypes, NameFacts, SrvDNSAssumption, TrackwallAssumption
   DEF IInv, HistoryTypeOK

LEMMA HistoryLater ==
  ASSUME IInv, HistoryStep, now' \in {now, now + 1}
  PROVE  HistoryTypeOK' /\ HistoryExact' /\ Later
<1>1. now \in Nat /\ now' \in Nat /\ now <= now'
  BY Facts
<1>2. /\ lastOpen' \in [QueryName -> Nat \union {Never}]
      /\ lastBlocked' \in [QueryName -> Nat \union {Never}]
      /\ trusted' \subseteq Handler /\ closed' \subseteq Handler
      /\ granted' \in [Name -> Nat \union {Never}]
  <2>1. granted \in [Name -> Nat \union {Never}]
    BY DEF IInv, HistoryTypeOK
  <2> QED
    BY <1>1, <2>1, Facts DEF HistoryStep
<1>3. ASSUME NEW n \in QueryName
      PROVE  /\ Open(n)' => lastOpen'[n] = now'
             /\ Blocked(n)' => lastBlocked'[n] = now'
             /\ lastOpen'[n] <= now' /\ lastOpen[n] <= lastOpen'[n]
             /\ lastBlocked'[n] <= now' /\ lastBlocked[n] <= lastBlocked'[n]
  <2>1. /\ lastOpen[n] \in Nat \union {Never} /\ lastOpen[n] <= now
        /\ lastBlocked[n] \in Nat \union {Never} /\ lastBlocked[n] <= now
    BY Facts DEF IInv, HistoryExact
  <2>2. /\ lastOpen'[n] = IF Open(n)' THEN now' ELSE lastOpen[n]
        /\ lastBlocked'[n] = IF Blocked(n)' THEN now' ELSE lastBlocked[n]
    BY DEF HistoryStep
  <2> QED
    BY <1>1, <2>1, <2>2 DEF Never
<1> QED
  BY <1>1, <1>2, <1>3 DEF HistoryTypeOK, HistoryExact, Later

LEMMA NextClock == Next => Tick \/ now' = now
BY DEF Next, DNS, Arrive, HandlerStep, Receive, ReceiveOther, GetExact, GetLabel,
       CheckExpiry, GetCache, CheckFresh, GetHost, MatchRegexps, StoreCache, Reply,
       Exchange, Janitor, PurgeExpired, HTTP, SrvHTTPNext, AllowStore,
       AllowUncache, Ctl, CacheFlush, OverrideFlush, Load, stores

-----------------------------------------------------------------------------
(* What a step leaves alone stays supported                                *)

LEMMA SupportedLater ==
  ASSUME IInv, Later, now' \in Nat, HistoryTypeOK',
         NEW n \in QueryName, NEW r, NEW e \in Nat, Supported(n, r, e)
  PROVE  Supported(n, r, e)'
<1>1. /\ lastOpen[n] <= lastOpen'[n] /\ lastBlocked[n] <= lastBlocked'[n]
      /\ lastOpen[n] \in Nat \union {Never} /\ lastBlocked[n] \in Nat \union {Never}
      /\ lastOpen'[n] \in Nat \union {Never} /\ lastBlocked'[n] \in Nat \union {Never}
  BY Facts DEF Later, HistoryTypeOK
<1> QED
  BY <1>1, Facts DEF Supported, Known, Later, Never

\* A handler that does not move, while the host list stays or the handler does
\* not depend on it.
LEMMA BystanderSupported ==
  ASSUME IInv, Later, now' \in Nat, HistoryTypeOK',
         NEW g \in Handler, handler'[g] = handler[g],
         hosts' = hosts \/ (InProgress(g) => OpenSince(handler[g]))
  PROVE  SupportedOK(handler[g])'
<1> DEFINE s == handler[g]
<1>1. s \in HandlerState /\ ShapeOK(s) /\ SupportedOK(s)
  BY Facts
<1>2. CASE s.name = NoName
  BY <1>1, <1>2 DEF ShapeOK, SupportedOK
<1>3. CASE s.name \in QueryName
  <2>1. /\ lastOpen[s.name] <= lastOpen'[s.name]
        /\ lastBlocked[s.name] <= lastBlocked'[s.name]
        /\ lastOpen[s.name] \in Nat \union {Never}
        /\ lastBlocked[s.name] \in Nat \union {Never}
        /\ lastOpen'[s.name] \in Nat \union {Never}
        /\ lastBlocked'[s.name] \in Nat \union {Never}
        /\ s.start \in Nat /\ s.expires \in Nat
        /\ now \in Nat /\ now <= now' /\ MaxLag \in Nat /\ DnsCache \in Nat
    BY <1>1, <1>3, Facts DEF Later, HistoryTypeOK, HandlerState
  <2>2. OpenSince(s) => OpenSince(s)'
    BY <2>1 DEF OpenSince, Never
  <2>3. hosts' = hosts \/ OpenSince(s)
    BY <1>3, Facts DEF InProgress
  <2>4. s.pc = "expiry" /\ now' <= s.expires => OpenSince(s)'
    BY <1>1, <2>1, <2>2 DEF SupportedOK
  <2>5. s.pc = "hosts" =>
          OpenSince(s)' \/ \A j \in 1..(s.i - 1) : Suffix(s.name, j) \notin hosts'
    BY <1>1, <2>2, <2>3 DEF SupportedOK
  <2>6. s.pc = "regexps" => OpenSince(s)' \/ ~InHosts(hosts', s.name)
    BY <1>1, <2>2, <2>3 DEF SupportedOK
  <2>7. Known(s.name, s.response) <= Known(s.name, s.response)'
    BY <2>1 DEF Known
  <2>8. Known(s.name, s.response) \in Nat \union {Never}
    BY <2>1 DEF Known
  <2>9. Known(s.name, s.response)' \in Nat \union {Never}
    BY <2>1 DEF Known
  <2>10. s.pc = "store" => s.start <= Known(s.name, s.response)'
    BY <1>1, <2>1, <2>7, <2>8, <2>9 DEF SupportedOK, Never
  <2>11. s.pc = "fresh" => Supported(s.name, s.response, s.expires)'
    BY <1>1, <1>3, <2>1, SupportedLater DEF SupportedOK
  <2>12. s.pc = "reply" =>
           \/ s.start <= Known(s.name, s.response)'
           \/ /\ DnsCache > 0
              /\ Known(s.name, s.response)' # Never
              /\ s.start + 1 - DnsCache - MaxLag <= Known(s.name, s.response)'
    BY <1>1, <2>1, <2>7, <2>8, <2>9 DEF SupportedOK, Never
  <2> QED
    BY <2>4, <2>5, <2>6, <2>10, <2>11, <2>12 DEF SupportedOK, OpenSince, Known, Supported
<1> QED
  BY <1>1, <1>2, <1>3 DEF ShapeOK

\* A step that at most takes entries out of the cache.
LEMMA CacheLater ==
  ASSUME IInv, Later, now' \in Nat, HistoryTypeOK',
         \A k \in Key : cache'[k] = cache[k] \/ cache'[k] = NoEntry
  PROVE  CacheSupported'
<1> SUFFICES ASSUME NEW t \in FilteredType, NEW n \in QueryName,
                    cache'[<<t, n>>] # NoEntry
             PROVE  Supported(n, cache[<<t, n>>].response, cache[<<t, n>>].expires)'
  BY DEF CacheSupported
<1>1. <<t, n>> \in Key
  BY Facts DEF Key
<1>2. cache'[<<t, n>>] = cache[<<t, n>>] /\ cache[<<t, n>>] # NoEntry
  BY <1>1
<1>3. cache[<<t, n>>].expires \in Nat
  BY <1>1, <1>2, StoresTypes DEF IInv, CacheEntry
<1>4. Supported(n, cache[<<t, n>>].response, cache[<<t, n>>].expires)
  BY <1>2 DEF IInv, CacheSupported
<1>5. /\ lastOpen[n] <= lastOpen'[n] /\ lastBlocked[n] <= lastBlocked'[n]
      /\ lastOpen[n] \in Nat \union {Never} /\ lastBlocked[n] \in Nat \union {Never}
      /\ lastOpen'[n] \in Nat \union {Never} /\ lastBlocked'[n] \in Nat \union {Never}
  BY Facts DEF Later, HistoryTypeOK
<1> QED
  BY <1>2, <1>3, <1>4, <1>5, Facts DEF Supported, Known, Later, Never

-----------------------------------------------------------------------------
(* The steps of one handler                                                *)

\* The handler and its new state, when the request stays the same.
SameRequest(h) ==
  /\ handler'[h].name = handler[h].name
  /\ handler'[h].start = handler[h].start

\* What the lemmas below conclude about the handler that takes the step.
HandlerOK(h) == TimelyOK(handler[h]) /\ SupportedOK(handler[h])

LEMMA DecidingFacts ==
  ASSUME IInv, Later, HistoryTypeOK', now' = now,
         NEW h \in Handler, handler[h].pc \notin {"idle", "exchange"}
  PROVE  LET s == handler[h]
         IN  /\ s \in HandlerState /\ s.name \in QueryName /\ s.name \in Name
             /\ s.name # NoName
             /\ s.start \in Nat /\ s.start <= now /\ now <= s.start + MaxLag
             /\ Len(s.name) \in Nat \ {0}
             /\ Open(s.name) => lastOpen[s.name] = now
             /\ Blocked(s.name) => lastBlocked[s.name] = now
             /\ lastOpen[s.name] <= lastOpen'[s.name]
             /\ lastBlocked[s.name] <= lastBlocked'[s.name]
             /\ lastOpen[s.name] \in Nat \union {Never}
             /\ lastBlocked[s.name] \in Nat \union {Never}
             /\ lastOpen'[s.name] \in Nat \union {Never}
             /\ lastBlocked'[s.name] \in Nat \union {Never}
<1> DEFINE s == handler[h]
<1>1. s \in HandlerState /\ ShapeOK(s) /\ TimelyOK(s)
  BY Facts
<1>2. s.name \in QueryName /\ s.name \in Name /\ s.name # NoName
  BY <1>1, Facts DEF ShapeOK
<1>3. s.start \in Nat /\ s.start <= now /\ now <= s.start + MaxLag
  BY <1>1, <1>2 DEF HandlerState, TimelyOK
<1>4. Len(s.name) \in Nat \ {0}
  BY <1>2, NameFacts
<1>5. /\ Open(s.name) => lastOpen[s.name] = now
      /\ Blocked(s.name) => lastBlocked[s.name] = now
  BY <1>2 DEF IInv, HistoryExact
<1>6. /\ lastOpen[s.name] <= lastOpen'[s.name]
      /\ lastBlocked[s.name] <= lastBlocked'[s.name]
      /\ lastOpen[s.name] \in Nat \union {Never}
      /\ lastBlocked[s.name] \in Nat \union {Never}
      /\ lastOpen'[s.name] \in Nat \union {Never}
      /\ lastBlocked'[s.name] \in Nat \union {Never}
  BY <1>2, Facts DEF Later, HistoryTypeOK
<1> QED
  BY <1>1, <1>2, <1>3, <1>4, <1>5, <1>6

\* The time limit of a request carries over to the next step.
LEMMA SameRequestTimely ==
  ASSUME IInv, now' = now, NEW h \in Handler, SameRequest(h)
  PROVE  TimelyOK(handler[h])'
BY Facts DEF TimelyOK, SameRequest

\* A handler whose new state relies on nothing.
LEMMA NothingToSupport ==
  ASSUME NEW h \in Handler,
         handler'[h].pc \in {"idle", "exact", "label", "cache", "exchange"}
  PROVE  SupportedOK(handler[h])'
BY DEF SupportedOK

\* The new state of the handler that takes a step.
LEMMA NewState ==
  ASSUME IInv, NEW h \in Handler, NEW state, Goto(h, state)
  PROVE  handler'[h] = state
BY DEF IInv, TypeInv, TypeOK, SrvDNSTypeOK, Goto

LEMMA ArriveSupported ==
  ASSUME IInv, Later, HistoryTypeOK', now' = now, NEW h \in Handler, Arrive(h)
  PROVE  HandlerOK(h)'
<1>1. CASE ReceiveOther(h) 
  <2>1. handler'[h] = [IdleHandler EXCEPT !.pc = "exchange"]
    BY <1>1, NewState DEF ReceiveOther
  <2>2. handler'[h].pc = "exchange" /\ handler'[h].name = NoName
    BY <2>1 DEF IdleHandler
  <2> QED
    BY <2>2, NothingToSupport DEF HandlerOK, TimelyOK
<1>2. ASSUME NEW n \in QueryName, NEW t \in QueryType, Receive(h, n, t)
      PROVE  HandlerOK(h)'
  <2>1. handler'[h] = [IdleHandler EXCEPT !.pc = "exact", !.name = n,
                                          !.qtype = t, !.start = now]
    BY <1>2, NewState DEF Receive
  <2>2. handler'[h].pc = "exact" /\ handler'[h].start = now
    BY <2>1 DEF IdleHandler
  <2> QED
    BY <2>2, NothingToSupport, Facts DEF HandlerOK, TimelyOK
<1> QED
  BY <1>1, <1>2 DEF Arrive

\* The value of an override is read while it is live.
LEMMA ExpirySupported ==
  ASSUME IInv, Later, HistoryTypeOK', now' = now, NEW h \in Handler,
         handler[h].pc \in {"exact", "label"},
         NEW i \in 1..Len(handler[h].name),
         override[Suffix(handler[h].name, i)] # Absent,
         Goto(h, [handler[h] EXCEPT !.pc = "expiry",
                    !.expires = override[Suffix(handler[h].name, i)]])
  PROVE  HandlerOK(h)'
<1> DEFINE n == handler[h].name
           e == override[Suffix(n, i)]
<1>1. handler'[h] = [handler[h] EXCEPT !.pc = "expiry", !.expires = e]
  BY NewState
<1>2. /\ handler'[h].pc = "expiry" /\ handler'[h].expires = e
      /\ SameRequest(h)
  BY <1>1, Facts DEF HandlerState, SameRequest
<1>3. ASSUME now <= e PROVE handler[h].start <= lastOpen'[n]
  <2>1. Live(Suffix(n, i))
    BY <1>3 DEF Live
  <2>2. Open(n)
    BY <2>1 DEF Open, Suffixes
  <2> QED
    BY <2>2, DecidingFacts DEF Never
<1>4. SupportedOK(handler[h])'
  BY <1>2, <1>3 DEF SupportedOK, OpenSince, SameRequest
<1> QED
  BY <1>2, <1>4, SameRequestTimely DEF HandlerOK

LEMMA GetExactSupported ==
  ASSUME IInv, Later, HistoryTypeOK', now' = now, NEW h \in Handler, GetExact(h)
  PROVE  HandlerOK(h)'
<1> DEFINE s == handler[h]
           e == override[s.name]
<1>1. s.pc = "exact"
  BY DEF GetExact
<1>2. /\ s \in HandlerState /\ s.name \in Name /\ Len(s.name) \in Nat \ {0}
  BY <1>1, DecidingFacts
<1>3. Suffix(s.name, Len(s.name)) = s.name
  BY <1>2, NameAssumption DEF Suffix
<1>4. CASE e # Absent /\ Goto(h, [s EXCEPT !.pc = "expiry", !.expires = e])
  <2>1. Len(s.name) \in 1..Len(s.name)
    BY <1>2
  <2> QED
    BY <1>1, <1>3, <1>4, <2>1, ExpirySupported
<1>5. CASE Goto(h, [s EXCEPT !.pc = "label", !.i = 1])
  <2>1. handler'[h] = [s EXCEPT !.pc = "label", !.i = 1]
    BY <1>5, NewState
  <2>2. handler'[h].pc = "label" /\ SameRequest(h)
    BY <1>2, <2>1 DEF HandlerState, SameRequest
  <2> QED
    BY <2>2, NothingToSupport, SameRequestTimely DEF HandlerOK
<1> QED
  BY <1>4, <1>5 DEF GetExact

\* checkOverride returns FALSE: the caller goes on with nothing in its hands.
LEMMA ReturnedFalseSupported ==
  ASSUME IInv, Later, HistoryTypeOK', now' = now, NEW h \in Handler,
         handler[h].pc \in {"label", "expiry"}, Goto(h, Returned(handler[h], FALSE))
  PROVE  HandlerOK(h)'
<1>1. handler[h] \in HandlerState
  BY Facts
<1>2. handler'[h] = Returned(handler[h], FALSE)
  BY NewState
<1>3. SameRequest(h)
  BY <1>1, <1>2 DEF Returned, HandlerState, SameRequest
<1>4. \/ handler'[h].pc = "cache"
      \/ handler'[h].pc = "hosts" /\ handler'[h].i = 1
  BY <1>1, <1>2 DEF Returned, HandlerState
<1>5. SupportedOK(handler[h])'
  BY <1>4 DEF SupportedOK
<1> QED
  BY <1>3, <1>5, SameRequestTimely DEF HandlerOK

LEMMA GetLabelSupported ==
  ASSUME IInv, Later, HistoryTypeOK', now' = now, NEW h \in Handler, GetLabel(h)
  PROVE  HandlerOK(h)'
<1> DEFINE s == handler[h]
           e == override[Suffix(s.name, s.i)]
<1>1. s.pc = "label" /\ s \in HandlerState /\ s.i \in 1..Len(s.name)
  BY Facts DEF GetLabel, ShapeOK
<1>2. CASE e # Absent /\ Goto(h, [s EXCEPT !.pc = "expiry", !.expires = e])
  BY <1>1, <1>2, ExpirySupported
<1>3. CASE Goto(h, [s EXCEPT !.i = @ + 1])
  <2>1. handler'[h] = [s EXCEPT !.i = @ + 1]
    BY <1>3, NewState
  <2>2. handler'[h].pc = "label" /\ SameRequest(h)
    BY <1>1, <2>1 DEF HandlerState, SameRequest
  <2> QED
    BY <2>2, NothingToSupport, SameRequestTimely DEF HandlerOK
<1>4. CASE Goto(h, Returned(s, FALSE))
  BY <1>1, <1>4, ReturnedFalseSupported
<1> QED
  BY <1>2, <1>3, <1>4 DEF GetLabel

LEMMA CheckExpirySupported ==
  ASSUME IInv, Later, HistoryTypeOK', now' = now, NEW h \in Handler, CheckExpiry(h)
  PROVE  HandlerOK(h)'
<1> DEFINE s == handler[h]
<1>1. s.pc = "expiry" /\ s \in HandlerState
  BY Facts DEF CheckExpiry
<1>2. CASE now <= s.expires /\ Goto(h, Returned(s, TRUE))
  <2>1. handler'[h] = Returned(s, TRUE)
    BY <1>2, NewState
  <2>2. SameRequest(h)
    BY <1>1, <2>1 DEF Returned, HandlerState, SameRequest
  <2>3. /\ handler'[h].pc \in {"reply", "store"}
        /\ handler'[h].response = reponseForward
    BY <1>1, <2>1 DEF Returned, HandlerState
  <2>4. s.start <= lastOpen[s.name]
    BY <1>1, <1>2, Facts DEF SupportedOK, OpenSince
  <2>5. s.start <= lastOpen'[s.name]
    BY <1>1, <2>4, DecidingFacts DEF Never
  <2>6. SupportedOK(handler[h])'
    BY <2>2, <2>3, <2>5 DEF SupportedOK, Known, SameRequest
  <2> QED
    BY <2>2, <2>6, SameRequestTimely DEF HandlerOK
<1>3. CASE Goto(h, Returned(s, FALSE))
  BY <1>1, <1>3, ReturnedFalseSupported
<1> QED
  BY <1>2, <1>3 DEF CheckExpiry

\* determineResponse starts with nothing in its hands.
LEMMA DetermineSupported ==
  ASSUME IInv, Later, HistoryTypeOK', now' = now, NEW h \in Handler,
         Goto(h, Determine(handler[h]))
  PROVE  HandlerOK(h)'
<1>1. handler'[h] = Determine(handler[h])
  BY NewState
<1>2. handler'[h].pc = "exact" /\ SameRequest(h)
  BY <1>1, Facts DEF Determine, HandlerState, SameRequest
<1> QED
  BY <1>2, NothingToSupport, SameRequestTimely DEF HandlerOK

\* Known in the next state, for a name and a response of this state.
KnownNext(n, r) == IF r = reponseForward THEN lastOpen'[n] ELSE lastBlocked'[n]

LEMMA KnownLater ==
  ASSUME IInv, Later, HistoryTypeOK', NEW n \in QueryName, NEW r
  PROVE  /\ Known(n, r) \in Nat \union {Never}
         /\ KnownNext(n, r) \in Nat \union {Never}
         /\ Known(n, r) <= KnownNext(n, r)
<1>1. /\ lastOpen[n] <= lastOpen'[n] /\ lastBlocked[n] <= lastBlocked'[n]
      /\ lastOpen[n] \in Nat \union {Never} /\ lastBlocked[n] \in Nat \union {Never}
      /\ lastOpen'[n] \in Nat \union {Never} /\ lastBlocked'[n] \in Nat \union {Never}
  BY Facts DEF Later, HistoryTypeOK
<1> QED
  BY <1>1 DEF Known, KnownNext

LEMMA GetCacheSupported ==
  ASSUME IInv, Later, HistoryTypeOK', now' = now, NEW h \in Handler, GetCache(h)
  PROVE  HandlerOK(h)'
<1> DEFINE s == handler[h]
           entry == cache[<<s.qtype, s.name>>]
           state == [s EXCEPT !.pc = "fresh", !.expires = entry.expires,
                              !.response = entry.response]
<1>1. s.pc = "cache"
  BY DEF GetCache
<1>2. s \in HandlerState /\ s.name \in QueryName /\ s.qtype \in FilteredType
  BY <1>1, DecidingFacts DEF HandlerState
<1>3. CASE entry # NoEntry /\ Goto(h, state)
  <2>1. handler'[h] = state
    BY <1>3, NewState
  <2>2. /\ handler'[h].pc = "fresh" /\ handler'[h].expires = entry.expires
        /\ handler'[h].response = entry.response /\ SameRequest(h)
    BY <1>2, <2>1 DEF HandlerState, SameRequest
  <2>3. Supported(s.name, entry.response, entry.expires)
    BY <1>2, <1>3 DEF IInv, CacheSupported
  <2>4. entry.expires \in Nat
    <3>1. <<s.qtype, s.name>> \in Key
      BY <1>2, Facts DEF Key
    <3> QED
      BY <1>3, <3>1, StoresTypes DEF IInv, CacheEntry
  <2>5. /\ entry.expires <= now' + DnsCache
        /\ KnownNext(s.name, entry.response) # Never
        /\ entry.expires - DnsCache - MaxLag <= KnownNext(s.name, entry.response)
    BY <1>2, <2>3, <2>4, KnownLater, Facts DEF Supported, Never
  <2>6. SupportedOK(handler[h])'
    BY <2>2, <2>5 DEF SupportedOK, Supported, Known, KnownNext, SameRequest
  <2> QED
    BY <2>2, <2>6, SameRequestTimely DEF HandlerOK
<1>4. CASE Goto(h, Determine(s))
  BY <1>4, DetermineSupported
<1> QED
  BY <1>3, <1>4 DEF GetCache

LEMMA CheckFreshSupported ==
  ASSUME IInv, Later, HistoryTypeOK', now' = now, NEW h \in Handler, CheckFresh(h)
  PROVE  HandlerOK(h)'
<1> DEFINE s == handler[h]
           state == [s EXCEPT !.pc = "reply", !.expires = 0]
<1>1. s.pc = "fresh"
  BY DEF CheckFresh
<1>2. /\ s \in HandlerState /\ s.expires \in Nat /\ s.name \in QueryName
      /\ s.start \in Nat /\ s.start <= now
  BY <1>1, DecidingFacts DEF HandlerState
<1>3. CASE s.expires > now /\ Goto(h, state)
  <2>1. handler'[h] = state
    BY <1>3, NewState
  <2>2. /\ handler'[h].pc = "reply" /\ handler'[h].response = s.response
        /\ SameRequest(h)
    BY <1>2, <2>1 DEF HandlerState, SameRequest
  <2>3. Supported(s.name, s.response, s.expires)
    BY <1>1, Facts DEF SupportedOK
  <2>4. DnsCache > 0
    BY <1>2, <1>3, <2>3, Facts DEF Supported
  <2>5. /\ Known(s.name, s.response) # Never
        /\ s.start + 1 - DnsCache - MaxLag <= Known(s.name, s.response)
    BY <1>2, <1>3, <2>3, KnownLater, Facts DEF Supported, Never
  <2>6. /\ KnownNext(s.name, s.response) # Never
        /\ s.start + 1 - DnsCache - MaxLag <= KnownNext(s.name, s.response)
    BY <1>2, <2>5, KnownLater, Facts DEF Never
  <2>7. SupportedOK(handler[h])'
    BY <2>2, <2>4, <2>6 DEF SupportedOK, Known, KnownNext, SameRequest
  <2> QED
    BY <2>2, <2>7, SameRequestTimely DEF HandlerOK
<1>4. CASE Goto(h, Determine(s))
  BY <1>4, DetermineSupported
<1> QED
  BY <1>3, <1>4 DEF CheckFresh

\* A handler that goes to "store" with a response that is right now.
LEMMA StoreSupported ==
  ASSUME IInv, Later, HistoryTypeOK', now' = now, NEW h \in Handler,
         handler[h].pc \notin {"idle", "exchange"},
         handler'[h].pc = "store", SameRequest(h),
         \/ /\ handler'[h].response = reponseForward
            /\ OpenSince(handler[h]) \/ Open(handler[h].name)
         \/ /\ handler'[h].response # reponseForward
            /\ Blocked(handler[h].name)
  PROVE  HandlerOK(h)'
<1> DEFINE n == handler[h].name
<1>1. /\ handler'[h].response = reponseForward => handler[h].start <= lastOpen'[n]
      /\ handler'[h].response # reponseForward => handler[h].start <= lastBlocked'[n]
  BY DecidingFacts DEF OpenSince, Never
<1>2. SupportedOK(handler[h])'
  BY <1>1 DEF SupportedOK, Known, SameRequest
<1> QED
  BY <1>2, SameRequestTimely DEF HandlerOK

LEMMA GetHostSupported ==
  ASSUME IInv, Later, HistoryTypeOK', now' = now, UNCHANGED hosts,
         NEW h \in Handler, GetHost(h)
  PROVE  HandlerOK(h)'
<1> DEFINE s == handler[h]
           hit == Suffix(s.name, s.i) \in hosts
           hitState == [s EXCEPT !.pc = "store", !.i = 0,
                                 !.response = BlockResponse(s.qtype)]
           nextState == [s EXCEPT !.i = @ + 1]
           endState == [s EXCEPT !.pc = "regexps", !.i = 0]
<1>1. /\ s.pc = "hosts" /\ s \in HandlerState /\ s.i \in 1..Len(s.name)
      /\ Len(s.name) \in Nat
  BY Facts, DecidingFacts DEF GetHost, ShapeOK
<1>2. OpenSince(s) \/ \A j \in 1..(s.i - 1) : Suffix(s.name, j) \notin hosts
  BY <1>1, Facts DEF SupportedOK
<1>3. OpenSince(s) => s.start <= lastOpen'[s.name]
  BY <1>1, DecidingFacts DEF OpenSince, Never
<1>4. CASE hit /\ Goto(h, hitState)
  <2>1. handler'[h] = hitState
    BY <1>4, NewState
  <2>2. /\ handler'[h].pc = "store" /\ SameRequest(h)
        /\ handler'[h].response = BlockResponse(s.qtype)
    BY <1>1, <2>1 DEF HandlerState, SameRequest
  <2>3. BlockResponse(s.qtype) # reponseForward
    BY DEF BlockResponse, reponseForward, reponseSpoof, reponseEmpty
  <2>4. Blocked(s.name)
    BY <1>1, <1>4 DEF Blocked, InHosts, Suffixes
  <2> QED
    BY <1>1, <2>2, <2>3, <2>4, StoreSupported
<1>5. CASE ~hit /\ Goto(h, nextState)
  <2>1. handler'[h] = nextState
    BY <1>5, NewState
  <2>2. handler'[h].pc = "hosts" /\ handler'[h].i = s.i + 1 /\ SameRequest(h)
    BY <1>1, <2>1 DEF HandlerState, SameRequest
  <2>3. OpenSince(s) \/ \A j \in 1..s.i : Suffix(s.name, j) \notin hosts
    BY <1>1, <1>2, <1>5
  <2>4. handler'[h].i - 1 = s.i
    BY <1>1, <2>2
  <2>5. \/ handler'[h].start <= lastOpen'[handler'[h].name]
        \/ \A j \in 1..(handler'[h].i - 1) : Suffix(handler'[h].name, j) \notin hosts'
    BY <1>3, <2>2, <2>3, <2>4 DEF SameRequest
  <2>6. SupportedOK(handler[h])'
    BY <2>2, <2>5 DEF SupportedOK, OpenSince
  <2> QED
    BY <2>2, <2>6, SameRequestTimely DEF HandlerOK
<1>6. CASE ~hit /\ s.i = Len(s.name) /\ Goto(h, endState)
  <2>1. handler'[h] = endState
    BY <1>6, NewState
  <2>2. handler'[h].pc = "regexps" /\ SameRequest(h)
    BY <1>1, <2>1 DEF HandlerState, SameRequest
  <2>3. OpenSince(s) \/ ~InHosts(hosts, s.name)
    BY <1>1, <1>2, <1>6 DEF InHosts, Suffixes
  <2>4. SupportedOK(handler[h])'
    BY <1>3, <2>2, <2>3 DEF SupportedOK, OpenSince, SameRequest, InHosts
  <2> QED
    BY <2>2, <2>4, SameRequestTimely DEF HandlerOK
<1> QED
  BY <1>4, <1>5, <1>6 DEF GetHost

LEMMA MatchRegexpsSupported ==
  ASSUME IInv, Later, HistoryTypeOK', now' = now, NEW h \in Handler,
         MatchRegexps(h)
  PROVE  HandlerOK(h)'
<1> DEFINE s == handler[h]
           r == IF MatchesAny(regexps, s.name) THEN BlockResponse(s.qtype)
                                               ELSE reponseForward
<1>1. s.pc = "regexps" /\ s \in HandlerState
  BY Facts DEF MatchRegexps
<1>2. handler'[h] = [s EXCEPT !.pc = "store", !.response = r]
  BY NewState DEF MatchRegexps
<1>3. handler'[h].pc = "store" /\ handler'[h].response = r /\ SameRequest(h)
  BY <1>1, <1>2 DEF HandlerState, SameRequest
<1>4. BlockResponse(s.qtype) # reponseForward
  BY DEF BlockResponse, reponseForward, reponseSpoof, reponseEmpty
<1>5. CASE MatchesAny(regexps, s.name)
  <2>1. Blocked(s.name)
    BY <1>5 DEF Blocked
  <2> QED
    BY <1>1, <1>3, <1>4, <1>5, <2>1, StoreSupported
<1>6. CASE ~MatchesAny(regexps, s.name)
  <2>1. OpenSince(s) \/ ~InHosts(hosts, s.name)
    BY <1>1, Facts DEF SupportedOK
  <2>2. OpenSince(s) \/ Open(s.name)
    BY <1>6, <2>1 DEF Open, Blocked
  <2> QED
    BY <1>1, <1>3, <1>6, <2>2, StoreSupported
<1> QED
  BY <1>5, <1>6

\* The action is cached with an expiry that its knowledge supports.
LEMMA StoreCacheSupported ==
  ASSUME IInv, Later, HistoryTypeOK', now' = now, NEW h \in Handler, StoreCache(h)
  PROVE  HandlerOK(h)' /\ CacheSupported'
<1> DEFINE s == handler[h]
           key == <<s.qtype, s.name>>
           entry == [response |-> s.response, expires |-> now + DnsCache]
<1>1. s.pc = "store"
  BY DEF StoreCache
<1>2. /\ s \in HandlerState /\ s.name \in QueryName /\ s.qtype \in FilteredType
      /\ s.start \in Nat /\ s.start <= now /\ now <= s.start + MaxLag
  BY <1>1, DecidingFacts DEF HandlerState
<1>3. s.start <= Known(s.name, s.response)
  BY <1>1, Facts DEF SupportedOK
<1>4. s.start <= KnownNext(s.name, s.response)
  BY <1>2, <1>3, KnownLater DEF Never
<1>5. HandlerOK(h)'
  <2>1. handler'[h] = [s EXCEPT !.pc = "reply"]
    BY NewState DEF StoreCache
  <2>2. /\ handler'[h].pc = "reply" /\ handler'[h].response = s.response
        /\ SameRequest(h)
    BY <1>2, <2>1 DEF HandlerState, SameRequest
  <2>3. SupportedOK(handler[h])'
    BY <1>4, <2>2 DEF SupportedOK, Known, KnownNext, SameRequest
  <2> QED
    BY <2>2, <2>3, SameRequestTimely DEF HandlerOK
<1>6. CacheSupported'
  <2> SUFFICES ASSUME NEW t \in FilteredType, NEW n \in QueryName,
                      cache'[<<t, n>>] # NoEntry
               PROVE  Supported(n, cache[<<t, n>>].response, cache[<<t, n>>].expires)'
    BY DEF CacheSupported
  <2>1. <<t, n>> \in Key /\ key \in Key
    BY <1>2, Facts DEF Key
  <2>2. cache \in [Key -> CacheEntry \union {NoEntry}]
    BY DEF IInv, TypeInv, TypeOK, StoresTypeOK
  <2>3. CASE <<t, n>> = key
    <3>1. cache'[<<t, n>>] = entry /\ n = s.name
      BY <2>1, <2>2, <2>3 DEF StoreCache, CacheStore
    <3>2. /\ entry.expires <= now' + DnsCache
          /\ KnownNext(n, entry.response) # Never
          /\ entry.expires - DnsCache - MaxLag <= KnownNext(n, entry.response)
      BY <1>2, <1>4, <3>1, KnownLater, Facts DEF Never
    <3> QED
      BY <3>1, <3>2 DEF Supported, Known, KnownNext
  <2>4. CASE <<t, n>> # key
    <3>1. cache'[<<t, n>>] = cache[<<t, n>>] /\ cache[<<t, n>>] # NoEntry
      BY <2>1, <2>2, <2>4 DEF StoreCache, CacheStore
    <3>2. cache[<<t, n>>].expires \in Nat
      BY <2>1, <3>1, StoresTypes DEF IInv, CacheEntry
    <3>3. Supported(n, cache[<<t, n>>].response, cache[<<t, n>>].expires)
      BY <3>1 DEF IInv, CacheSupported
    <3>4. /\ cache[<<t, n>>].expires <= now' + DnsCache
          /\ KnownNext(n, cache[<<t, n>>].response) # Never
          /\ cache[<<t, n>>].expires - DnsCache - MaxLag
               <= KnownNext(n, cache[<<t, n>>].response)
      BY <3>2, <3>3, KnownLater, Facts DEF Supported, Never
    <3> QED
      BY <3>1, <3>4 DEF Supported, Known, KnownNext
  <2> QED
    BY <2>3, <2>4
<1> QED
  BY <1>5, <1>6

\* A handler that is done with its request.
LEMMA DoneSupported ==
  ASSUME IInv, NEW h \in Handler, Reply(h) \/ Exchange(h)
  PROVE  HandlerOK(h)'
<1>1. \/ handler'[h] = [IdleHandler EXCEPT !.pc = "exchange"]
      \/ handler'[h] = IdleHandler
  BY NewState DEF Reply, Exchange
<1>2. handler'[h].pc \in {"idle", "exchange"} /\ handler'[h].name = NoName
  BY <1>1 DEF IdleHandler
<1> QED
  BY <1>2, NothingToSupport DEF HandlerOK, TimelyOK

-----------------------------------------------------------------------------
(* Every step                                                              *)

LEMMA DNSKeepsIInv ==
  ASSUME IInv, TypeInv', HistoryTypeOK', HistoryExact', Later,
         NEW h \in Handler, DNS(h)
  PROVE  IInv'
<1>1. now' = now /\ UNCHANGED hosts
  BY DEF DNS, Arrive, HandlerStep, Receive, ReceiveOther, GetExact, GetLabel,
         CheckExpiry, GetCache, CheckFresh, GetHost, MatchRegexps, StoreCache,
         Reply, Exchange, stores
<1>2. now' \in Nat
  BY <1>1, Facts
<1>3. \A g \in Handler \ {h} : handler'[g] = handler[g]
  BY DEF DNS, Arrive, HandlerStep, Receive, ReceiveOther, GetExact, GetLabel,
         CheckExpiry, GetCache, CheckFresh, GetHost, MatchRegexps, StoreCache,
         Reply, Exchange, Goto, IInv, TypeInv, TypeOK, SrvDNSTypeOK
<1>4. HandlerOK(h)'
  BY <1>1, ArriveSupported, GetExactSupported, GetLabelSupported,
     CheckExpirySupported, GetCacheSupported, CheckFreshSupported,
     GetHostSupported, MatchRegexpsSupported, StoreCacheSupported, DoneSupported
     DEF DNS, HandlerStep
<1>5. CacheSupported'
  <2>1. CASE StoreCache(h)
    BY <1>1, <2>1, StoreCacheSupported
  <2>2. CASE ~StoreCache(h)
    <3>1. UNCHANGED cache
      BY <2>2 DEF DNS, Arrive, HandlerStep, Receive, ReceiveOther, GetExact,
                  GetLabel, CheckExpiry, GetCache, CheckFresh, GetHost,
                  MatchRegexps, Reply, Exchange, stores
    <3> QED
      BY <1>2, <3>1, CacheLater
  <2> QED
    BY <2>1, <2>2
<1>6. ASSUME NEW g \in Handler \ {h}
      PROVE  TimelyOK(handler[g])' /\ SupportedOK(handler[g])'
  <2>1. handler'[g] = handler[g]
    BY <1>3
  <2>2. SupportedOK(handler[g])'
    BY <1>1, <1>2, <2>1, BystanderSupported
  <2> QED
    BY <1>1, <2>1, <2>2, Facts DEF TimelyOK
<1> QED
  BY <1>4, <1>5, <1>6 DEF IInv, HandlerOK

\* A step that moves no handler.
LEMMA EnvironmentKeepsIInv ==
  ASSUME IInv, TypeInv', HistoryTypeOK', HistoryExact', Later, UNCHANGED handler,
         \A k \in Key : cache'[k] = cache[k] \/ cache'[k] = NoEntry,
         UNCHANGED hosts \/ (Loading /\ now' = now),
         UNCHANGED now \/ Tick
  PROVE  IInv'
<1>1. now' \in Nat
  BY DEF TypeInv, TypeOK, StoresTypeOK
<1>2. CacheSupported'
  BY <1>1, CacheLater
<1>3. ASSUME NEW g \in Handler
      PROVE  TimelyOK(handler[g])' /\ SupportedOK(handler[g])'
  <2>1. handler'[g] = handler[g] /\ handler[g] \in HandlerState /\ ShapeOK(handler[g])
        /\ TimelyOK(handler[g])
    BY Facts
  <2>2. UNCHANGED hosts \/ (InProgress(g) => OpenSince(handler[g]))
    <3>1. ASSUME Loading, InProgress(g) PROVE OpenSince(handler[g])
      <4>1. handler[g].name \in QueryName /\ Open(handler[g].name)
        BY <2>1, <3>1 DEF ShapeOK, InProgress, Open
      <4>2. lastOpen[handler[g].name] = now
        BY <4>1 DEF IInv, HistoryExact
      <4> QED
        BY <2>1, <3>1, <4>2 DEF OpenSince, TimelyOK, InProgress
    <3> QED
      BY <3>1
  <2>3. SupportedOK(handler[g])'
    BY <1>1, <2>1, <2>2, BystanderSupported
  <2>4. TimelyOK(handler[g])'
    <3>1. CASE UNCHANGED now
      BY <2>1, <3>1 DEF TimelyOK
    <3>2. CASE Tick
      <4>1. handler[g].name # NoName => Deciding(g)
        BY <2>1 DEF ShapeOK, Deciding
      <4>2. handler[g].start \in Nat
        BY <2>1 DEF HandlerState
      <4> QED
        BY <2>1, <3>2, <4>1, <4>2, Facts DEF TimelyOK, Tick
    <3> QED
      BY <3>1, <3>2
  <2> QED
    BY <2>3, <2>4
<1> QED
  BY <1>2, <1>3 DEF IInv

LEMMA HNextKeepsIInv == IInv /\ [HNext]_hvars => IInv'
<1> SUFFICES ASSUME IInv, [HNext]_hvars
             PROVE  IInv'
  OBVIOUS
<1>1. CASE UNCHANGED hvars
  BY <1>1 DEF IInv, TypeInv, TypeOK, HistoryTypeOK, HistoryExact, CacheSupported,
              Supported, Known, TimelyOK, SupportedOK, OpenSince, Open, Blocked,
              Live, Loading, InHosts, MatchesAny, StoresTypeOK, SrvDNSTypeOK,
              SrvHTTPTypeOK, hvars, history, vars, stores
<1>2. CASE HNext
  <2>1. TypeInv'
    BY <1>2, NextKeepsTypeInv DEF IInv, HNext
  <2>2. now' \in {now, now + 1}
    BY <1>2, NextClock DEF HNext, Tick
  <2>3. HistoryTypeOK' /\ HistoryExact' /\ Later
    BY <1>2, <2>2, HistoryLater DEF HNext
  <2>4. ASSUME NEW h \in Handler, DNS(h) PROVE IInv'
    BY <2>1, <2>3, <2>4, DNSKeepsIInv
  <2>5. CASE Janitor
    <3>1. \A k \in Key : cache'[k] = cache[k] \/ cache'[k] = NoEntry
      BY <2>5, PurgeExpiredShrinks DEF Janitor
    <3> QED
      BY <2>1, <2>3, <2>5, <3>1, EnvironmentKeepsIInv DEF Janitor, PurgeExpired
  <2>6. CASE HTTP
    <3>1. \A k \in Key : cache'[k] = cache[k] \/ cache'[k] = NoEntry
      BY <2>6 DEF HTTP, SrvHTTPNext, AllowStore, AllowUncache, CacheDelete
    <3>2. UNCHANGED <<now, hosts, handler>>
      BY <2>6 DEF HTTP, SrvHTTPNext, AllowStore, AllowUncache
    <3> QED
      BY <2>1, <2>3, <3>1, <3>2, EnvironmentKeepsIInv
  <2>7. CASE Ctl
    <3>1. \A k \in Key : cache'[k] = cache[k] \/ cache'[k] = NoEntry
      BY <2>7 DEF Ctl, CacheFlush, OverrideFlush, CachePurge
    <3>2. UNCHANGED <<now, hosts, handler>>
      BY <2>7 DEF Ctl, CacheFlush, OverrideFlush
    <3> QED
      BY <2>1, <2>3, <3>1, <3>2, EnvironmentKeepsIInv
  <2>8. CASE Load
    <3>1. Loading /\ UNCHANGED <<now, cache, handler>>
      BY <2>8 DEF Load
    <3> QED
      BY <2>1, <2>3, <3>1, EnvironmentKeepsIInv
  <2>9. CASE Tick
    <3>1. UNCHANGED <<hosts, cache, handler>>
      BY <2>9 DEF Tick
    <3> QED
      BY <2>1, <2>3, <2>9, <3>1, EnvironmentKeepsIInv
  <2> QED
    BY <1>2, <2>4, <2>5, <2>6, <2>7, <2>8, <2>9 DEF HNext, Next
<1> QED
  BY <1>1, <1>2

LEMMA HInitIInv == HInit => IInv
<1> SUFFICES ASSUME HInit PROVE IInv
  OBVIOUS
<1>1. TypeInv
  BY InitTypeInv DEF HInit
<1>2. now = 0 /\ \A k \in Key : cache[k] = NoEntry
  BY DEF HInit, Init, StoresInit
<1>3. \A h \in Handler : handler[h] = IdleHandler
  BY DEF HInit, Init, SrvDNSInit
<1>4. HistoryTypeOK /\ HistoryExact
  BY <1>2 DEF HInit, HistoryInit, HistoryTypeOK, HistoryExact, Never
<1>5. CacheSupported
  BY <1>2, SrvDNSAssumption DEF CacheSupported, Key
<1>6. \A h \in Handler : TimelyOK(handler[h]) /\ SupportedOK(handler[h])
  BY <1>3 DEF TimelyOK, SupportedOK, IdleHandler
<1> QED
  BY <1>1, <1>4, <1>5, <1>6 DEF IInv

THEOREM IInvInvariant == HSpec => []IInv
BY HInitIInv, HNextKeepsIInv, PTL DEF HSpec

\* The types hold with the history variables, too.
THEOREM HTypeCorrect == HSpec => []HTypeOK
<1>1. IInv => HTypeOK
  BY DEF IInv, TypeInv, HTypeOK
<1> QED
  BY <1>1, IInvInvariant, PTL

-----------------------------------------------------------------------------
(* The theorems                                                            *)

\* What is known about the name of a handler that has decided.
LEMMA DecisionBound ==
  ASSUME IInv, NEW h \in Handler, handler[h].pc = "reply"
  PROVE  LET k == Known(handler[h].name, handler[h].response)
         IN  k # Never /\ now - k <= StalenessBound
<1> DEFINE s == handler[h]
           k == Known(s.name, s.response)
<1>1. /\ s \in HandlerState /\ ShapeOK(s) /\ TimelyOK(s) /\ SupportedOK(s)
  BY Facts
<1>2. /\ s.name \in QueryName /\ s.name # NoName
  BY <1>1 DEF ShapeOK
<1>3. k \in Nat \union {Never}
  BY <1>2, Facts DEF Known
<1>4. s.start \in Nat /\ s.start <= now /\ now <= s.start + MaxLag
  BY <1>1, <1>2 DEF HandlerState, TimelyOK
<1>5. \/ s.start <= k
      \/ DnsCache > 0 /\ k # Never /\ s.start + 1 - DnsCache - MaxLag <= k
  BY <1>1 DEF SupportedOK
<1> HIDE DEF k
<1>6. k # Never /\ now - k <= StalenessBound
  BY <1>3, <1>4, <1>5, Facts DEF StalenessBound, Never
<1> QED
  BY <1>6 DEF k

\* A name is forwarded only if the lists or an override left it free at most
\* StalenessBound seconds ago.
THEOREM ForwardedOnlyIfRecentlyOpenHolds == HSpec => []ForwardedOnlyIfRecentlyOpen
<1>1. IInv => ForwardedOnlyIfRecentlyOpen
  BY DecisionBound DEF ForwardedOnlyIfRecentlyOpen, Decided, Known
<1> QED
  BY <1>1, IInvInvariant, PTL

\* A name is spoofed or answered empty only if a block list held it at most
\* StalenessBound seconds ago.
THEOREM SpoofedOnlyIfRecentlyBlockedHolds == HSpec => []SpoofedOnlyIfRecentlyBlocked
<1>1. IInv => SpoofedOnlyIfRecentlyBlocked
  BY DecisionBound DEF SpoofedOnlyIfRecentlyBlocked, Decided, Known,
                       reponseForward, reponseSpoof, reponseEmpty
<1> QED
  BY <1>1, IInvInvariant, PTL

-----------------------------------------------------------------------------
(* The server implements Filter                                            *)

\* The variables of Filter, as the server shows them.
asking == [h \in Handler |-> handler[h].name]
passed == {h \in Handler : handler[h].pc = "exchange"}

\* A step that changes neither the name nor the phase of any handler is one of
\* the world alone.
LEMMA HandlersUnchanged ==
  ASSUME \A h \in Handler : /\ handler'[h].name = handler[h].name
                            /\ handler'[h].pc = "exchange" <=> handler[h].pc = "exchange"
  PROVE  asking' = asking /\ passed' = passed
BY DEF asking, passed

\* A step of one handler changes its own entry only.
LEMMA HandlerChanged ==
  ASSUME NEW h \in Handler, \A g \in Handler \ {h} : handler'[g] = handler[g]
  PROVE  /\ asking' = [asking EXCEPT ![h] = handler'[h].name]
         /\ handler'[h].pc = "exchange" => passed' = passed \union {h}
         /\ handler'[h].pc # "exchange" => passed' = passed \ {h}
BY DEF asking, passed

LEMMA WorldStep ==
  ASSUME IInv, HNext
  PROVE  F!World
<1>1. now' \in {now, now + 1}
  BY NextClock DEF HNext, Tick
<1> QED
  BY <1>1 DEF F!World, HNext, HistoryStep

\* The handler's own step, seen by its client.
LEMMA DNSImplementsFilter ==
  ASSUME IInv, HNext, NEW h \in Handler, DNS(h)
  PROVE  F!Next
<1> DEFINE s == handler[h]
<1>1. s \in HandlerState /\ ShapeOK(s) /\ SrvDNSTypeOK
  BY Facts DEF IInv, TypeInv, TypeOK
<1>2. asking[h] = s.name /\ (h \in passed <=> s.pc = "exchange")
  BY DEF asking, passed
<1>3. F!World
  BY WorldStep
<1>4. \A g \in Handler \ {h} : handler'[g] = handler[g]
  BY <1>1 DEF DNS, Arrive, HandlerStep, Receive, ReceiveOther, GetExact, GetLabel,
         CheckExpiry, GetCache, CheckFresh, GetHost, MatchRegexps, StoreCache,
         Reply, Exchange, Goto, SrvDNSTypeOK
<1>5. /\ asking' = [asking EXCEPT ![h] = handler'[h].name]
      /\ handler'[h].pc = "exchange" => passed' = passed \union {h}
      /\ handler'[h].pc # "exchange" => passed' = passed \ {h}
  BY <1>4, HandlerChanged
<1>6. ASSUME NEW n \in QueryName, NEW t \in QueryType, Receive(h, n, t)
      PROVE  F!Ask(h, n)
  <2>1. handler'[h].name = n /\ handler'[h].pc = "exact" /\ s.pc = "idle"
    BY <1>1, <1>6, NewState DEF Receive, IdleHandler
  <2>2. s.name = NoName
    BY <1>1, <2>1 DEF ShapeOK
  <2> QED
    BY <1>2, <1>5, <2>1, <2>2 DEF F!Ask, asking, passed
<1>7. ASSUME ReceiveOther(h)
      PROVE  F!AskOther(h)
  <2>1. handler'[h].name = NoName /\ handler'[h].pc = "exchange" /\ s.pc = "idle"
    BY <1>1, <1>7, NewState DEF ReceiveOther, IdleHandler
  <2>2. s.name = NoName
    BY <1>1, <2>1 DEF ShapeOK
  <2>3. asking' = asking
    BY <1>2, <1>5, <2>1, <2>2 DEF asking
  <2> QED
    BY <1>2, <1>5, <2>1, <2>2, <2>3 DEF F!AskOther, asking, passed
<1>8. ASSUME Reply(h)
      PROVE  F!Pass(h) \/ F!Block(h)
  <2>1. s.pc = "reply" /\ s.name # NoName /\ s.response \in Response
    BY <1>1, <1>8 DEF Reply, ShapeOK
  <2>2. /\ Known(s.name, s.response) # Never
        /\ now - Known(s.name, s.response) <= StalenessBound
    BY <2>1, DecisionBound
  <2>3. CASE s.response = reponseForward /\ Goto(h, [IdleHandler EXCEPT !.pc = "exchange"])
    <3>1. handler'[h].name = NoName /\ handler'[h].pc = "exchange"
      BY <2>3, NewState DEF IdleHandler
    <3>2. F!Recent(lastOpen[s.name])
      BY <2>2, <2>3 DEF F!Recent, Known, Never
    <3> QED
      BY <1>2, <1>5, <2>1, <3>1, <3>2 DEF F!Pass, asking, passed
  <2>4. CASE s.response # reponseForward /\ Goto(h, IdleHandler)
    <3>1. handler'[h].name = NoName /\ handler'[h].pc = "idle"
      BY <2>4, NewState DEF IdleHandler
    <3>2. F!Recent(lastBlocked[s.name])
      BY <2>2, <2>4 DEF F!Recent, Known, Never
    <3>3. passed' = passed
      BY <1>2, <1>5, <2>1, <3>1
    <3> QED
      BY <1>2, <1>5, <2>1, <3>1, <3>2, <3>3 DEF F!Block, asking, passed
  <2> QED
    BY <1>8, <2>3, <2>4 DEF Reply
<1>9. ASSUME Exchange(h)
      PROVE  F!Answer(h)
  <2>1. s.pc = "exchange" /\ handler'[h].name = NoName /\ handler'[h].pc = "idle"
    BY <1>9, NewState DEF Exchange, IdleHandler
  <2>2. s.name = NoName
    BY <1>1, <2>1 DEF ShapeOK
  <2>3. asking' = asking
    BY <1>2, <1>5, <2>1, <2>2 DEF asking
  <2> QED
    BY <1>2, <1>5, <2>1, <2>3 DEF F!Answer, asking, passed
<1>10. ASSUME \/ GetExact(h) \/ GetLabel(h) \/ CheckExpiry(h) \/ GetCache(h)
              \/ CheckFresh(h) \/ GetHost(h) \/ MatchRegexps(h) \/ StoreCache(h)
       PROVE  asking' = asking /\ passed' = passed
  <2>1. s.pc # "exchange"
    BY <1>10 DEF GetExact, GetLabel, CheckExpiry, GetCache, CheckFresh, GetHost,
                 MatchRegexps, StoreCache
  <2>2. handler'[h].name = s.name /\ handler'[h].pc # "exchange"
    <3>1. ASSUME NEW b \in BOOLEAN, Goto(h, Returned(s, b))
          PROVE  handler'[h].name = s.name /\ handler'[h].pc # "exchange"
      BY <1>1, <3>1, NewState DEF Returned, HandlerState
    <3>2. ASSUME Goto(h, Determine(s))
          PROVE  handler'[h].name = s.name /\ handler'[h].pc # "exchange"
      BY <1>1, <3>2, NewState DEF Determine, HandlerState
    <3>3. CASE GetExact(h) \/ GetLabel(h)
      BY <1>1, <3>1, <3>3, NewState DEF GetExact, GetLabel, HandlerState
    <3>4. CASE CheckExpiry(h)
      BY <3>1, <3>4 DEF CheckExpiry
    <3>5. CASE GetCache(h)
      <4>1. CASE Goto(h, [s EXCEPT !.pc = "fresh",
                                   !.expires = cache[<<s.qtype, s.name>>].expires,
                                   !.response = cache[<<s.qtype, s.name>>].response])
        BY <1>1, <4>1, NewState DEF HandlerState
      <4> QED
        BY <3>2, <3>5, <4>1 DEF GetCache
    <3>8. CASE CheckFresh(h)
      BY <1>1, <3>2, <3>8, NewState DEF CheckFresh, HandlerState
    <3>6. CASE GetHost(h)
      BY <1>1, <3>6, NewState DEF GetHost, HandlerState
    <3>7. CASE MatchRegexps(h) \/ StoreCache(h)
      BY <1>1, <3>7, NewState DEF MatchRegexps, StoreCache, HandlerState
    <3> QED
      BY <1>10, <3>3, <3>4, <3>5, <3>6, <3>7, <3>8
  <2> QED
    BY <1>4, <2>1, <2>2, HandlersUnchanged
<1> QED
  BY <1>3, <1>6, <1>7, <1>8, <1>9, <1>10
     DEF F!Next, DNS, Arrive, HandlerStep, asking, passed

LEMMA StepImplementsFilter ==
  ASSUME IInv, [HNext]_hvars
  PROVE  [F!Next]_(F!vars)
<1>1. CASE UNCHANGED hvars
  BY <1>1 DEF F!vars, hvars, history, vars, stores
<1>2. CASE HNext
  <2>1. ASSUME NEW h \in Handler, DNS(h) PROVE F!Next
    BY <1>2, <2>1, DNSImplementsFilter
  <2>2. CASE Janitor \/ HTTP \/ Ctl \/ Load \/ Tick
    <3>1. UNCHANGED handler
      BY <2>2 DEF Janitor, PurgeExpired, HTTP, Ctl, Load, Tick
    <3> QED
      BY <1>2, <3>1, WorldStep DEF F!Next
  <2> QED
    BY <1>2, <2>1, <2>2 DEF HNext, Next
<1> QED
  BY <1>1, <1>2

LEMMA InitImplementsFilter == HInit => F!Init
<1> SUFFICES ASSUME HInit PROVE F!Init
  OBVIOUS
<1>1. now = 0 /\ handler = [h \in Handler |-> IdleHandler]
  BY DEF HInit, Init, StoresInit, SrvDNSInit
<1>2. \A n \in QueryName : lastOpen[n] \in {-1, 0} /\ lastBlocked[n] \in {-1, 0}
  BY <1>1 DEF HInit, HistoryInit, Never
<1> QED
  BY <1>1, <1>2 DEF F!Init, IdleHandler

\* The cache, the rounds over overrides and labels, the janitor, the flushes
\* and the loading of the lists are invisible to clients but for a decision
\* that is at most StalenessBound seconds old.
THEOREM ImplementsFilter == HSpec => FilterSpec
<1>1. IInv /\ [HNext]_hvars => [F!Next]_(F!vars)
  BY StepImplementsFilter
<1> QED
  BY <1>1, InitImplementsFilter, IInvInvariant, PTL DEF HSpec, FilterSpec, F!Spec

=============================================================================
