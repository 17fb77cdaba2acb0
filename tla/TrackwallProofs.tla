--------------------------- MODULE TrackwallProofs ---------------------------
(***************************************************************************)
(* What TLAPS proves of the server, for every number of handlers, every    *)
(* set of names, every block list and every cache-dns: types, and the      *)
(* bound on how old the knowledge behind a decision can be.                *)
(***************************************************************************)
EXTENDS TrackwallHistory, NameLemmas, FiniteSetTheorems

-----------------------------------------------------------------------------
(* Types                                                                   *)

\* A handler has a name exactly while it is deciding, and then one of those
\* clients ask for; the loops stay within its labels; a response that is going
\* to be used is one of the three.
ShapeOK(s) ==
  /\ s.name \in QueryName \union {NoName}
  /\ s.name = NoName <=> s.pc \in {"idle", "exchange"}
  /\ s.pc \in {"label", "hosts"} => s.i \in 1..Len(s.name)
  /\ s.pc \in {"fresh", "store", "reply"} => s.response \in Response

TypeInv == TypeOK /\ \A h \in Handler : ShapeOK(handler[h])

\* The length of a name, and the names its loops visit.
LEMMA NameFacts ==
  ASSUME NEW n \in Name
  PROVE  /\ n # NoName
         /\ Len(n) \in Nat \ {0}
         /\ \A i \in 1..Len(n) : Suffix(n, i) \in Name
BY NameAssumption DEF NoName, Suffix

\* One handler changes state, the others do not.
LEMMA GotoEffect ==
  ASSUME SrvDNSTypeOK, NEW h \in Handler, NEW state \in HandlerState,
         Goto(h, state)
  PROVE  /\ SrvDNSTypeOK'
         /\ handler'[h] = state
         /\ \A g \in Handler \ {h} : handler'[g] = handler[g]
BY DEF SrvDNSTypeOK, Goto

\* A new state of a handler keeps the types if it has the right form.
LEMMA GotoKeepsTypeInv ==
  ASSUME TypeInv, NEW h \in Handler, NEW state \in HandlerState,
         ShapeOK(state), Goto(h, state)
  PROVE  SrvDNSTypeOK' /\ \A g \in Handler : ShapeOK(handler'[g])
<1>1. SrvDNSTypeOK
  BY DEF TypeInv, TypeOK
<1>2. /\ SrvDNSTypeOK' /\ handler'[h] = state
      /\ \A g \in Handler \ {h} : handler'[g] = handler[g]
  BY <1>1, GotoEffect
<1>3. \A g \in Handler : ShapeOK(handler[g])
  BY DEF TypeInv
<1> QED
  BY <1>2, <1>3

\* The states of a handler in the type invariant.
LEMMA HandlerType ==
  ASSUME TypeInv, NEW h \in Handler
  PROVE  handler[h] \in HandlerState /\ ShapeOK(handler[h])
BY DEF TypeInv, TypeOK, SrvDNSTypeOK

\* checkOverride returns to its caller in a state of the right form.
LEMMA ReturnedType ==
  ASSUME NEW s \in HandlerState, s.name \in QueryName, NEW b \in BOOLEAN
  PROVE  Returned(s, b) \in HandlerState /\ ShapeOK(Returned(s, b))
<1>1. s.name \in Name /\ s.name # NoName /\ Len(s.name) \in Nat \ {0}
  BY SrvDNSAssumption, NameFacts
<1>2. Returned(s, b) \in HandlerState
  BY DEF Returned, HandlerState, PC, Response, reponseForward, reponseSpoof,
         reponseEmpty
<1>3. ShapeOK(Returned(s, b))
  BY <1>1 DEF Returned, HandlerState, ShapeOK, Response, reponseForward,
              reponseSpoof, reponseEmpty
<1> QED
  BY <1>2, <1>3

\* determineResponse starts in a state of the right form.
LEMMA DetermineType ==
  ASSUME NEW s \in HandlerState, s.name \in QueryName
  PROVE  Determine(s) \in HandlerState /\ ShapeOK(Determine(s))
<1>1. s.name # NoName
  BY SrvDNSAssumption, NameFacts
<1> QED
  BY <1>1 DEF Determine, HandlerState, ShapeOK, PC

\* The entries of the lists have the types a handler copies them with.
LEMMA StoresTypes ==
  ASSUME TypeInv
  PROVE  /\ now \in Nat
         /\ \A n \in Name : override[n] \in Nat \union {Absent}
         /\ \A k \in Key : cache[k] \in CacheEntry \union {NoEntry}
BY DEF TypeInv, TypeOK, StoresTypeOK

-----------------------------------------------------------------------------
(* Every step of a handler keeps the types                                 *)

LEMMA ReceiveKeepsTypeInv ==
  ASSUME TypeInv, NEW h \in Handler, NEW n \in QueryName, NEW t \in QueryType,
         Receive(h, n, t), UNCHANGED <<allowing, loaded>>
  PROVE  TypeInv'
<1> DEFINE state == [IdleHandler EXCEPT !.pc = "exact", !.name = n,
                                        !.qtype = t, !.start = now]
<1>1. n \in Name /\ n # NoName /\ t \in FilteredType
  BY SrvDNSAssumption, NameFacts
<1>2. state \in HandlerState /\ ShapeOK(state)
  BY <1>1, StoresTypes DEF HandlerState, ShapeOK, IdleHandler, PC
<1>3. Goto(h, state)
  BY DEF Receive
<1>4. SrvDNSTypeOK' /\ \A g \in Handler : ShapeOK(handler'[g])
  BY <1>2, <1>3, GotoKeepsTypeInv
<1> QED
  BY <1>4 DEF TypeInv, TypeOK, Receive, stores, StoresTypeOK, SrvHTTPTypeOK

LEMMA ReceiveOtherKeepsTypeInv ==
  ASSUME TypeInv, NEW h \in Handler,
         ReceiveOther(h), UNCHANGED <<allowing, loaded>>
  PROVE  TypeInv'
<1> DEFINE state == [IdleHandler EXCEPT !.pc = "exchange"]
<1>1. state \in HandlerState /\ ShapeOK(state)
  BY DEF HandlerState, ShapeOK, IdleHandler, PC, NoName, FilteredType
<1>2. Goto(h, state)
  BY DEF ReceiveOther
<1>3. SrvDNSTypeOK' /\ \A g \in Handler : ShapeOK(handler'[g])
  BY <1>1, <1>2, GotoKeepsTypeInv
<1> QED
  BY <1>3 DEF TypeInv, TypeOK, ReceiveOther, stores, StoresTypeOK, SrvHTTPTypeOK

LEMMA GetExactKeepsTypeInv ==
  ASSUME TypeInv, NEW h \in Handler,
         GetExact(h), UNCHANGED <<allowing, loaded>>
  PROVE  TypeInv'
<1> DEFINE s == handler[h]
           e == override[s.name]
<1>1. s \in HandlerState /\ ShapeOK(s) /\ s.pc = "exact"
  BY HandlerType DEF GetExact
<1>2. s.name \in QueryName /\ s.name \in Name /\ s.name # NoName
  BY <1>1, SrvDNSAssumption, NameFacts DEF ShapeOK
<1>3. e \in Nat \union {Absent} /\ Len(s.name) \in Nat \ {0}
  BY <1>2, StoresTypes, NameFacts
<1>4. PICK state \in HandlerState : ShapeOK(state) /\ Goto(h, state)
  <2>1. CASE e # Absent /\ Goto(h, [s EXCEPT !.pc = "expiry", !.expires = e])
    <3> DEFINE state == [s EXCEPT !.pc = "expiry", !.expires = e]
    <3>1. state \in HandlerState /\ ShapeOK(state)
      BY <1>1, <1>2, <1>3, <2>1 DEF HandlerState, ShapeOK, PC
    <3> QED
      BY <2>1, <3>1
  <2>2. CASE e = Absent /\ Goto(h, [s EXCEPT !.pc = "label", !.i = 1])
    <3> DEFINE state == [s EXCEPT !.pc = "label", !.i = 1]
    <3>1. state \in HandlerState /\ state.name = s.name /\ state.pc = "label"
          /\ state.i = 1
      BY <1>1 DEF HandlerState, PC
    <3>2. ShapeOK(state)
      BY <1>2, <1>3, <3>1 DEF ShapeOK
    <3> QED
      BY <2>2, <3>1, <3>2
  <2> QED
    BY <2>1, <2>2 DEF GetExact
<1>5. SrvDNSTypeOK' /\ \A g \in Handler : ShapeOK(handler'[g])
  BY <1>4, GotoKeepsTypeInv
<1> QED
  BY <1>5 DEF TypeInv, TypeOK, GetExact, stores, StoresTypeOK, SrvHTTPTypeOK

LEMMA GetLabelKeepsTypeInv ==
  ASSUME TypeInv, NEW h \in Handler,
         GetLabel(h), UNCHANGED <<allowing, loaded>>
  PROVE  TypeInv'
<1> DEFINE s == handler[h]
           e == override[Suffix(s.name, s.i)]
<1>1. s \in HandlerState /\ ShapeOK(s) /\ s.pc = "label"
  BY HandlerType DEF GetLabel
<1>2. /\ s.name \in QueryName /\ s.name \in Name /\ s.name # NoName
      /\ s.i \in 1..Len(s.name)
  BY <1>1, SrvDNSAssumption, NameFacts DEF ShapeOK
<1>3. e \in Nat \union {Absent} /\ Len(s.name) \in Nat \ {0}
  BY <1>2, StoresTypes, NameFacts
<1>4. PICK state \in HandlerState : ShapeOK(state) /\ Goto(h, state)
  <2>1. CASE e # Absent /\ Goto(h, [s EXCEPT !.pc = "expiry", !.expires = e])
    <3> DEFINE state == [s EXCEPT !.pc = "expiry", !.expires = e]
    <3>1. state \in HandlerState /\ ShapeOK(state)
      BY <1>1, <1>2, <1>3, <2>1 DEF HandlerState, ShapeOK, PC
    <3> QED
      BY <2>1, <3>1
  <2>2. CASE s.i < Len(s.name) /\ Goto(h, [s EXCEPT !.i = @ + 1])
    <3> DEFINE state == [s EXCEPT !.i = @ + 1]
    <3>1. state \in HandlerState /\ ShapeOK(state)
      BY <1>1, <1>2, <1>3, <2>2 DEF HandlerState, ShapeOK
    <3> QED
      BY <2>2, <3>1
  <2>3. CASE Goto(h, Returned(s, FALSE))
    BY <1>1, <1>2, <2>3, ReturnedType
  <2> QED
    BY <2>1, <2>2, <2>3 DEF GetLabel
<1>5. SrvDNSTypeOK' /\ \A g \in Handler : ShapeOK(handler'[g])
  BY <1>4, GotoKeepsTypeInv
<1> QED
  BY <1>5 DEF TypeInv, TypeOK, GetLabel, stores, StoresTypeOK, SrvHTTPTypeOK

LEMMA CheckExpiryKeepsTypeInv ==
  ASSUME TypeInv, NEW h \in Handler,
         CheckExpiry(h), UNCHANGED <<allowing, loaded>>
  PROVE  TypeInv'
<1> DEFINE s == handler[h]
<1>1. s \in HandlerState /\ ShapeOK(s) /\ s.pc = "expiry"
  BY HandlerType DEF CheckExpiry
<1>2. s.name \in QueryName
  BY <1>1 DEF ShapeOK
<1>3. PICK state \in HandlerState : ShapeOK(state) /\ Goto(h, state)
  BY <1>1, <1>2, ReturnedType DEF CheckExpiry
<1>4. SrvDNSTypeOK' /\ \A g \in Handler : ShapeOK(handler'[g])
  BY <1>3, GotoKeepsTypeInv
<1>5. override' \in [Name -> Nat \union {Absent}]
  BY DEF TypeInv, TypeOK, StoresTypeOK, CheckExpiry, OverrideDelete
<1> QED
  BY <1>4, <1>5 DEF TypeInv, TypeOK, CheckExpiry, StoresTypeOK, SrvHTTPTypeOK

LEMMA GetCacheKeepsTypeInv ==
  ASSUME TypeInv, NEW h \in Handler,
         GetCache(h), UNCHANGED <<allowing, loaded>>
  PROVE  TypeInv'
<1> DEFINE s == handler[h]
           entry == cache[<<s.qtype, s.name>>]
<1>1. s \in HandlerState /\ ShapeOK(s) /\ s.pc = "cache"
  BY HandlerType DEF GetCache
<1>2. s.name \in QueryName /\ s.name \in Name /\ s.name # NoName
  BY <1>1, SrvDNSAssumption, NameFacts DEF ShapeOK
<1>3. <<s.qtype, s.name>> \in Key
  BY <1>1, <1>2 DEF HandlerState, Key
<1>4. entry \in CacheEntry \union {NoEntry}
  BY <1>3, StoresTypes
<1>5. PICK state \in HandlerState : ShapeOK(state) /\ Goto(h, state)
  <2> DEFINE state == [s EXCEPT !.pc = "fresh", !.expires = entry.expires,
                                !.response = entry.response]
  <2>1. CASE entry # NoEntry /\ Goto(h, state)
    <3>1. entry \in CacheEntry
      BY <1>4, <2>1
    <3>2. state \in HandlerState /\ ShapeOK(state)
      BY <1>1, <1>2, <3>1 DEF HandlerState, ShapeOK, PC, CacheEntry
    <3> QED
      BY <2>1, <3>2
  <2>2. CASE Goto(h, Determine(s))
    BY <1>1, <1>2, <2>2, DetermineType
  <2> QED
    BY <2>1, <2>2 DEF GetCache
<1>6. SrvDNSTypeOK' /\ \A g \in Handler : ShapeOK(handler'[g])
  BY <1>5, GotoKeepsTypeInv
<1> QED
  BY <1>6 DEF TypeInv, TypeOK, GetCache, stores, StoresTypeOK, SrvHTTPTypeOK

LEMMA CheckFreshKeepsTypeInv ==
  ASSUME TypeInv, NEW h \in Handler,
         CheckFresh(h), UNCHANGED <<allowing, loaded>>
  PROVE  TypeInv'
<1> DEFINE s == handler[h]
<1>1. s \in HandlerState /\ ShapeOK(s) /\ s.pc = "fresh"
  BY HandlerType DEF CheckFresh
<1>2. s.name \in QueryName /\ s.name # NoName
  BY <1>1 DEF ShapeOK
<1>3. PICK state \in HandlerState : ShapeOK(state) /\ Goto(h, state)
  <2> DEFINE state == [s EXCEPT !.pc = "reply", !.expires = 0]
  <2>1. CASE Goto(h, state)
    <3>1. state \in HandlerState /\ ShapeOK(state)
      BY <1>1, <1>2 DEF HandlerState, ShapeOK, PC
    <3> QED
      BY <2>1, <3>1
  <2>2. CASE Goto(h, Determine(s))
    BY <1>1, <1>2, <2>2, DetermineType
  <2> QED
    BY <2>1, <2>2 DEF CheckFresh
<1>4. SrvDNSTypeOK' /\ \A g \in Handler : ShapeOK(handler'[g])
  BY <1>3, GotoKeepsTypeInv
<1> QED
  BY <1>4 DEF TypeInv, TypeOK, CheckFresh, stores, StoresTypeOK, SrvHTTPTypeOK

LEMMA GetHostKeepsTypeInv ==
  ASSUME TypeInv, NEW h \in Handler,
         GetHost(h), UNCHANGED <<allowing, loaded>>
  PROVE  TypeInv'
<1> DEFINE s == handler[h]
<1>1. s \in HandlerState /\ ShapeOK(s) /\ s.pc = "hosts"
  BY HandlerType DEF GetHost
<1>2. /\ s.name \in QueryName /\ s.name # NoName /\ s.i \in 1..Len(s.name)
      /\ Len(s.name) \in Nat \ {0}
  BY <1>1, SrvDNSAssumption, NameFacts DEF ShapeOK
<1>3. BlockResponse(s.qtype) \in Response
  BY DEF BlockResponse, Response
<1>4. PICK state \in HandlerState : ShapeOK(state) /\ Goto(h, state)
  <2> DEFINE hitState == [s EXCEPT !.pc = "store", !.i = 0,
                                   !.response = BlockResponse(s.qtype)]
             nextState == [s EXCEPT !.i = @ + 1]
             endState == [s EXCEPT !.pc = "regexps", !.i = 0]
  <2>1. CASE Goto(h, hitState)
    <3>1. hitState \in HandlerState /\ ShapeOK(hitState)
      BY <1>1, <1>2, <1>3 DEF HandlerState, ShapeOK, PC
    <3> QED
      BY <2>1, <3>1
  <2>2. CASE s.i < Len(s.name) /\ Goto(h, nextState)
    <3>1. nextState \in HandlerState /\ ShapeOK(nextState)
      BY <1>1, <1>2, <2>2 DEF HandlerState, ShapeOK
    <3> QED
      BY <2>2, <3>1
  <2>3. CASE Goto(h, endState)
    <3>1. endState \in HandlerState /\ ShapeOK(endState)
      BY <1>1, <1>2 DEF HandlerState, ShapeOK, PC
    <3> QED
      BY <2>3, <3>1
  <2> QED
    BY <2>1, <2>2, <2>3 DEF GetHost
<1>5. SrvDNSTypeOK' /\ \A g \in Handler : ShapeOK(handler'[g])
  BY <1>4, GotoKeepsTypeInv
<1> QED
  BY <1>5 DEF TypeInv, TypeOK, GetHost, stores, StoresTypeOK, SrvHTTPTypeOK

LEMMA MatchRegexpsKeepsTypeInv ==
  ASSUME TypeInv, NEW h \in Handler,
         MatchRegexps(h), UNCHANGED <<allowing, loaded>>
  PROVE  TypeInv'
<1> DEFINE s == handler[h]
           r == IF MatchesAny(regexps, s.name) THEN BlockResponse(s.qtype)
                                               ELSE reponseForward
           state == [s EXCEPT !.pc = "store", !.response = r]
<1>1. s \in HandlerState /\ ShapeOK(s) /\ s.pc = "regexps"
  BY HandlerType DEF MatchRegexps
<1>2. r \in Response
  BY DEF BlockResponse, Response
<1>3. state \in HandlerState /\ ShapeOK(state)
  <2> HIDE DEF r
  <2> QED
    BY <1>1, <1>2 DEF HandlerState, ShapeOK, PC
<1>4. Goto(h, state)
  BY DEF MatchRegexps
<1>5. SrvDNSTypeOK' /\ \A g \in Handler : ShapeOK(handler'[g])
  BY <1>3, <1>4, GotoKeepsTypeInv
<1> QED
  BY <1>5 DEF TypeInv, TypeOK, MatchRegexps, stores, StoresTypeOK, SrvHTTPTypeOK

LEMMA StoreCacheKeepsTypeInv ==
  ASSUME TypeInv, NEW h \in Handler,
         StoreCache(h), UNCHANGED <<allowing, loaded>>
  PROVE  TypeInv'
<1> DEFINE s == handler[h]
           state == [s EXCEPT !.pc = "reply"]
           entry == [response |-> s.response, expires |-> now + DnsCache]
<1>1. s \in HandlerState /\ ShapeOK(s) /\ s.pc = "store"
  BY HandlerType DEF StoreCache
<1>2. state \in HandlerState /\ ShapeOK(state)
  BY <1>1 DEF HandlerState, ShapeOK, PC
<1>3. Goto(h, state)
  BY DEF StoreCache
<1>4. SrvDNSTypeOK' /\ \A g \in Handler : ShapeOK(handler'[g])
  BY <1>2, <1>3, GotoKeepsTypeInv
<1>5. entry \in CacheEntry
  BY <1>1, StoresTypes, SrvDNSAssumption DEF ShapeOK, CacheEntry
<1>6. cache' \in [Key -> CacheEntry \union {NoEntry}]
  BY <1>5 DEF TypeInv, TypeOK, StoresTypeOK, StoreCache, CacheStore
<1> QED
  BY <1>4, <1>6 DEF TypeInv, TypeOK, StoreCache, StoresTypeOK, SrvHTTPTypeOK

LEMMA ReplyKeepsTypeInv ==
  ASSUME TypeInv, NEW h \in Handler,
         Reply(h), UNCHANGED <<allowing, loaded>>
  PROVE  TypeInv'
<1> DEFINE state == [IdleHandler EXCEPT !.pc = "exchange"]
<1>1. state \in HandlerState /\ ShapeOK(state)
  BY DEF HandlerState, ShapeOK, IdleHandler, PC, NoName, FilteredType
<1>2. IdleHandler \in HandlerState /\ ShapeOK(IdleHandler)
  BY DEF HandlerState, ShapeOK, IdleHandler, PC, NoName, FilteredType
<1>3. Goto(h, state) \/ Goto(h, IdleHandler)
  BY DEF Reply
<1>4. SrvDNSTypeOK' /\ \A g \in Handler : ShapeOK(handler'[g])
  BY <1>1, <1>2, <1>3, GotoKeepsTypeInv
<1> QED
  BY <1>4 DEF TypeInv, TypeOK, Reply, stores, StoresTypeOK, SrvHTTPTypeOK

LEMMA ExchangeKeepsTypeInv ==
  ASSUME TypeInv, NEW h \in Handler,
         Exchange(h), UNCHANGED <<allowing, loaded>>
  PROVE  TypeInv'
<1>1. IdleHandler \in HandlerState /\ ShapeOK(IdleHandler)
  BY DEF HandlerState, ShapeOK, IdleHandler, PC, NoName, FilteredType
<1>2. Goto(h, IdleHandler)
  BY DEF Exchange
<1>3. SrvDNSTypeOK' /\ \A g \in Handler : ShapeOK(handler'[g])
  BY <1>1, <1>2, GotoKeepsTypeInv
<1> QED
  BY <1>3 DEF TypeInv, TypeOK, Exchange, stores, StoresTypeOK, SrvHTTPTypeOK

-----------------------------------------------------------------------------
(* Every other step keeps the types                                        *)

\* The next call of ReadHosts, if there is one.
LEMMA LoadStepType ==
  ASSUME TypeInv, Loading
  PROVE  /\ LoadSteps[loaded + 1] \in LoadStep
         /\ loaded + 1 \in 0..Len(LoadSteps)
BY TrackwallAssumption DEF TypeInv, TypeOK, Loading

LEMMA LoadKeepsTypeInv ==
  ASSUME TypeInv, Load
  PROVE  TypeInv'
<1> DEFINE step == LoadSteps[loaded + 1]
<1>1. step \in LoadStep /\ loaded + 1 \in 0..Len(LoadSteps)
  BY LoadStepType DEF Load
<1>2. hosts \subseteq Name /\ regexps \in [Regexp -> Nat]
  BY DEF TypeInv, TypeOK, StoresTypeOK
<1>3. hosts' \subseteq Name /\ regexps' \in [Regexp -> Nat]
  <2>1. CASE step.op = "Hosts.Add"
    <3>1. step.args \in Seq(Name)
      BY <1>1, <2>1 DEF LoadStep
    <3> QED
      BY <1>2, <2>1, <3>1, HostsAddType DEF Load
  <2>2. CASE step.op = "Hosts.Remove"
    BY <1>2, <2>2 DEF Load, HostsRemove
  <2>3. CASE step.op = "Regexps.Add"
    <3>1. step.args \in Seq(Regexp)
      BY <1>1, <2>3 DEF LoadStep
    <3> QED
      BY <1>2, <2>3, <3>1, RegexpsAddType DEF Load
  <2>4. CASE step.op = "Regexps.Remove"
    <3>1. step.args \in Seq(Regexp)
      BY <1>1, <2>4 DEF LoadStep
    <3> QED
      BY <1>2, <2>4, <3>1, RegexpsRemoveType DEF Load
  <2> QED
    BY <2>1, <2>2, <2>3, <2>4 DEF Load
<1> QED
  BY <1>1, <1>3 DEF TypeInv, TypeOK, Load, StoresTypeOK, SrvDNSTypeOK,
                    SrvHTTPTypeOK

LEMMA TickKeepsTypeInv ==
  ASSUME TypeInv, Tick
  PROVE  TypeInv'
BY DEF TypeInv, TypeOK, Tick, StoresTypeOK, SrvDNSTypeOK, SrvHTTPTypeOK

\* A step that only takes entries out of the cache keeps the types.
LEMMA CacheShrinksKeepsTypeInv ==
  ASSUME TypeInv, NEW S \in SUBSET Key,
         cache' = [k \in Key |-> IF k \in S THEN NoEntry ELSE cache[k]],
         UNCHANGED <<now, hosts, regexps, override, handler, loaded>>,
         SrvHTTPTypeOK'
  PROVE  TypeInv'
<1>1. cache' \in [Key -> CacheEntry \union {NoEntry}]
  BY DEF TypeInv, TypeOK, StoresTypeOK
<1> QED
  BY <1>1 DEF TypeInv, TypeOK, StoresTypeOK, SrvDNSTypeOK

\* Every step that deletes from the cache is of that form.
LEMMA PurgeExpiredShrinks ==
  ASSUME PurgeExpired
  PROVE  \E S \in SUBSET Key :
           cache' = [k \in Key |-> IF k \in S THEN NoEntry ELSE cache[k]]
<1>1. PICK T \in SUBSET Cached :
        cache' = [k \in Key |-> IF k \in T /\ now > cache[k].expires
                                THEN NoEntry ELSE cache[k]]
  BY DEF PurgeExpired, CachePurgeExpired
<1> DEFINE S == {k \in Key : k \in T /\ now > cache[k].expires}
<1>2. cache' = [k \in Key |-> IF k \in S THEN NoEntry ELSE cache[k]]
  BY <1>1
<1> QED
  BY <1>2

LEMMA HTTPKeepsTypeInv ==
  ASSUME TypeInv, HTTP
  PROVE  TypeInv'
<1>1. PICK b \in Browser :
        \/ \E n \in AllowName, secs \in AllowSecs : AllowStore(b, n, secs)
        \/ AllowUncache(b)
  BY DEF HTTP, SrvHTTPNext
<1>2. ASSUME NEW n \in AllowName, NEW secs \in AllowSecs, AllowStore(b, n, secs)
      PROVE  TypeInv'
  <2>1. n \in Name /\ now + secs \in Nat
    BY SrvHTTPAssumption, StoresTypes
  <2>2. override' \in [Name -> Nat \union {Absent}]
    BY <1>2, <2>1 DEF TypeInv, TypeOK, StoresTypeOK, AllowStore, OverrideStore
  <2>3. SrvHTTPTypeOK'
    BY <1>2, <2>1 DEF TypeInv, TypeOK, SrvHTTPTypeOK, AllowStore
  <2> QED
    BY <1>2, <2>2, <2>3 DEF TypeInv, TypeOK, HTTP, AllowStore, StoresTypeOK,
                            SrvDNSTypeOK
<1>3. ASSUME AllowUncache(b)
      PROVE  TypeInv'
  <2> DEFINE S == Key \intersect (FilteredType \X {allowing[b]})
  <2>1. cache' = [k \in Key |-> IF k \in S THEN NoEntry ELSE cache[k]]
    BY <1>3 DEF AllowUncache, CacheDelete
  <2>2. SrvHTTPTypeOK'
    BY <1>3 DEF TypeInv, TypeOK, SrvHTTPTypeOK, AllowUncache
  <2> QED
    BY <1>3, <2>1, <2>2, CacheShrinksKeepsTypeInv DEF HTTP, AllowUncache
<1> QED
  BY <1>1, <1>2, <1>3

LEMMA JanitorKeepsTypeInv ==
  ASSUME TypeInv, Janitor
  PROVE  TypeInv'
<1>1. SrvHTTPTypeOK'
  BY DEF TypeInv, TypeOK, SrvHTTPTypeOK, Janitor
<1> QED
  BY <1>1, PurgeExpiredShrinks, CacheShrinksKeepsTypeInv DEF Janitor, PurgeExpired

LEMMA CtlKeepsTypeInv ==
  ASSUME TypeInv, Ctl
  PROVE  TypeInv'
<1>1. CASE CacheFlush
  <2>1. cache' = [k \in Key |-> IF k \in Key THEN NoEntry ELSE cache[k]]
    BY <1>1 DEF CacheFlush, CachePurge
  <2>2. SrvHTTPTypeOK'
    BY DEF TypeInv, TypeOK, SrvHTTPTypeOK, Ctl
  <2> QED
    BY <1>1, <2>1, <2>2, CacheShrinksKeepsTypeInv DEF Ctl, CacheFlush
<1>2. CASE OverrideFlush
  BY <1>2 DEF TypeInv, TypeOK, StoresTypeOK, SrvDNSTypeOK, SrvHTTPTypeOK,
              Ctl, OverrideFlush, OverridePurge
<1> QED
  BY <1>1, <1>2 DEF Ctl

-----------------------------------------------------------------------------

LEMMA InitTypeInv == Init => TypeInv
<1> SUFFICES ASSUME Init PROVE TypeInv
  OBVIOUS
<1>1. StoresTypeOK
  BY DEF Init, StoresInit, StoresTypeOK
<1>2. IdleHandler \in HandlerState /\ ShapeOK(IdleHandler)
  BY DEF HandlerState, ShapeOK, IdleHandler, PC, NoName, FilteredType
<1>3. SrvDNSTypeOK /\ \A h \in Handler : ShapeOK(handler[h])
  BY <1>2 DEF Init, SrvDNSInit, SrvDNSTypeOK
<1>4. SrvHTTPTypeOK /\ loaded \in 0..Len(LoadSteps)
  BY TrackwallAssumption DEF Init, SrvHTTPInit, SrvHTTPTypeOK
<1> QED
  BY <1>1, <1>3, <1>4 DEF TypeInv, TypeOK

LEMMA DNSKeepsTypeInv ==
  ASSUME TypeInv, NEW h \in Handler, DNS(h)
  PROVE  TypeInv'
BY ReceiveKeepsTypeInv, ReceiveOtherKeepsTypeInv, GetExactKeepsTypeInv,
   GetLabelKeepsTypeInv, CheckExpiryKeepsTypeInv, GetCacheKeepsTypeInv,
   CheckFreshKeepsTypeInv, GetHostKeepsTypeInv, MatchRegexpsKeepsTypeInv,
   StoreCacheKeepsTypeInv, ReplyKeepsTypeInv, ExchangeKeepsTypeInv
   DEF DNS, Arrive, HandlerStep

LEMMA NextKeepsTypeInv == TypeInv /\ [Next]_vars => TypeInv'
<1>1. TypeInv /\ UNCHANGED vars => TypeInv'
  BY DEF TypeInv, TypeOK, vars, stores, StoresTypeOK, SrvDNSTypeOK, SrvHTTPTypeOK
<1> QED
  BY <1>1, DNSKeepsTypeInv, JanitorKeepsTypeInv, HTTPKeepsTypeInv,
     CtlKeepsTypeInv, LoadKeepsTypeInv, TickKeepsTypeInv DEF Next

\* Every value the server keeps has its type: the loops over the labels never
\* leave the name, an expiry is never negative, and a response that is stored
\* or acted on is one of the three.
THEOREM TypeCorrect == Spec => []TypeOK
<1>1. Spec => []TypeInv
  BY InitTypeInv, NextKeepsTypeInv, PTL DEF Spec
<1>2. TypeInv => TypeOK
  BY DEF TypeInv
<1> QED
  BY <1>1, <1>2, PTL

-----------------------------------------------------------------------------
(* A request is decided in so many steps                                   *)

\* How many steps a handler takes at most after the search for an override that
\* it is in, which is made twice, for getResponse and for determineResponse;
\* and how many until it is idle again.
AfterSearch(s) ==
  IF s.site = "getResponse" THEN 2 * Len(s.name) + 9 ELSE Len(s.name) + 5

StepsLeft(s) ==
  LET l == Len(s.name)
  IN  CASE s.pc = "exact"    -> AfterSearch(s) + l + 1
        [] s.pc = "label"    -> AfterSearch(s) + l + 1 - s.i
        [] s.pc = "expiry"   -> AfterSearch(s)
        [] s.pc = "cache"    -> 2 * l + 8
        [] s.pc = "fresh"    -> 2 * l + 7
        [] s.pc = "hosts"    -> 5 + l - s.i
        [] s.pc = "regexps"  -> 4
        [] s.pc = "store"    -> 3
        [] s.pc = "reply"    -> 2
        [] s.pc = "exchange" -> 1
        [] OTHER             -> 0

\* Whatever others do to the lists, a step of a request brings it nearer to its
\* end, and no step of anybody else puts it back.
RequestsAdvance ==
  [][\A h \in Handler :
       \/ handler[h].pc = "idle" \/ handler'[h] = handler[h]
       \/ StepsLeft(handler'[h]) < StepsLeft(handler[h])]_vars

\* The measure, case by case.
Measured(s) ==
  LET l == Len(s.name)
  IN  /\ s.site = "getResponse" =>
           /\ s.pc = "exact"  => StepsLeft(s) = 3 * l + 10
           /\ s.pc = "label"  => StepsLeft(s) = 3 * l + 10 - s.i
           /\ s.pc = "expiry" => StepsLeft(s) = 2 * l + 9
      /\ s.site = "determineResponse" =>
           /\ s.pc = "exact"  => StepsLeft(s) = 2 * l + 6
           /\ s.pc = "label"  => StepsLeft(s) = 2 * l + 6 - s.i
           /\ s.pc = "expiry" => StepsLeft(s) = l + 5
      /\ s.pc = "cache"    => StepsLeft(s) = 2 * l + 8
      /\ s.pc = "fresh"    => StepsLeft(s) = 2 * l + 7
      /\ s.pc = "hosts"    => StepsLeft(s) = 5 + l - s.i
      /\ s.pc = "regexps"  => StepsLeft(s) = 4
      /\ s.pc = "store"    => StepsLeft(s) = 3
      /\ s.pc = "reply"    => StepsLeft(s) = 2
      /\ s.pc = "exchange" => StepsLeft(s) = 1
      /\ s.pc = "idle"     => StepsLeft(s) = 0

LEMMA StepsLeftAt ==
  ASSUME NEW s \in HandlerState
  PROVE  Len(s.name) \in Nat /\ Measured(s)
<1> DEFINE l == Len(s.name)
<1>1. l \in Nat /\ s.i \in Nat
  BY NameFacts DEF HandlerState, NoName
<1>2. /\ s.site = "getResponse" => AfterSearch(s) = 2 * l + 9
      /\ s.site = "determineResponse" => AfterSearch(s) = l + 5
  BY DEF AfterSearch
<1>3. /\ s.pc = "exact"    => StepsLeft(s) = AfterSearch(s) + l + 1
      /\ s.pc = "label"    => StepsLeft(s) = AfterSearch(s) + l + 1 - s.i
      /\ s.pc = "expiry"   => StepsLeft(s) = AfterSearch(s)
      /\ s.pc = "cache"    => StepsLeft(s) = 2 * l + 8
      /\ s.pc = "fresh"    => StepsLeft(s) = 2 * l + 7
      /\ s.pc = "hosts"    => StepsLeft(s) = 5 + l - s.i
      /\ s.pc = "regexps"  => StepsLeft(s) = 4
      /\ s.pc = "store"    => StepsLeft(s) = 3
      /\ s.pc = "reply"    => StepsLeft(s) = 2
      /\ s.pc = "exchange" => StepsLeft(s) = 1
      /\ s.pc = "idle"     => StepsLeft(s) = 0
  BY DEF StepsLeft
<1> HIDE DEF l
<1>4. /\ s.site = "getResponse" =>
           /\ s.pc = "exact"  => StepsLeft(s) = 3 * l + 10
           /\ s.pc = "label"  => StepsLeft(s) = 3 * l + 10 - s.i
           /\ s.pc = "expiry" => StepsLeft(s) = 2 * l + 9
      /\ s.site = "determineResponse" =>
           /\ s.pc = "exact"  => StepsLeft(s) = 2 * l + 6
           /\ s.pc = "label"  => StepsLeft(s) = 2 * l + 6 - s.i
           /\ s.pc = "expiry" => StepsLeft(s) = l + 5
  BY <1>1, <1>2, <1>3
<1> QED
  BY <1>1, <1>3, <1>4 DEF Measured, l

LEMMA StepsLeftBound ==
  ASSUME TypeInv, NEW h \in Handler
  PROVE  StepsLeft(handler[h]) \in 0..(3 * Len(handler[h].name) + 10)
<1> DEFINE s == handler[h]
           l == Len(s.name)
<1>1. s \in HandlerState /\ ShapeOK(s)
  BY HandlerType
<1>2. l \in Nat /\ Measured(s)
  BY <1>1, StepsLeftAt
<1>3. s.pc \in {"label", "hosts"} => s.i \in 1..l
  BY <1>1 DEF ShapeOK
<1>4. s.pc \in PC /\ s.site \in {"getResponse", "determineResponse"}
  BY <1>1 DEF HandlerState
<1>5. CASE s.pc \in {"exact", "label", "expiry"}
  <2>1. CASE s.site = "getResponse"
    <3>1. StepsLeft(s) \in {3 * l + 10, 3 * l + 10 - s.i, 2 * l + 9}
      BY <1>2, <1>5, <2>1 DEF Measured
    <3>2. s.pc # "label" => StepsLeft(s) \in {3 * l + 10, 2 * l + 9}
      BY <1>2, <1>5, <2>1 DEF Measured
    <3> HIDE DEF l, s
    <3>3. StepsLeft(s) \in 0..(3 * l + 10)
      BY <1>2, <1>3, <3>1, <3>2
    <3> QED
      BY <3>3 DEF s, l
  <2>2. CASE s.site = "determineResponse"
    <3>1. StepsLeft(s) \in {2 * l + 6, 2 * l + 6 - s.i, l + 5}
      BY <1>2, <1>5, <2>2 DEF Measured
    <3>2. s.pc # "label" => StepsLeft(s) \in {2 * l + 6, l + 5}
      BY <1>2, <1>5, <2>2 DEF Measured
    <3> HIDE DEF l, s
    <3>3. StepsLeft(s) \in 0..(3 * l + 10)
      BY <1>2, <1>3, <3>1, <3>2
    <3> QED
      BY <3>3 DEF s, l
  <2> QED
    BY <1>4, <2>1, <2>2
<1>6. CASE s.pc = "hosts"
  <2>1. StepsLeft(s) = 5 + l - s.i
    BY <1>2, <1>6 DEF Measured
  <2> HIDE DEF l, s
  <2>2. StepsLeft(s) \in 0..(3 * l + 10)
    BY <1>2, <1>3, <1>6, <2>1
  <2> QED
    BY <2>2 DEF s, l
<1>7. CASE s.pc \notin {"exact", "label", "expiry", "hosts"}
  <2>1. StepsLeft(s) \in {2 * l + 8, 2 * l + 7, 4, 3, 2, 1, 0}
    BY <1>2, <1>4, <1>7 DEF Measured, PC
  <2> HIDE DEF l, s
  <2>2. StepsLeft(s) \in 0..(3 * l + 10)
    BY <1>2, <2>1
  <2> QED
    BY <2>2 DEF s, l
<1> QED
  BY <1>5, <1>6, <1>7

\* The new state of the handler that takes a step.
LEMMA GotoState ==
  ASSUME TypeInv, NEW h \in Handler, NEW state, Goto(h, state)
  PROVE  handler'[h] = state
BY DEF Goto, TypeInv, TypeOK, SrvDNSTypeOK

LEMMA HandlerAdvances ==
  ASSUME TypeInv, TypeInv', NEW h \in Handler, HandlerStep(h)
  PROVE  StepsLeft(handler'[h]) < StepsLeft(handler[h])
<1> DEFINE s == handler[h]
           t == handler'[h]
           l == Len(s.name)
<1> SUFFICES StepsLeft(t) < StepsLeft(s)
  OBVIOUS
<1>0. handler \in [Handler -> HandlerState]
  BY DEF TypeInv, TypeOK, SrvDNSTypeOK
<1>1. s \in HandlerState /\ ShapeOK(s) /\ t \in HandlerState /\ ShapeOK(t)
  BY DEF TypeInv, TypeOK, SrvDNSTypeOK
<1>2. /\ l \in Nat /\ Measured(s) /\ Measured(t)
      /\ s.pc \notin {"idle", "exchange"} => l # 0
  BY <1>1, StepsLeftAt, NameFacts, SrvDNSAssumption DEF ShapeOK
<1>3. /\ s.pc \in {"label", "hosts"} => s.i \in 1..l
      /\ s.site \in {"getResponse", "determineResponse"}
  BY <1>1 DEF ShapeOK, HandlerState
<1>4. CASE Reply(h) \/ Exchange(h)
  <2>1. \/ s.pc = "reply" /\ t.pc \in {"idle", "exchange"}
        \/ s.pc = "exchange" /\ t.pc = "idle"
    BY <1>4, GotoState DEF Reply, Exchange, IdleHandler
  <2> QED
    BY <1>2, <2>1 DEF Measured
<1>5. CASE StoreCache(h) \/ MatchRegexps(h)
  <2>1. \/ s.pc = "store" /\ t.pc = "reply"
        \/ s.pc = "regexps" /\ t.pc = "store"
    BY <1>0, <1>1, <1>5 DEF Goto, StoreCache, MatchRegexps, HandlerState
  <2> QED
    BY <1>2, <2>1 DEF Measured
<1>6. CASE GetHost(h)
  <2> DEFINE found == [s EXCEPT !.pc = "store", !.i = 0,
                                !.response = BlockResponse(s.qtype)]
             next == [s EXCEPT !.i = @ + 1]
             last == [s EXCEPT !.pc = "regexps", !.i = 0]
  <2>1. s.pc = "hosts"
    BY <1>6 DEF GetHost
  <2>2. \/ Goto(h, found) \/ Goto(h, next) \/ Goto(h, last)
    BY <1>6 DEF GetHost
  <2>3. \/ t.pc \in {"store", "regexps"}
        \/ t.pc = "hosts" /\ t.name = s.name /\ t.i = s.i + 1
    <3>1. t \in {found, next, last}
      BY <2>2, GotoState
    <3> QED
      BY <1>1, <2>1, <3>1 DEF HandlerState
  <2>4. StepsLeft(s) = 5 + l - s.i
    BY <1>2, <2>1 DEF Measured
  <2>5. StepsLeft(t) \in {3, 4} \/ StepsLeft(t) = 5 + l - (s.i + 1)
    BY <1>2, <2>3 DEF Measured
  <2>6. s.i \in 1..l
    BY <1>3, <2>1
  <2> HIDE DEF l, s, t
  <2> QED
    BY <1>2, <2>4, <2>5, <2>6
<1>7. CASE GetCache(h) \/ CheckFresh(h)
  <2> DEFINE seen == [s EXCEPT !.pc = "fresh",
                               !.expires = cache[<<s.qtype, s.name>>].expires,
                               !.response = cache[<<s.qtype, s.name>>].response]
             used == [s EXCEPT !.pc = "reply", !.expires = 0]
  <2>1. CASE Goto(h, seen) /\ s.pc = "cache"
    BY <1>0, <1>1, <1>2, <2>1 DEF Goto, HandlerState, Measured
  <2>2. CASE Goto(h, used) /\ s.pc = "fresh"
    BY <1>0, <1>1, <1>2, <2>2 DEF Goto, HandlerState, Measured
  <2>3. CASE Goto(h, Determine(s)) /\ s.pc \in {"cache", "fresh"}
    BY <1>0, <1>1, <1>2, <2>3 DEF Goto, Determine, HandlerState, Measured
  <2> QED
    BY <1>7, <2>1, <2>2, <2>3 DEF GetCache, CheckFresh
<1>8. CASE GetExact(h)
  <2> DEFINE hit == [s EXCEPT !.pc = "expiry", !.expires = override[s.name]]
             miss == [s EXCEPT !.pc = "label", !.i = 1]
  <2>0. s.pc = "exact" /\ (Goto(h, hit) \/ Goto(h, miss))
    BY <1>8 DEF GetExact
  <2>1. /\ s.pc = "exact" /\ t.site = s.site /\ t.name = s.name
        /\ t.pc = "expiry" \/ (t.pc = "label" /\ t.i = 1)
    <3>1. CASE Goto(h, hit)
      BY <1>0, <1>1, <2>0, <3>1 DEF Goto, HandlerState
    <3>2. CASE Goto(h, miss)
      BY <1>0, <1>1, <2>0, <3>2 DEF Goto, HandlerState
    <3> QED
      BY <2>0, <3>1, <3>2
  <2>2. s.site = "getResponse" =>
          /\ StepsLeft(s) = 3 * l + 10
          /\ StepsLeft(t) \in {3 * l + 9, 2 * l + 9}
    BY <1>2, <2>1 DEF Measured
  <2>3. s.site = "determineResponse" =>
          /\ StepsLeft(s) = 2 * l + 6
          /\ StepsLeft(t) \in {2 * l + 5, l + 5}
    BY <1>2, <2>1 DEF Measured
  <2> HIDE DEF l, s, t
  <2> QED
    BY <1>2, <1>3, <2>2, <2>3
<1>9. ASSUME NEW b \in BOOLEAN, Goto(h, Returned(s, b)), s.pc \in {"label", "expiry"}
      PROVE  StepsLeft(t) < StepsLeft(s)
  <2>1. t = Returned(s, b)
    BY <1>9, GotoState
  <2>2. /\ t.name = s.name
        /\ s.site = "getResponse" => t.pc \in {"reply", "cache"}
        /\ s.site = "determineResponse" =>
             t.pc = "store" \/ (t.pc = "hosts" /\ t.i = 1)
    BY <1>1, <2>1 DEF Returned, HandlerState
  <2>3. s.pc = "label" => s.i \in 1..l
    BY <1>3
  <2>4. s.site = "getResponse" =>
          /\ s.pc = "label" => StepsLeft(s) = 3 * l + 10 - s.i
          /\ s.pc = "expiry" => StepsLeft(s) = 2 * l + 9
          /\ StepsLeft(t) \in {2, 2 * l + 8}
    BY <1>2, <2>2 DEF Measured
  <2>5. s.site = "determineResponse" =>
          /\ s.pc = "label" => StepsLeft(s) = 2 * l + 6 - s.i
          /\ s.pc = "expiry" => StepsLeft(s) = l + 5
          /\ StepsLeft(t) \in {3, 4 + l}
    BY <1>2, <2>2 DEF Measured
  <2> HIDE DEF l, s, t
  <2> QED
    BY <1>2, <1>3, <1>9, <2>3, <2>4, <2>5
<1>10. CASE GetLabel(h)
  <2> DEFINE hit == [s EXCEPT !.pc = "expiry", !.expires = override[Suffix(s.name, s.i)]]
             next == [s EXCEPT !.i = @ + 1]
  <2>1. s.pc = "label"
    BY <1>10 DEF GetLabel
  <2>2. CASE Goto(h, hit) \/ Goto(h, next)
    <3>1. /\ t.site = s.site /\ t.name = s.name
          /\ t.pc = "expiry" \/ (t.pc = "label" /\ t.i = s.i + 1)
      BY <1>0, <1>1, <2>1, <2>2 DEF Goto, HandlerState
    <3>2. s.i \in 1..l
      BY <1>3, <2>1
    <3>3. s.site = "getResponse" =>
            /\ StepsLeft(s) = 3 * l + 10 - s.i
            /\ StepsLeft(t) \in {2 * l + 9, 3 * l + 10 - (s.i + 1)}
      BY <1>2, <2>1, <3>1 DEF Measured
    <3>4. s.site = "determineResponse" =>
            /\ StepsLeft(s) = 2 * l + 6 - s.i
            /\ StepsLeft(t) \in {l + 5, 2 * l + 6 - (s.i + 1)}
      BY <1>2, <2>1, <3>1 DEF Measured
    <3> HIDE DEF l, s, t
    <3> QED
      BY <1>2, <1>3, <3>2, <3>3, <3>4
  <2>3. CASE Goto(h, Returned(s, FALSE))
    BY <1>9, <2>1, <2>3
  <2> QED
    BY <1>10, <2>2, <2>3 DEF GetLabel
<1>11. CASE CheckExpiry(h)
  BY <1>9, <1>11 DEF CheckExpiry
<1> QED
  BY <1>4, <1>5, <1>6, <1>7, <1>8, <1>10, <1>11 DEF HandlerStep

\* One handler at a time changes its state.
LEMMA OtherHandlersStay ==
  ASSUME TypeInv, [Next]_vars, NEW h \in Handler, ~DNS(h)
  PROVE  handler'[h] = handler[h]
<1>1. ASSUME NEW g \in Handler \ {h}, DNS(g)
      PROVE  handler'[h] = handler[h]
  BY <1>1 DEF DNS, Arrive, HandlerStep, Receive, ReceiveOther, GetExact, GetLabel,
              CheckExpiry, GetCache, CheckFresh, GetHost, MatchRegexps, StoreCache,
              Reply, Exchange, Goto, TypeInv, TypeOK, SrvDNSTypeOK
<1> QED
  BY <1>1 DEF Next, Janitor, PurgeExpired, HTTP, Ctl, Load, Tick, vars

\* A request that goes on is answered: a request for a name of l labels is after
\* 3 * l + 10 steps at most, for there is no loop in which lists that change all
\* the time could keep it (handleDNS).  That it goes on is a matter of the locks
\* of the lists, which module Locks is about.
THEOREM RequestsAdvanceHolds ==
  Spec => /\ [](\A h \in Handler :
                  StepsLeft(handler[h]) \in 0..(3 * Len(handler[h].name) + 10))
          /\ RequestsAdvance
<1>1. TypeInv /\ TypeInv' /\ [Next]_vars =>
        [\A h \in Handler :
           \/ handler[h].pc = "idle" \/ handler'[h] = handler[h]
           \/ StepsLeft(handler'[h]) < StepsLeft(handler[h])]_vars
  <2> SUFFICES ASSUME TypeInv, TypeInv', [Next]_vars, NEW h \in Handler
               PROVE  \/ handler[h].pc = "idle" \/ handler'[h] = handler[h]
                      \/ StepsLeft(handler'[h]) < StepsLeft(handler[h])
    OBVIOUS
  <2>1. CASE DNS(h)
    BY <2>1, HandlerAdvances DEF DNS, Arrive, Receive, ReceiveOther
  <2> QED
    BY <2>1, OtherHandlersStay
<1>2. TypeInv => \A h \in Handler :
                   StepsLeft(handler[h]) \in 0..(3 * Len(handler[h].name) + 10)
  BY StepsLeftBound
<1> QED
  BY <1>1, <1>2, InitTypeInv, NextKeepsTypeInv, PTL DEF Spec, RequestsAdvance

=============================================================================
