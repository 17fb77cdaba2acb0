---------------------------- MODULE HonouredProofs ----------------------------
(***************************************************************************)
(* What TLAPS proves of requests that run while nothing changes for their  *)
(* name: one whose name is overridden all the time is forwarded, and, with *)
(* the cache off (cache-dns 0), one whose name is blocked all the time is  *)
(* not.                                                                    *)
(***************************************************************************)
EXTENDS StalenessProofs

-----------------------------------------------------------------------------
(* The inductive invariants                                                *)

\* A request under a live override of its name ends the first checkOverride at
\* that; one under the override of a parent domain has not searched beyond it.
TrustedOK(s) ==
  /\ s.site = "getResponse"
  /\ \/ Live(s.name) /\ s.pc \in {"exact", "expiry", "reply"}
     \/ \E i \in 1..Len(s.name) :
          /\ FoundAt(s.name, i)
          /\ s.pc \in {"exact", "label", "expiry", "reply"}
          /\ s.pc = "label" => s.i <= i
          /\ s.pc = "expiry" => s.expires = override[Suffix(s.name, i)]
  /\ s.pc = "reply" => s.response = reponseForward

TrustedInv == \A h \in trusted : InProgress(h) /\ TrustedOK(handler[h])

\* What a request for a name that is not open has read so far.
ClosedOK(s) ==
  /\ s.pc = "expiry" => now > s.expires
  /\ s.pc = "hosts" => \A j \in 1..(s.i - 1) : Suffix(s.name, j) \notin hosts
  /\ s.pc = "regexps" => ~InHosts(hosts, s.name)
  /\ s.pc \in {"store", "reply"} => s.response # reponseForward

ClosedInv ==
  \A h \in closed : /\ InProgress(h) /\ ~Open(handler[h].name)
                    /\ ClosedOK(handler[h])

-----------------------------------------------------------------------------
(* Overrides                                                               *)

\* What keeps a grant as it is keeps the override behind it.
LEMMA GrantKept ==
  ASSUME NEW n \in Name, Grant(n)' = Grant(n)
  PROVE  /\ Live(n) => Live(n)'
         /\ \A i \in 1..Len(n) :
              FoundAt(n, i) => /\ FoundAt(n, i)'
                               /\ override'[Suffix(n, i)] = override[Suffix(n, i)]
<1>1. ASSUME Live(n), ~Live(n)'
      PROVE  FALSE
  <2>1. <<0, 0>> \in Grant(n)'
    BY <1>1 DEF Grant
  <2>2. PICK i \in 1..Len(n) : <<0, 0>> = <<i, override'[Suffix(n, i)]>>
    BY <1>1, <2>1 DEF Grant
  <2> QED
    BY <2>2
<1>2. ASSUME NEW i \in 1..Len(n), FoundAt(n, i)
      PROVE  /\ FoundAt(n, i)'
             /\ override'[Suffix(n, i)] = override[Suffix(n, i)]
  <2>1. ~Live(n)
    BY <1>2 DEF FoundAt, Live
  <2>2. <<i, override[Suffix(n, i)]>> \in Grant(n)'
    BY <1>2, <2>1 DEF Grant
  <2>3. i # 0
    OBVIOUS
  <2>4. ~Live(n)'
    BY <2>2, <2>3 DEF Grant
  <2>5. PICK j \in 1..Len(n) :
               /\ FoundAt(n, j)'
               /\ <<i, override[Suffix(n, i)]>> = <<j, override'[Suffix(n, j)]>>
    BY <2>2, <2>4 DEF Grant
  <2> QED
    BY <2>5
<1> QED
  BY <1>1, <1>2

\* A request that is trusted before and after a step has its override kept.
LEMMA TrustedKept ==
  ASSUME IInv, TrustedInv, HistoryStep, NEW h \in trusted', InProgress(h)
  PROVE  /\ h \in Handler /\ handler[h].name \in Name /\ TrustedOK(handler[h])
         /\ handler'[h].name = handler[h].name =>
              /\ Live(handler[h].name) => Live(handler[h].name)'
              /\ \A i \in 1..Len(handler[h].name) :
                   FoundAt(handler[h].name, i) =>
                     /\ FoundAt(handler[h].name, i)'
                     /\ override'[Suffix(handler[h].name, i)]
                          = override[Suffix(handler[h].name, i)]
<1>1. /\ h \in Handler /\ h \in trusted
      /\ Grant(handler[h].name)' = Grant(handler[h].name)
  BY DEF HistoryStep
<1>2. TrustedOK(handler[h]) /\ handler[h].name \in Name
  BY <1>1, Facts, SrvDNSAssumption DEF TrustedInv, InProgress, ShapeOK
<1>3. PICK n \in Name : n = handler[h].name
  BY <1>2
<1>4. CASE handler'[h].name = handler[h].name
  <2>1. Grant(n)' = Grant(n)
    BY <1>1, <1>3, <1>4
  <2>2. /\ Live(n) => Live(n)'
        /\ \A i \in 1..Len(n) :
             FoundAt(n, i) => /\ FoundAt(n, i)'
                              /\ override'[Suffix(n, i)] = override[Suffix(n, i)]
    BY <2>1, GrantKept
  <2> QED
    BY <1>1, <1>2, <1>3, <1>4, <2>2
<1> QED
  BY <1>1, <1>2, <1>4

\* The handler that takes a step, if it is trusted afterwards.
LEMMA DNSKeepsTrusted ==
  ASSUME IInv, TrustedInv, HistoryStep, NEW h \in Handler, DNS(h), h \in trusted'
  PROVE  TrustedOK(handler[h])'
<1> DEFINE s == handler[h]
<1>1. s \in HandlerState /\ ShapeOK(s) /\ now \in Nat
  BY Facts
<1>2. /\ handler'[h].name # NoName
      /\ Grant(handler[h].name)' # {}
  BY DEF HistoryStep, InProgress
<1>3. ASSUME s.pc \notin {"idle", "exchange"}
      PROVE  /\ InProgress(h) /\ TrustedOK(s)
             /\ s.name \in Name /\ Len(s.name) \in Nat \ {0}
  <2>1. InProgress(h)
    BY <1>1, <1>3 DEF ShapeOK, InProgress
  <2> QED
    BY <2>1, TrustedKept, NameFacts
<1>4. ASSUME NEW n \in QueryName, NEW t \in QueryType, Receive(h, n, t)
      PROVE  TrustedOK(handler[h])'
  <2>1. handler'[h] = [IdleHandler EXCEPT !.pc = "exact", !.name = n,
                                          !.qtype = t, !.start = now]
    BY <1>4, NewState DEF Receive
  <2>2. /\ handler'[h].pc = "exact" /\ handler'[h].site = "getResponse"
        /\ handler'[h].name = n
    BY <2>1 DEF IdleHandler
  <2>3. Grant(n)' # {}
    BY <1>2, <2>2
  <2>4. Live(n)' \/ \E i \in 1..Len(n) : FoundAt(n, i)'
    BY <2>3 DEF Grant
  <2> QED
    BY <2>2, <2>4 DEF TrustedOK
<1>5. CASE ReceiveOther(h) \/ Reply(h) \/ Exchange(h)
  BY <1>2, <1>5, NewState DEF ReceiveOther, Reply, Exchange, IdleHandler
<1>6. CASE GetExact(h)
  <2>1. s.pc = "exact"
    BY <1>6 DEF GetExact
  <2>2. CASE /\ override[s.name] # Absent
             /\ Goto(h, [s EXCEPT !.pc = "expiry", !.expires = override[s.name]])
    <3>1. /\ handler'[h].pc = "expiry" /\ handler'[h].site = s.site
          /\ handler'[h].name = s.name
      BY <1>1, <2>2, NewState DEF HandlerState
    <3>2. Live(s.name)
      BY <1>3, <2>1, <2>2 DEF TrustedOK, FoundAt
    <3>3. Live(handler[h].name)'
      BY <1>3, <2>1, <3>1, <3>2, TrustedKept
    <3> QED
      BY <1>3, <2>1, <3>1, <3>3 DEF TrustedOK
  <2>3. CASE /\ override[s.name] = Absent
             /\ Goto(h, [s EXCEPT !.pc = "label", !.i = 1])
    <3>1. /\ handler'[h].pc = "label" /\ handler'[h].site = s.site
          /\ handler'[h].name = s.name /\ handler'[h].i = 1
      BY <1>1, <2>3, NewState DEF HandlerState
    <3>2. PICK i \in 1..Len(s.name) : FoundAt(s.name, i)
      BY <1>3, <2>1, <2>3 DEF TrustedOK, Live
    <3>3. FoundAt(handler[h].name, i)'
      BY <1>3, <2>1, <3>1, <3>2, TrustedKept
    <3> QED
      BY <1>3, <2>1, <3>1, <3>2, <3>3 DEF TrustedOK
  <2> QED
    BY <1>6, <2>2, <2>3 DEF GetExact
<1>7. CASE GetLabel(h)
  <2>1. s.pc = "label" /\ s.i \in 1..Len(s.name)
    BY <1>1, <1>7 DEF GetLabel, ShapeOK
  <2>2. PICK i \in 1..Len(s.name) : FoundAt(s.name, i) /\ s.i <= i
    BY <1>3, <2>1 DEF TrustedOK
  <2>3. s.site = "getResponse" /\ Len(s.name) \in Nat
    BY <1>3, <2>1 DEF TrustedOK
  <2>4. handler'[h].name = s.name =>
          /\ FoundAt(handler[h].name, i)'
          /\ override'[Suffix(s.name, i)] = override[Suffix(s.name, i)]
    BY <1>3, <2>1, <2>2, TrustedKept
  <2>5. CASE s.i = i
    <3>1. override[Suffix(s.name, i)] # Absent
      BY <2>2 DEF FoundAt, Live
    <3>2. handler'[h] = [s EXCEPT !.pc = "expiry",
                                  !.expires = override[Suffix(s.name, i)]]
      BY <1>7, <2>5, <3>1, NewState DEF GetLabel
    <3>3. /\ handler'[h].pc = "expiry" /\ handler'[h].site = s.site
          /\ handler'[h].name = s.name
          /\ handler'[h].expires = override[Suffix(s.name, i)]
      BY <1>1, <3>2 DEF HandlerState
    <3> QED
      BY <2>3, <2>4, <3>3 DEF TrustedOK
  <2>6. CASE s.i < i
    <3> DEFINE hit == override[Suffix(s.name, s.i)] # Absent
               last == s.i = Len(s.name)
               go == Goto(h, [s EXCEPT !.i = @ + 1])
    <3>1. ~hit /\ ~last
      BY <2>1, <2>2, <2>3, <2>6 DEF FoundAt
    <3>2. hit \/ go \/ last
      BY <1>7 DEF GetLabel
    <3> HIDE DEF hit, last
    <3>3. go
      BY <3>1, <3>2
    <3>4. /\ handler'[h].pc = "label" /\ handler'[h].site = s.site
          /\ handler'[h].name = s.name /\ handler'[h].i = s.i + 1
      BY <1>1, <2>1, <3>3, NewState DEF HandlerState
    <3>5. handler'[h].i <= i
      BY <2>1, <2>6, <3>4
    <3> QED
      BY <2>3, <2>4, <3>4, <3>5 DEF TrustedOK
  <2> QED
    BY <2>1, <2>2, <2>5, <2>6
<1>8. CASE CheckExpiry(h)
  <2>1. s.pc = "expiry" /\ s.site = "getResponse"
    BY <1>3, <1>8 DEF CheckExpiry, TrustedOK
  <2>2. CASE Goto(h, Returned(s, TRUE))
    <3>1. handler'[h] = Returned(s, TRUE)
      BY <2>2, NewState
    <3>2. /\ handler'[h].pc = "reply" /\ handler'[h].response = reponseForward
          /\ handler'[h].site = "getResponse" /\ handler'[h].name = s.name
      BY <1>1, <2>1, <3>1 DEF Returned, HandlerState
    <3>3. \/ Live(handler[h].name)'
          \/ \E i \in 1..Len(s.name) : FoundAt(handler[h].name, i)'
      BY <1>3, <2>1, <3>2, TrustedKept DEF TrustedOK
    <3> QED
      BY <3>2, <3>3 DEF TrustedOK
  <2>3. CASE /\ now > s.expires /\ OverrideDelete(s.name)
             /\ Goto(h, Returned(s, FALSE))
    <3>1. handler'[h] = Returned(s, FALSE)
      BY <2>3, NewState
    <3>2. handler'[h].name = s.name
      BY <1>1, <2>1, <3>1 DEF Returned, HandlerState
    <3>3. override'[s.name] = Absent
      BY <1>3, <2>1, <2>3 DEF OverrideDelete, IInv, TypeInv, TypeOK, StoresTypeOK
    <3>4. ~Live(s.name)
      BY <1>3, <2>1, <3>2, <3>3, TrustedKept DEF Live
    <3>5. PICK i \in 1..Len(s.name) : /\ Live(Suffix(s.name, i))
                                      /\ s.expires = override[Suffix(s.name, i)]
      BY <1>3, <2>1, <3>4 DEF TrustedOK, FoundAt
    <3>6. now <= s.expires /\ s.expires \in Nat
      BY <1>1, <3>5 DEF Live, HandlerState
    <3> QED
      BY <1>1, <2>3, <3>6
  <2> QED
    BY <1>8, <2>2, <2>3 DEF CheckExpiry
<1>9. CASE \/ GetCache(h) \/ CheckFresh(h) \/ GetHost(h)
           \/ MatchRegexps(h) \/ StoreCache(h)
  BY <1>3, <1>9 DEF GetCache, CheckFresh, GetHost, MatchRegexps, StoreCache,
                    TrustedOK
<1> QED
  BY <1>4, <1>5, <1>6, <1>7, <1>8, <1>9 DEF DNS, Arrive, HandlerStep

\* A step of one handler moves no other.
LEMMA OtherHandlers ==
  ASSUME IInv, NEW h \in Handler, DNS(h), NEW g \in Handler \ {h}
  PROVE  handler'[g] = handler[g]
BY DEF DNS, Arrive, HandlerStep, Receive, ReceiveOther, GetExact, GetLabel,
       CheckExpiry, GetCache, CheckFresh, GetHost, MatchRegexps, StoreCache,
       Reply, Exchange, Goto, IInv, TypeInv, TypeOK, SrvDNSTypeOK

LEMMA StepKeepsTrusted ==
  ASSUME IInv, TrustedInv, [HNext]_hvars
  PROVE  TrustedInv'
<1>1. CASE UNCHANGED hvars
  BY <1>1 DEF TrustedInv, TrustedOK, InProgress, FoundAt, Live, hvars, history,
              vars, stores
<1>2. CASE HNext
  <2> SUFFICES ASSUME NEW h \in trusted'
               PROVE  InProgress(h)' /\ TrustedOK(handler[h])'
    BY DEF TrustedInv
  <2>1. h \in Handler /\ InProgress(h)' /\ HistoryStep
    BY <1>2 DEF HNext, HistoryStep
  <2>2. CASE DNS(h)
    BY <2>1, <2>2, DNSKeepsTrusted
  <2>3. CASE ~DNS(h)
    <3>1. handler'[h] = handler[h]
      BY <1>2, <2>1, <2>3, OtherHandlers
         DEF HNext, Next, Janitor, PurgeExpired, HTTP, Ctl, Load, Tick
    <3>2. InProgress(h)
      BY <2>1, <3>1 DEF InProgress
    <3>3. TrustedOK(handler[h])
      BY <2>1, <3>2, TrustedKept
    <3>4. /\ Live(handler[h].name) => Live(handler[h].name)'
          /\ \A i \in 1..Len(handler[h].name) :
               FoundAt(handler[h].name, i) =>
                 /\ FoundAt(handler[h].name, i)'
                 /\ override'[Suffix(handler[h].name, i)]
                      = override[Suffix(handler[h].name, i)]
      BY <2>1, <3>1, <3>2, TrustedKept
    <3> QED
      BY <2>1, <3>1, <3>3, <3>4 DEF TrustedOK
  <2> QED
    BY <2>1, <2>2, <2>3
<1> QED
  BY <1>1, <1>2

\* As long as the override that lets a name through stays as it is, be it one
\* of its own that may be renewed or the first that is found for a parent
\* domain, requests that arrive under it are forwarded.
THEOREM OverrideHonouredHolds == HSpec => []OverrideHonoured
<1>1. HInit => IInv /\ TrustedInv
  BY HInitIInv DEF HInit, HistoryInit, TrustedInv
<1>2. IInv /\ TrustedInv /\ [HNext]_hvars => IInv' /\ TrustedInv'
  BY HNextKeepsIInv, StepKeepsTrusted
<1>3. TrustedInv => OverrideHonoured
  BY DEF TrustedInv, TrustedOK, OverrideHonoured
<1> QED
  BY <1>1, <1>2, <1>3, PTL DEF HSpec

-----------------------------------------------------------------------------
(* Blocks                                                                  *)

\* The handler that takes a step, if its name is still closed afterwards.
LEMMA DNSKeepsClosed ==
  ASSUME DnsCache = 0, IInv, ClosedInv, HistoryStep, NEW h \in Handler, DNS(h),
         h \in closed'
  PROVE  ClosedOK(handler[h])'
<1> DEFINE s == handler[h]
<1>1. s \in HandlerState /\ ShapeOK(s) /\ SupportedOK(s)
  BY Facts
<1>2. /\ s.name # NoName => h \in closed
      /\ handler'[h].name # NoName
  BY DEF HistoryStep, InProgress
<1>3. s.pc \notin {"idle", "exchange"} =>
        /\ ~Open(s.name) /\ ClosedOK(s) /\ s.name \in Name
        /\ Len(s.name) \in Nat \ {0}
  BY <1>1, <1>2, SrvDNSAssumption, NameFacts DEF ClosedInv, ShapeOK
<1>4. now' = now /\ hosts' = hosts /\ now \in Nat
  BY Facts DEF DNS, Arrive, HandlerStep, Receive, ReceiveOther, GetExact, GetLabel,
         CheckExpiry, GetCache, CheckFresh, GetHost, MatchRegexps, StoreCache,
         Reply, Exchange, stores
<1>5. ASSUME handler'[h].pc \in {"exact", "label", "cache", "fresh"}
      PROVE  ClosedOK(handler[h])'
  BY <1>5 DEF ClosedOK
<1>6. ASSUME s.pc \in {"label", "expiry"}, Goto(h, Returned(s, FALSE))
      PROVE  ClosedOK(handler[h])'
  <2>1. handler'[h] = Returned(s, FALSE)
    BY <1>6, NewState
  <2>2. \/ handler'[h].pc = "cache"
        \/ handler'[h].pc = "hosts" /\ handler'[h].i = 1
    BY <1>1, <2>1 DEF Returned, HandlerState
  <2> QED
    BY <2>2 DEF ClosedOK
<1>7. ASSUME NEW i \in 1..Len(s.name), s.pc \in {"exact", "label"},
             override[Suffix(s.name, i)] # Absent,
             Goto(h, [s EXCEPT !.pc = "expiry",
                               !.expires = override[Suffix(s.name, i)]])
      PROVE  ClosedOK(handler[h])'
  <2>1. ~Live(Suffix(s.name, i))
    BY <1>3, <1>7 DEF Open, Suffixes
  <2>2. override[Suffix(s.name, i)] \in Nat
    BY <1>3, <1>7, NameFacts, StoresTypes DEF IInv
  <2>3. now > override[Suffix(s.name, i)]
    BY <1>4, <1>7, <2>1, <2>2 DEF Live
  <2>4. handler'[h] = [s EXCEPT !.pc = "expiry",
                                !.expires = override[Suffix(s.name, i)]]
    BY <1>7, NewState
  <2>5. /\ handler'[h].pc = "expiry"
        /\ handler'[h].expires = override[Suffix(s.name, i)]
    BY <1>1, <2>4 DEF HandlerState
  <2> QED
    BY <1>4, <2>3, <2>5 DEF ClosedOK
<1>8. CASE Arrive(h)
  <2>1. ASSUME NEW n \in QueryName, NEW t \in QueryType, Receive(h, n, t)
        PROVE  handler'[h].pc = "exact"
    BY <2>1, NewState DEF Receive, IdleHandler
  <2>2. ~ReceiveOther(h)
    BY <1>2, NewState DEF ReceiveOther, IdleHandler
  <2> QED
    BY <1>5, <1>8, <2>1, <2>2 DEF Arrive
<1>9. CASE GetExact(h)
  <2>1. s.pc = "exact" /\ Len(s.name) \in 1..Len(s.name) /\ s.name \in Name
    BY <1>3, <1>9 DEF GetExact
  <2>2. Suffix(s.name, Len(s.name)) = s.name
    BY <2>1, NameAssumption DEF Suffix
  <2>3. CASE /\ override[s.name] # Absent
             /\ Goto(h, [s EXCEPT !.pc = "expiry", !.expires = override[s.name]])
    BY <1>7, <2>1, <2>2, <2>3
  <2>4. CASE Goto(h, [s EXCEPT !.pc = "label", !.i = 1])
    <3>1. handler'[h] = [s EXCEPT !.pc = "label", !.i = 1]
      BY <2>4, NewState
    <3>2. handler'[h].pc = "label"
      BY <1>1, <3>1 DEF HandlerState
    <3> QED
      BY <1>5, <3>2
  <2> QED
    BY <1>9, <2>3, <2>4 DEF GetExact
<1>10. CASE GetLabel(h)
  <2>1. s.pc = "label" /\ s.i \in 1..Len(s.name)
    BY <1>1, <1>10 DEF GetLabel, ShapeOK
  <2>2. CASE Goto(h, [s EXCEPT !.i = @ + 1])
    <3>1. handler'[h].pc = "label"
      BY <1>1, <2>1, <2>2, NewState DEF HandlerState
    <3> QED
      BY <1>5, <3>1
  <2> QED
    BY <1>6, <1>7, <1>10, <2>1, <2>2 DEF GetLabel
<1>11. CASE CheckExpiry(h)
  <2>1. s.pc = "expiry" /\ s.expires \in Nat /\ now > s.expires
    BY <1>1, <1>3, <1>11 DEF CheckExpiry, ClosedOK, HandlerState
  <2> DEFINE past == now > s.expires
             within == now <= s.expires
             stay == Goto(h, Returned(s, TRUE))
             go == Goto(h, Returned(s, FALSE))
  <2>2. past /\ ~within
    BY <1>4, <2>1
  <2>3. (past /\ go) \/ (within /\ stay)
    BY <1>11 DEF CheckExpiry
  <2> HIDE DEF past, within, stay, go
  <2>4. go
    BY <2>2, <2>3
  <2> QED
    BY <1>6, <2>1, <2>4 DEF go
<1>12. ASSUME Goto(h, Determine(s))
       PROVE  ClosedOK(handler[h])'
  <2>1. handler'[h] = Determine(s)
    BY <1>12, NewState
  <2>2. handler'[h].pc = "exact"
    BY <1>1, <2>1 DEF Determine, HandlerState
  <2> QED
    BY <1>5, <2>2
<1>13. CASE GetCache(h)
  <2> DEFINE entry == cache[<<s.qtype, s.name>>]
  <2>1. CASE Goto(h, [s EXCEPT !.pc = "fresh", !.expires = entry.expires,
                               !.response = entry.response])
    <3>1. handler'[h].pc = "fresh"
      BY <1>1, <2>1, NewState DEF HandlerState
    <3> QED
      BY <1>5, <3>1
  <2> QED
    BY <1>12, <1>13, <2>1 DEF GetCache
<1>14. CASE CheckFresh(h)
  <2>1. s.expires <= now /\ s.expires \in Nat
    BY <1>1, <1>4, <1>14 DEF CheckFresh, SupportedOK, Supported, HandlerState
  <2> QED
    BY <1>4, <1>12, <1>14, <2>1 DEF CheckFresh
<1>15. BlockResponse(s.qtype) # reponseForward
  BY DEF BlockResponse, reponseForward, reponseSpoof, reponseEmpty
<1>16. CASE GetHost(h)
  <2> DEFINE hit == Suffix(s.name, s.i) \in hosts
  <2>1. /\ s.pc = "hosts" /\ s.i \in 1..Len(s.name) /\ Len(s.name) \in Nat
        /\ \A j \in 1..(s.i - 1) : Suffix(s.name, j) \notin hosts
    BY <1>1, <1>3, <1>16 DEF GetHost, ShapeOK, ClosedOK
  <2>2. CASE Goto(h, [s EXCEPT !.pc = "store", !.i = 0,
                               !.response = BlockResponse(s.qtype)])
    <3>1. handler'[h] = [s EXCEPT !.pc = "store", !.i = 0,
                                  !.response = BlockResponse(s.qtype)]
      BY <2>2, NewState
    <3>2. handler'[h].pc = "store" /\ handler'[h].response = BlockResponse(s.qtype)
      BY <1>1, <3>1 DEF HandlerState
    <3> QED
      BY <1>15, <3>2 DEF ClosedOK
  <2>3. CASE ~hit /\ Goto(h, [s EXCEPT !.i = @ + 1])
    <3>1. /\ handler'[h].pc = "hosts" /\ handler'[h].i = s.i + 1
          /\ handler'[h].name = s.name
      BY <1>1, <2>1, <2>3, NewState DEF HandlerState
    <3>2. \A j \in 1..s.i : Suffix(s.name, j) \notin hosts
      BY <2>1, <2>3
    <3>3. handler'[h].i - 1 = s.i
      BY <2>1, <3>1
    <3>4. \A j \in 1..(handler'[h].i - 1) : Suffix(handler'[h].name, j) \notin hosts'
      BY <1>4, <3>1, <3>2, <3>3
    <3> QED
      BY <3>1, <3>4 DEF ClosedOK
  <2>4. CASE /\ ~hit /\ s.i = Len(s.name)
             /\ Goto(h, [s EXCEPT !.pc = "regexps", !.i = 0])
    <3>1. handler'[h] = [s EXCEPT !.pc = "regexps", !.i = 0]
      BY <2>4, NewState
    <3>2. handler'[h].pc = "regexps" /\ handler'[h].name = s.name
      BY <1>1, <3>1 DEF HandlerState
    <3>3. ~InHosts(hosts, s.name)
      BY <2>1, <2>4 DEF InHosts, Suffixes
    <3> QED
      BY <1>4, <3>2, <3>3 DEF ClosedOK, InHosts
  <2> QED
    BY <1>16, <2>2, <2>3, <2>4 DEF GetHost
<1>17. CASE MatchRegexps(h)
  <2>1. MatchesAny(regexps, s.name)
    BY <1>3, <1>17 DEF MatchRegexps, ClosedOK, Open, Blocked
  <2>2. handler'[h] = [s EXCEPT !.pc = "store", !.response = BlockResponse(s.qtype)]
    BY <1>17, <2>1, NewState DEF MatchRegexps
  <2>3. handler'[h].pc = "store" /\ handler'[h].response = BlockResponse(s.qtype)
    BY <1>1, <2>2 DEF HandlerState
  <2> QED
    BY <1>15, <2>3 DEF ClosedOK
<1>18. CASE StoreCache(h)
  <2>1. s.response # reponseForward
    BY <1>3, <1>18 DEF StoreCache, ClosedOK
  <2>2. handler'[h] = [s EXCEPT !.pc = "reply"]
    BY <1>18, NewState DEF StoreCache
  <2>3. handler'[h].pc = "reply" /\ handler'[h].response = s.response
    BY <1>1, <2>2 DEF HandlerState
  <2> QED
    BY <2>1, <2>3 DEF ClosedOK
<1>19. ~Reply(h) /\ ~Exchange(h)
  BY <1>2, NewState DEF Reply, Exchange, IdleHandler
<1> QED
  BY <1>8, <1>9, <1>10, <1>11, <1>13, <1>14, <1>16, <1>17, <1>18, <1>19
     DEF DNS, HandlerStep

LEMMA StepKeepsClosed ==
  ASSUME DnsCache = 0, IInv, ClosedInv, [HNext]_hvars
  PROVE  ClosedInv'
<1>1. CASE UNCHANGED hvars
  BY <1>1 DEF ClosedInv, ClosedOK, InProgress, Open, Blocked, Live, Loading,
              InHosts, MatchesAny, hvars, history, vars, stores
<1>2. CASE HNext
  <2> SUFFICES ASSUME NEW h \in closed'
               PROVE  InProgress(h)' /\ ~Open(handler[h].name)' /\ ClosedOK(handler[h])'
    BY DEF ClosedInv
  <2>1. /\ h \in Handler /\ InProgress(h)' /\ ~Open(handler[h].name)'
        /\ InProgress(h) => h \in closed
    BY <1>2 DEF HNext, HistoryStep
  <2>2. CASE DNS(h)
    BY <1>2, <2>1, <2>2, DNSKeepsClosed DEF HNext
  <2>3. CASE ~DNS(h)
    <3>1. handler'[h] = handler[h]
      BY <1>2, <2>1, <2>3, OtherHandlers
         DEF HNext, Next, Janitor, PurgeExpired, HTTP, Ctl, Load, Tick
    <3>2. /\ h \in closed /\ ~Open(handler[h].name) /\ ClosedOK(handler[h])
          /\ handler[h] \in HandlerState
      BY <2>1, <3>1, Facts DEF InProgress, ClosedInv
    <3>3. hosts' = hosts
      <4>1. ~Load
        BY <3>2 DEF Load, Open
      <4> QED
        BY <1>2, <4>1
           DEF HNext, Next, DNS, Arrive, HandlerStep, Receive, ReceiveOther,
               GetExact, GetLabel, CheckExpiry, GetCache, CheckFresh, GetHost,
               MatchRegexps, StoreCache, Reply, Exchange, Janitor, PurgeExpired,
               HTTP, SrvHTTPNext, AllowStore, AllowUncache, Ctl, CacheFlush,
               OverrideFlush, Tick, stores
    <3>4. now' \in {now, now + 1} /\ now \in Nat
      BY <1>2, NextClock, Facts DEF HNext, Tick
    <3>5. handler[h].pc = "expiry" => now' > handler[h].expires
      BY <3>2, <3>4 DEF ClosedOK, HandlerState
    <3>6. ClosedOK(handler[h])'
      BY <3>1, <3>2, <3>3, <3>5 DEF ClosedOK, InHosts
    <3> QED
      BY <2>1, <3>6
  <2> QED
    BY <2>1, <2>2, <2>3
<1> QED
  BY <1>1, <1>2

\* With the cache off, a name that was blocked and not overridden during the
\* whole request is not forwarded.
THEOREM BlockHonouredHolds ==
  ASSUME DnsCache = 0
  PROVE  HSpec => []BlockHonoured
<1>1. HInit => IInv /\ ClosedInv
  BY HInitIInv DEF HInit, HistoryInit, ClosedInv
<1>2. IInv /\ ClosedInv /\ [HNext]_hvars => IInv' /\ ClosedInv'
  BY HNextKeepsIInv, StepKeepsClosed
<1>3. ClosedInv => BlockHonoured
  BY DEF ClosedInv, ClosedOK, BlockHonoured
<1> QED
  BY <1>1, <1>2, <1>3, PTL DEF HSpec

-----------------------------------------------------------------------------
(* Grants that are lost                                                    *)

\* The user has made or renewed the override of the name at t or later.
GrantedSince(n, t) == t <= granted[n]

\* What a request knows of the override of its name once it has looked for it:
\* there was none, or the one it has read, or a grant has come meanwhile.
RaceOK(s) ==
  s.pc \in {"label", "expiry"} =>
    \/ override[s.name] = Absent
    \/ s.pc = "expiry" /\ override[s.name] = s.expires
    \/ GrantedSince(s.name, s.start)

RaceInv == \A h \in Handler : RaceOK(handler[h])

\* A step leaves an override as it is, removes it or is the grant.
LEMMA OverrideSteps ==
  ASSUME IInv, [HNext]_hvars, NEW n \in Name
  PROVE  override'[n] \in {override[n], Absent} \/ Granting(n)
<1>1. override \in [Name -> Nat \union {Absent}]
  BY DEF IInv, TypeInv, TypeOK, StoresTypeOK
<1>2. CASE UNCHANGED override
  BY <1>2
<1>3. ASSUME NEW h \in Handler, CheckExpiry(h)
      PROVE  override'[n] \in {override[n], Absent}
  BY <1>1, <1>3 DEF CheckExpiry, OverrideDelete
<1>4. CASE HTTP
  <2>1. ASSUME NEW b \in Browser, NEW m \in AllowName, NEW secs \in AllowSecs,
               AllowStore(b, m, secs)
        PROVE  override'[n] = override[n] \/ Granting(n)
    <3>1. CASE m = n
      BY <2>1, <3>1 DEF Granting
    <3>2. CASE m # n
      BY <1>1, <2>1, <3>2 DEF AllowStore, OverrideStore
    <3> QED
      BY <3>1, <3>2
  <2> QED
    BY <1>2, <1>4, <2>1 DEF HTTP, SrvHTTPNext, AllowUncache
<1>5. CASE Ctl
  BY <1>2, <1>5 DEF Ctl, CacheFlush, OverrideFlush, OverridePurge
<1>6. ASSUME NEW h \in Handler, DNS(h), ~CheckExpiry(h)
      PROVE  UNCHANGED override
  BY <1>6 DEF DNS, Arrive, HandlerStep, Receive, ReceiveOther, GetExact, GetLabel,
              GetCache, CheckFresh, GetHost, MatchRegexps, StoreCache, Reply,
              Exchange, stores
<1>7. CASE Janitor \/ Load \/ Tick \/ UNCHANGED hvars
  BY <1>2, <1>7 DEF Janitor, PurgeExpired, Load, Tick, hvars, vars, stores
<1> QED
  BY <1>2, <1>3, <1>4, <1>5, <1>6, <1>7 DEF HNext, Next

\* What has been granted since a time is so after a step, unless it is removed.
LEMMA GrantedSinceKept ==
  ASSUME IInv, [HNext]_hvars, NEW n \in Name, NEW t \in Nat, t <= now
  PROVE  \/ override'[n] = Absent
         \/ override'[n] = override[n] /\ (GrantedSince(n, t) => GrantedSince(n, t)')
         \/ GrantedSince(n, t)'
<1>1. CASE HNext
  <2>1. granted'[n] = IF override'[n] = Absent THEN Never
                      ELSE IF Granting(n) THEN now ELSE granted[n]
    BY <1>1 DEF HNext, HistoryStep
  <2> QED
    BY <2>1, OverrideSteps DEF GrantedSince
<1>2. CASE UNCHANGED hvars
  BY <1>2 DEF GrantedSince, hvars, vars, stores, history
<1> QED
  BY <1>1, <1>2

\* The handler that takes a step.
LEMMA DNSKeepsRace ==
  ASSUME IInv, RaceInv, HNext, NEW h \in Handler, DNS(h)
  PROVE  RaceOK(handler[h])'
<1> DEFINE s == handler[h]
<1>1. s \in HandlerState /\ ShapeOK(s) /\ RaceOK(s)
  BY Facts DEF RaceInv
<1>2. CASE GetExact(h)
  <2> DEFINE e == override[s.name]
             hit == [s EXCEPT !.pc = "expiry", !.expires = e]
             miss == [s EXCEPT !.pc = "label", !.i = 1]
  <2>1. override' = override
    BY <1>2 DEF GetExact, stores
  <2>2. CASE Goto(h, hit)
    <3>1. handler'[h] = hit
      BY <2>2, NewState
    <3>2. /\ handler'[h].name = s.name /\ handler'[h].pc = "expiry"
          /\ handler'[h].expires = e
      BY <1>1, <3>1 DEF HandlerState
    <3> QED
      BY <2>1, <3>2 DEF RaceOK
  <2>3. CASE e = Absent /\ Goto(h, miss)
    <3>1. handler'[h] = miss
      BY <2>3, NewState
    <3>2. handler'[h].name = s.name
      BY <1>1, <3>1 DEF HandlerState
    <3> QED
      BY <2>1, <2>3, <3>2 DEF RaceOK
  <2> QED
    BY <1>2, <2>2, <2>3 DEF GetExact
<1>3. ASSUME handler'[h].pc \notin {"label", "expiry"}
      PROVE  RaceOK(handler[h])'
  BY <1>3 DEF RaceOK
<1>4. ASSUME NEW b \in BOOLEAN, Goto(h, Returned(s, b))
      PROVE  RaceOK(handler[h])'
  <2>1. handler'[h] = Returned(s, b)
    BY <1>4, NewState
  <2>2. handler'[h].pc \in {"reply", "cache", "store", "hosts"}
    BY <1>1, <2>1 DEF Returned, HandlerState
  <2> QED
    BY <1>3, <2>2
<1>5. CASE GetLabel(h)
  <2> DEFINE e == override[Suffix(s.name, s.i)]
             hit == [s EXCEPT !.pc = "expiry", !.expires = e]
             next == [s EXCEPT !.i = @ + 1]
  <2>1. s.pc = "label" /\ override' = override
    BY <1>5 DEF GetLabel, stores
  <2>2. override[s.name] = Absent \/ GrantedSince(s.name, s.start)
    BY <1>1, <2>1 DEF RaceOK
  <2>3. ASSUME handler'[h].name = s.name, handler'[h].start = s.start
        PROVE  RaceOK(handler[h])'
    <3>1. s.name \in Name /\ s.start \in Nat /\ s.start <= now
      BY <2>1, Facts DEF ShapeOK, TimelyOK, HandlerState
    <3>2. PICK n \in Name, t \in Nat : n = s.name /\ t = s.start
      BY <3>1
    <3>3. override'[n] = Absent \/ GrantedSince(n, t)'
      BY <2>1, <2>2, <3>1, <3>2, GrantedSinceKept
    <3> QED
      BY <2>3, <3>2, <3>3 DEF RaceOK
  <2>4. CASE Goto(h, hit)
    <3>1. handler'[h] = hit
      BY <2>4, NewState
    <3> QED
      BY <1>1, <2>3, <3>1 DEF HandlerState
  <2>5. CASE Goto(h, next)
    <3>1. handler'[h] = next
      BY <2>5, NewState
    <3> QED
      BY <1>1, <2>3, <3>1 DEF HandlerState
  <2>6. CASE Goto(h, Returned(s, FALSE))
    BY <1>4, <2>6
  <2> QED
    BY <1>5, <2>4, <2>5, <2>6 DEF GetLabel
<1>6. CASE CheckExpiry(h)
  BY <1>4, <1>6 DEF CheckExpiry
<1>7. CASE GetCache(h) \/ CheckFresh(h) \/ GetHost(h) \/ MatchRegexps(h)
             \/ StoreCache(h) \/ Reply(h) \/ Exchange(h) \/ Arrive(h)
  <2>1. handler \in [Handler -> HandlerState]
    BY DEF IInv, TypeInv, TypeOK, SrvDNSTypeOK
  <2>2. CASE GetCache(h) \/ CheckFresh(h)
    BY <1>1, <1>3, <2>1, <2>2
       DEF GetCache, CheckFresh, Determine, Goto, HandlerState
  <2>3. CASE GetHost(h) \/ MatchRegexps(h) \/ StoreCache(h)
    BY <1>1, <1>3, <2>1, <2>3
       DEF GetHost, MatchRegexps, StoreCache, Goto, HandlerState
  <2>4. CASE Reply(h) \/ Exchange(h) \/ ReceiveOther(h)
    BY <1>3, <2>1, <2>4 DEF Reply, Exchange, ReceiveOther, Goto, IdleHandler
  <2>5. ASSUME NEW n \in QueryName, NEW t \in QueryType, Receive(h, n, t)
        PROVE  RaceOK(handler[h])'
    BY <1>3, <2>1, <2>5 DEF Receive, Goto, IdleHandler
  <2> QED
    BY <1>7, <2>2, <2>3, <2>4, <2>5 DEF Arrive
<1> QED
  BY <1>2, <1>5, <1>6, <1>7 DEF DNS, HandlerStep

LEMMA StepKeepsRace ==
  ASSUME IInv, RaceInv, [HNext]_hvars
  PROVE  RaceInv'
<1> SUFFICES ASSUME NEW h \in Handler
             PROVE  RaceOK(handler[h])'
  BY DEF RaceInv
<1>1. CASE HNext /\ DNS(h)
  BY <1>1, DNSKeepsRace
<1>2. CASE ~(HNext /\ DNS(h))
  <2> DEFINE s == handler[h]
  <2>1. handler'[h] = s
    BY <1>2, OtherHandlers
       DEF HNext, Next, Janitor, PurgeExpired, HTTP, Ctl, Load, Tick, hvars, vars
  <2>2. SUFFICES ASSUME s.pc \in {"label", "expiry"}
                 PROVE  RaceOK(s)'
    BY <2>1 DEF RaceOK
  <2>3. /\ s.name \in Name /\ s.start \in Nat /\ s.start <= now
        /\ RaceOK(s) /\ s.expires \in Nat
    BY <2>2, Facts DEF ShapeOK, TimelyOK, HandlerState, RaceInv
  <2>4. PICK n \in Name, t \in Nat : n = s.name /\ t = s.start
    BY <2>3
  <2>5. \/ override'[n] = Absent
        \/ override'[n] = override[n] /\ (GrantedSince(n, t) => GrantedSince(n, t)')
        \/ GrantedSince(n, t)'
    BY <2>3, <2>4, GrantedSinceKept
  <2> QED
    BY <2>1, <2>2, <2>3, <2>4, <2>5 DEF RaceOK
<1> QED
  BY <1>1, <1>2

\* A live override goes away by a flush, or by a request for the name that was
\* under way when the grant was made or renewed (checkOverride).
THEOREM GrantLostOnlyInRaceHolds == HSpec => GrantLostOnlyInRace
<1>1. HInit => IInv /\ RaceInv
  BY HInitIInv DEF HInit, Init, SrvDNSInit, IdleHandler, RaceInv, RaceOK
<1>2. IInv /\ RaceInv /\ [HNext]_hvars => IInv' /\ RaceInv'
  BY HNextKeepsIInv, StepKeepsRace
<1>3. ASSUME IInv, RaceInv, [HNext]_hvars, NEW n \in Name, Live(n),
             override'[n] = Absent, ~Ctl
      PROVE  \E h \in Handler : /\ handler[h].name = n /\ Deciding(h)
                               /\ handler[h].start <= granted[n]
  <2>1. override[n] # Absent /\ override[n] \in Nat /\ now <= override[n]
    BY <1>3, StoresTypes DEF Live, IInv
  <2>2. ~HTTP
    <3>1. SUFFICES ASSUME HTTP PROVE FALSE
      OBVIOUS
    <3>2. CASE UNCHANGED override
      BY <1>3, <2>1, <3>2
    <3>3. ASSUME NEW b \in Browser, NEW m \in AllowName, NEW secs \in AllowSecs,
                 AllowStore(b, m, secs)
          PROVE  FALSE
      <4>1. override'[n] \in {override[n], now + secs}
        BY <1>3, <3>3 DEF AllowStore, OverrideStore, IInv, TypeInv, TypeOK, StoresTypeOK
      <4>2. now + secs # Absent
        BY <1>3, Facts, SrvHTTPAssumption DEF Absent
      <4> QED
        BY <1>3, <2>1, <4>1, <4>2
    <3> QED
      BY <3>1, <3>2, <3>3 DEF HTTP, SrvHTTPNext, AllowUncache
  <2>3. override' # override
    BY <1>3, <2>1
  <2>4. PICK h \in Handler : CheckExpiry(h)
    BY <1>3, <2>2, <2>3
       DEF HNext, Next, DNS, Arrive, HandlerStep, Receive, ReceiveOther, GetExact,
           GetLabel, GetCache, CheckFresh, GetHost, MatchRegexps, StoreCache, Reply,
           Exchange, Janitor, PurgeExpired, Load, Tick, hvars, vars, stores
  <2> DEFINE s == handler[h]
  <2>5. s \in HandlerState /\ s.pc = "expiry" /\ RaceOK(s)
    BY <1>3, <2>4, Facts DEF CheckExpiry, RaceInv
  <2>6. now > s.expires /\ s.name = n
    BY <1>3, <2>1, <2>3, <2>4
       DEF CheckExpiry, OverrideDelete, IInv, TypeInv, TypeOK, StoresTypeOK
  <2>7. now \in Nat /\ s.expires \in Nat
    BY <1>3, <2>5, Facts DEF HandlerState
  <2>8. override[n] # s.expires
    BY <2>1, <2>6, <2>7
  <2>9. GrantedSince(n, s.start)
    BY <2>1, <2>5, <2>6, <2>8 DEF RaceOK
  <2> QED
    BY <2>5, <2>6, <2>9 DEF GrantedSince, Deciding
<1>4. IInv /\ RaceInv /\ [HNext]_hvars =>
        [\A n \in Name : Live(n) /\ override'[n] = Absent =>
           \/ Ctl
           \/ \E h \in Handler : /\ handler[h].name = n /\ Deciding(h)
                                /\ handler[h].start <= granted[n]]_hvars
  BY <1>3
<1> QED
  BY <1>1, <1>2, <1>4, PTL DEF HSpec, GrantLostOnlyInRace

=============================================================================
