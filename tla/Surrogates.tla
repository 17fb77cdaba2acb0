----------------------------- MODULE Surrogates -----------------------------
(***************************************************************************)
(* The scripts that are served in place of blocked ones: the goroutine of  *)
(* ReadHosts, which fills the host list and then lets Surrogates.Add put   *)
(* the scripts in it (cfg/surrogates.go), beside the HTTP requests, which  *)
(* are answered from the start (spoof, srvhttp/srvhttp.go).                *)
(***************************************************************************)
EXTENDS Config

CONSTANTS
  Page,        \* the HTTP requests that can be in progress at the same time
  PageHost,    \* the hosts they are for
  Script,      \* the surrogate scripts
  Empty,       \* the empty script, and the value of a host without one
  BlockPage    \* the page that says that the site is blocked

Surrogate == Regexp \X Script

ASSUME SurrogatesAssumption ==
  /\ PageHost \subseteq Name
  /\ Empty \in Script /\ BlockPage \notin Script

VARIABLES
  calls,        \* the calls ReadHosts has to make; the first may have begun
  adding,       \* Surrogates.Add has the lock of the surrogates
  table,        \* HostList.m: the script of every host in the list
  regexps,      \* RegexpList.l
  surrogates,   \* SurrogateList.l
  unset,        \* the hosts the loop in Surrogates.Add has still to visit
  page          \* the state of each HTTP request

loader == <<calls, adding, table, regexps, surrogates, unset>>

Keys == DOMAIN table

Loaded == calls = << >>

\* How far the loading is: a page remembers how far it was when it began.
Stage == IF Loaded THEN "loaded" ELSE IF adding THEN "adding" ELSE "loading"

PageState ==
  [pc : {"idle", "match", "sent"}, host : PageHost \union {NoName},
   since : {"loading", "adding", "loaded"}, reply : Script \union {BlockPage}]

IdlePage == [pc |-> "idle", host |-> NoName, since |-> "loading", reply |-> BlockPage]

\* A process that starts: its lists are empty, and ReadHosts will make the calls.
Fresh(program) ==
  /\ calls' = program
  /\ adding' = FALSE
  /\ table' = [h \in {} |-> Empty]
  /\ regexps' = [r \in Regexp |-> 0]
  /\ surrogates' = << >>
  /\ unset' = {}

-----------------------------------------------------------------------------
(* ReadHosts *)

\* A call on the hosts or the regexps.  A host that stays keeps its script.
LoadCall ==
  /\ calls # << >> /\ Head(calls).op # "Surrogates.Add"
  /\ table' = [h \in KeysAfter(Keys, Head(calls)) |->
                 IF h \in Keys THEN table[h] ELSE Empty]
  /\ regexps' = RegexpsAfter(regexps, Head(calls))
  /\ calls' = Tail(calls)
  /\ UNCHANGED <<adding, surrogates, unset, page>>

\* Surrogates.Add takes its lock.
AddLock ==
  /\ calls # << >> /\ Head(calls).op = "Surrogates.Add" /\ ~adding
  /\ adding' = TRUE
  /\ UNCHANGED <<calls, table, regexps, surrogates, unset, page>>

\* MatchString
Fits(s, h) == <<s[1], h>> \in Matches

\* The hosts in the list that get the script of a surrogate.
\*
\* Mutant: those that have a script keep it.
FittedFirst(s) == {h \in Keys : Fits(s, h) /\ table[h] = Empty}

Fitted(s) == {h \in Keys : Fits(s, h)}

\* One surrogate is appended, and the loop over Hosts.m begins.
AddNext ==
  /\ adding /\ unset = {} /\ Head(calls).args # << >>
  /\ LET s == Head(Head(calls).args)
     IN  /\ surrogates' = Append(surrogates, s)
         /\ unset' = Fitted(s)
  /\ calls' = [calls EXCEPT ![1].args = Tail(@)]
  /\ UNCHANGED <<adding, table, regexps, page>>

\* Hosts.SetScript, for the hosts in any order
SetScript(h) ==
  /\ h \in unset
  /\ table' = [table EXCEPT ![h] = surrogates[Len(surrogates)][2]]
  /\ unset' = unset \ {h}
  /\ UNCHANGED <<calls, adding, regexps, surrogates, page>>

\* Surrogates.Add, the last call, returns.
AddUnlock ==
  /\ adding /\ unset = {} /\ Head(calls).args = << >>
  /\ adding' = FALSE
  /\ calls' = Tail(calls)
  /\ UNCHANGED <<table, regexps, surrogates, unset, page>>

-----------------------------------------------------------------------------
(* spoof, with Surrogates.Find *)

\* The script of the first surrogate of a list that fits, or the block page.
FirstFit(list, h) ==
  LET fit == {i \in 1..Len(list) : Fits(list[i], h)}
  IN  IF fit = {} THEN BlockPage
      ELSE list[CHOOSE i \in fit : \A j \in fit : i <= j][2]

\* Mutant: a host that is in the list is served what the list has for it.
ExactAny(h) == h \in Keys

Exact(h) == h \in Keys /\ table[h] # Empty

\* Hosts.Get: the script is in the table, or there is a second look.
Request(p, h) ==
  /\ page[p].pc # "match"
  /\ page' = [page EXCEPT ![p] =
       [pc |-> IF Exact(h) THEN "sent" ELSE "match", host |-> h, since |-> Stage,
        reply |-> IF Exact(h) THEN table[h] ELSE BlockPage]]
  /\ UNCHANGED loader

\* match waits for the lock of the surrogates.
Match(p) ==
  /\ page[p].pc = "match" /\ ~adding
  /\ page' = [page EXCEPT ![p].pc = "sent",
                          ![p].reply = FirstFit(surrogates, page[p].host)]
  /\ UNCHANGED loader

-----------------------------------------------------------------------------

ReadHostsStep ==
  \/ LoadCall \/ AddLock \/ AddNext \/ AddUnlock
  \/ \E h \in unset : SetScript(h)

PageStep == \E p \in Page : Match(p) \/ \E h \in PageHost : Request(p, h)

-----------------------------------------------------------------------------
(* Properties *)

Sent(p) == page[p].pc = "sent"

\* The surrogates that fit a host, as indices.
Fitting(h) == {i \in 1..Len(surrogates) : Fits(surrogates[i], h)}

\* Which of them a host is served, which the documentation leaves open: the last
\* one for a host in the list, unless its script is empty, else the first one.
Chosen(h) ==
  LET last  == CHOOSE i \in Fitting(h) : \A j \in Fitting(h) : j <= i
      first == CHOOSE i \in Fitting(h) : \A j \in Fitting(h) : i <= j
  IN  IF h \in Keys /\ surrogates[last][2] # Empty THEN last ELSE first

\* Once the loading is over the table and the list agree: every page that is
\* begun then gets the script that the order of the surrogate lines and the
\* host list determine, and never another one (Surrogates.Add, Find).
ScriptSettled ==
  \A p \in Page : Sent(p) /\ page[p].since = "loaded" =>
    page[p].reply = IF Fitting(page[p].host) = {} THEN BlockPage
                    ELSE surrogates[Chosen(page[p].host)][2]

\* At any time a script that is sent belongs to a surrogate that fits the
\* host; and a page begun after Surrogates.Add has begun, although it reads a
\* half filled table, is a block page only if no surrogate fits (Find).
NoScriptMissed ==
  \A p \in Page : Sent(p) =>
    IF page[p].reply = BlockPage
    THEN page[p].since # "loading" => Fitting(page[p].host) = {}
    ELSE \E i \in Fitting(page[p].host) : surrogates[i][2] = page[p].reply

=============================================================================
