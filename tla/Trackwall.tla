------------------------------ MODULE Trackwall ------------------------------
(***************************************************************************)
(* The running server: the DNS front end, the HTTP server and the control  *)
(* socket around the shared lists, the main goroutine that fills the block *)
(* lists after the servers have started, and the clock.                    *)
(***************************************************************************)
EXTENDS SrvDNS, SrvHTTP, SrvCtl

CONSTANTS
  LoadSteps,           \* the calls ReadHosts makes on the block lists, in order
  ServeWhileLoading,   \* TRUE: DNS requests arrive while ReadHosts runs
  MaxLag,              \* seconds a handler takes at most to reach its decision
  MaxTime              \* bound on the clock

LoadStep ==
  [op : {"Hosts.Add", "Hosts.Remove"}, args : Seq(Name)]
    \union [op : {"Regexps.Add", "Regexps.Remove"}, args : Seq(Regexp)]

ASSUME TrackwallAssumption ==
  /\ LoadSteps \in Seq(LoadStep)
  /\ ServeWhileLoading \in BOOLEAN
  /\ MaxLag \in Nat
  /\ MaxTime \in Nat

VARIABLE loaded   \* how many of the calls have been made

vars == <<stores, handler, allowing, loaded>>

TypeOK ==
  /\ StoresTypeOK
  /\ SrvDNSTypeOK
  /\ SrvHTTPTypeOK
  /\ loaded \in 0..Len(LoadSteps)

Init == StoresInit /\ SrvDNSInit /\ SrvHTTPInit /\ loaded = 0

\* ReadHosts has not returned yet.
Loading == loaded < Len(LoadSteps)

-----------------------------------------------------------------------------
(* One call of ReadHosts on a block list.  listen() starts the servers     *)
(* first, because remote lists are fetched through this very DNS server.   *)

Load ==
  /\ Loading
  /\ LET step == LoadSteps[loaded + 1]
     IN  \/ /\ step.op = "Hosts.Add"
            /\ hosts' = HostsAdd(hosts, step.args)
            /\ UNCHANGED regexps
         \/ /\ step.op = "Hosts.Remove"
            /\ hosts' = HostsRemove(hosts, step.args)
            /\ UNCHANGED regexps
         \/ /\ step.op = "Regexps.Add"
            /\ regexps' = RegexpsAdd(regexps, step.args)
            /\ UNCHANGED hosts
         \/ /\ step.op = "Regexps.Remove"
            /\ regexps' = RegexpsRemove(regexps, step.args)
            /\ UNCHANGED hosts
  /\ loaded' = loaded + 1
  /\ UNCHANGED <<now, override, cache, handler, allowing>>

\* A second passes.  No handler that is still deciding is left behind by more
\* than MaxLag seconds: its steps are map accesses under short locks.
Tick ==
  /\ now < MaxTime
  /\ \A h \in Handler : Deciding(h) => now < handler[h].start + MaxLag
  /\ now' = now + 1
  /\ UNCHANGED <<hosts, regexps, override, cache, handler, allowing, loaded>>

-----------------------------------------------------------------------------

DNS(h) ==
  /\ \/ Arrive(h) /\ (ServeWhileLoading \/ ~Loading)
     \/ HandlerStep(h)
  /\ UNCHANGED <<allowing, loaded>>

Janitor == PurgeExpired /\ UNCHANGED <<allowing, loaded>>

HTTP == SrvHTTPNext /\ UNCHANGED <<handler, loaded>>

Ctl == (CacheFlush \/ OverrideFlush) /\ UNCHANGED <<handler, allowing, loaded>>

Next == (\E h \in Handler : DNS(h)) \/ Janitor \/ HTTP \/ Ctl \/ Load \/ Tick

Spec == Init /\ [][Next]_vars

=============================================================================
