------------------------------- MODULE SrvCtl -------------------------------
(***************************************************************************)
(* Package srvctl, the commands of the control socket that change shared   *)
(* state.  Each is one call on one list; "status" only reads.              *)
(***************************************************************************)
EXTENDS Stores

\* "cache flush"
CacheFlush ==
  /\ CachePurge
  /\ UNCHANGED <<now, hosts, regexps, override>>

\* "override flush"
OverrideFlush ==
  /\ OverridePurge
  /\ UNCHANGED <<now, hosts, regexps, cache>>

=============================================================================
