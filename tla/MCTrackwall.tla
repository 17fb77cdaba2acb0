----------------------------- MODULE MCTrackwall -----------------------------
(***************************************************************************)
(* Constants for model checking Trackwall and TrackwallHistory: a parent   *)
(* domain p and its subdomains c.p and g.c.p, a regexp that matches one of *)
(* them, and several orders of the calls of ReadHosts.                     *)
(***************************************************************************)
EXTENDS TrackwallHistory, TLC

CONSTANTS p, c, g, www, re, h1, h2, b1

Labels     == {p, c, g, www}
Parent     == <<p>>
Child      == <<p, c>>
Grandchild == <<p, c, g>>
WWWParent  == <<p, www>>
Names      == {Parent, Child, WWWParent}
ThreeDeep  == {Parent, Child, Grandchild}

ChildMatched      == {<<re, Child>>}
GrandchildMatched == {<<re, Grandchild>>}

OnlyChild      == {Child}
OnlyGrandchild == {Grandchild}

AddHosts(batch) == [op |-> "Hosts.Add", args |-> batch]
RemoveHosts(batch) == [op |-> "Hosts.Remove", args |-> batch]
AddRegexps(batch) == [op |-> "Regexps.Add", args |-> batch]
RemoveRegexps(batch) == [op |-> "Regexps.Remove", args |-> batch]

\* A list that holds the parent domain, under its "www." name.
LoadParent == << AddHosts(<<WWWParent>>) >>

\* A list with the subdomain, which an unhost removes, and then the parent domain.
LoadUnhostLoad ==
  << AddHosts(<<Child>>), RemoveHosts(<<Child>>), AddHosts(<<WWWParent>>) >>

\* A list with the subdomain two levels down, which an unhost removes, and a
\* regexp twice, of which an unregexp removes one.
LoadAndRemove ==
  << AddHosts(<<Grandchild>>), AddRegexps(<<re, re>>),
     RemoveHosts(<<Grandchild>>), RemoveRegexps(<<re>>) >>

HandlerSymmetry == Permutations({h1, h2})

=============================================================================
