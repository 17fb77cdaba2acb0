------------------------------- MODULE MCSetup -------------------------------
(***************************************************************************)
(* Constants for model checking Setup: a domain with two subdomains, a     *)
(* second domain whose text ends in that of the first, and host lines      *)
(* that share hosts with the lists.                                        *)
(***************************************************************************)
EXTENDS Setup

CONSTANTS net, ads, xads, s7, www, sub, any, sA, sB

Labels == {net, ads, xads, s7, www}
AdsNet    == <<net, ads>>
WWWAdsNet == <<net, ads, www>>
S7AdsNet  == <<net, ads, s7>>
XAdsNet   == <<net, xads>>
S7XAdsNet == <<net, xads, s7>>
Listable  == {<<net>>, AdsNet, <<net, ads, www, www>>, S7AdsNet, XAdsNet, S7XAdsNet}
Names     == Listable \union {WWWAdsNet}
EndsInTheMiddle == {<<XAdsNet, AdsNet>>, <<S7XAdsNet, AdsNet>>}

\* sub matches the subdomain, any every host with "ads" in its text.
Regexps == {sub, any}
MatchPairs == {<<sub, S7AdsNet>>} \union ({any} \X {AdsNet, WWWAdsNet, S7AdsNet, XAdsNet, S7XAdsNet})

Hosts == {S7AdsNet, XAdsNet}

Line(key, args) == [key |-> key, args |-> args]

Base ==
  << Line("surrogate", << <<any, sA>> >>), Line("unhost", <<XAdsNet>>),
     Line("hostlist", <<"list">>), Line("regexplist", <<"regexps">>),
     Line("regexp", <<sub, sub>>), Line("unregexp", <<sub>>) >>

Files ==
  {Base \o << Line("host", h) >> \o more :
     h \in {<<XAdsNet, S7AdsNet>>, <<S7AdsNet, WWWAdsNet>>},
     more \in {<< Line("unhostlist", <<"keep">>) >>,
               << Line("surrogate", << <<sub, sB>> >>), Line("unhost", <<WWWAdsNet>>) >>,
               << Line("surrogate", << <<sub, Empty>> >>) >>}}

\* Every list; the order of its lines does not matter to Hosts.Add.
Contents ==
  {[list |-> SeqExt!SetToSeq(l), keep |-> <<AdsNet>>, regexps |-> <<any>>] :
     l \in SUBSET Listable}

SourcesOf ==
  {[config |-> ConfigOf(f), lists |-> ReadHostsLists(ConfigOf(f), c)] :
     f \in Files, c \in Contents}

=============================================================================
