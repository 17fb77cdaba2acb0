------------------------------- MODULE MCLists -------------------------------
(***************************************************************************)
(* Constants for model checking Lists: at most two remote lists, two       *)
(* blocked domains, and a domain the lists are served from.                *)
(***************************************************************************)
EXTENDS Lists, TLC

CONSTANTS u1, u2, ads, trk, lst, www, re

Labels   == {ads, trk, lst, www}
Ads      == <<ads>>
Trk      == <<trk>>
ListSite == <<lst>>
WWWAds   == <<ads, www>>
Names    == {Ads, Trk, ListSite, WWWAds}

AddHosts(u) == [op |-> "Hosts.Add", url |-> u]

Served == [u \in Url |-> ListSite]
NoNames == << >>

Nothing == [u \in Url |-> {}]

OneList == << AddHosts(u1) >>

\* The list has one line under a "www." name, and another that comes and goes.
WWWAdsStays == [u \in Url |-> {WWWAds}]
TrkMayCome  == [u \in Url |-> {Trk}]

\* The list has one line and stays as it is.
AdsStays == [u \in Url |-> {Ads}]

=============================================================================
