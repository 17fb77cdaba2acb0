------------------------------ MODULE MCCompile ------------------------------
(***************************************************************************)
(* Constants for model checking Compile: a domain, two subdomains of it,   *)
(* one of them two levels down, and a second domain whose text ends in     *)
(* that of the first (xads.net and ads.net).                               *)
(***************************************************************************)
EXTENDS Compile

CONSTANTS net, ads, xads, s7, www

Labels == {net, ads, xads, s7, www}
AdsNet  == <<net, ads>>
XAdsNet == <<net, xads>>
Names ==
  {<<net>>, AdsNet, XAdsNet, <<net, ads, s7>>, <<net, ads, s7, www>>,
   <<net, xads, s7>>}

EndsInTheMiddle == {<<XAdsNet, AdsNet>>, <<<<net, xads, s7>>, AdsNet>>}

=============================================================================
