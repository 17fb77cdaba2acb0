------------------------------ MODULE HostLists ------------------------------
(***************************************************************************)
(* Domain names and the two block lists of package cfg: the host list      *)
(* (cfg/hosts.go) and the regular expressions (cfg/regexps.go), as pure    *)
(* operators on the value of the list.  Each operator is what one call     *)
(* does while it holds the list's lock.                                    *)
(***************************************************************************)
EXTENDS Integers, Sequences, FiniteSets

CONSTANTS
  Label,    \* the labels between the dots of a domain name
  WWW,      \* the label "www"
  Name,     \* the domain names of the instance
  Regexp,   \* the regular expressions of the instance
  Matches   \* the pairs <<regexp, name>> for which MatchString(name) is true

(***************************************************************************)
(* A name is its labels, top-level domain first: track.example.net is      *)
(* <<net, example, track>>.  The parents of a name are names.              *)
(***************************************************************************)
ASSUME NameAssumption ==
  /\ Name \subseteq Seq(Label) \ {<< >>}
  /\ \A n \in Name : \A i \in 1..Len(n) : SubSeq(n, 1, i) \in Name

ASSUME RegexpAssumption == Matches \subseteq Regexp \X Name

NoName == << >>   \* stands for "no name" and is not in Name

-----------------------------------------------------------------------------
(* Names *)

\* The name made of the i last labels of n, in dotted order: the value of the
\* loop variable c in the i-th round of the loops over the labels.
Suffix(n, i) == SubSeq(n, 1, i)

Suffixes(n) == {Suffix(n, i) : i \in 1..Len(n)}

\* strings.Replace(host, "www.", "", 1) for a host with prefix "www.".
StripWWW(n) ==
  IF Len(n) > 1 /\ n[Len(n)] = WWW THEN SubSeq(n, 1, Len(n) - 1) ELSE n

-----------------------------------------------------------------------------
(* The host list: the set of the keys of HostList.m *)

\* HostList.Add: hosts are added in order, without their "www." prefix, and
\* the call returns at the first one the list already holds.
HostsAdd(m, batch) ==
  LET new(i) == StripWWW(batch[i])
      isNew(i) == new(i) \notin m \union {new(j) : j \in 1..(i - 1)}
  IN  m \union {new(i) : i \in {k \in 1..Len(batch) : \A j \in 1..k : isNew(j)}}

\* HostList.Remove: the keys are deleted as they are written.
HostsRemove(m, batch) == m \ {batch[i] : i \in 1..Len(batch)}

\* The loop of determineResponse over the labels, taken as one step: some
\* suffix of the name is in the list.
InHosts(m, n) == Suffixes(n) \intersect m # {}

\* The parts of a host list that block the same names.
Reductions(m) ==
  {part \in SUBSET m : \A n \in Name : InHosts(part, n) <=> InHosts(m, n)}

-----------------------------------------------------------------------------
(* The regexps: how often RegexpList.l holds each one.  Their order shows  *)
(* only in Dump.                                                           *)

Occurrences(s, r) == Cardinality({i \in 1..Len(s) : s[i] = r})

\* RegexpList.Add
RegexpsAdd(l, batch) == [r \in Regexp |-> l[r] + Occurrences(batch, r)]

\* RegexpList.Remove: every item of the batch removes one occurrence.
RegexpsRemove(l, batch) ==
  [r \in Regexp |-> IF l[r] > Occurrences(batch, r)
                    THEN l[r] - Occurrences(batch, r)
                    ELSE 0]

\* RegexpList.Match
MatchesAny(l, n) == \E r \in Regexp : l[r] > 0 /\ <<r, n>> \in Matches

=============================================================================
