----------------------------- MODULE NameLemmas -----------------------------
(***************************************************************************)
(* Facts about domain names, their suffixes and the operations on the two  *)
(* kinds of lists (HostLists), for the proofs about the modules that use   *)
(* them.                                                                   *)
(***************************************************************************)
EXTENDS HostLists, FiniteSetTheorems, TLAPS

\* The suffixes of a name are names.
LEMMA SuffixesAreNames ==
  ASSUME NEW n \in Name
  PROVE  Suffixes(n) \subseteq Name
BY NameAssumption DEF Suffixes, Suffix

\* A parent domain of a parent domain is a parent domain.
LEMMA SuffixesTransitive ==
  ASSUME NEW n \in Name, NEW s \in Suffixes(n), NEW t \in Suffixes(s)
  PROVE  t \in Suffixes(n)
<1>1. n \in Seq(Label)
  BY NameAssumption
<1>2. PICK i \in 1..Len(n) : s = SubSeq(n, 1, i)
  BY DEF Suffixes, Suffix
<1>3. Len(s) = i /\ \A k \in 1..i : s[k] = n[k]
  BY <1>1, <1>2
<1>4. PICK j \in 1..i : t = SubSeq(s, 1, j)
  BY <1>3 DEF Suffixes, Suffix
<1>5. t = SubSeq(n, 1, j)
  BY <1>1, <1>2, <1>3, <1>4
<1> QED
  BY <1>1, <1>4, <1>5 DEF Suffixes, Suffix

\* A name is one of its own suffixes.
LEMMA SuffixesReflexive ==
  ASSUME NEW n \in Name
  PROVE  n \in Suffixes(n)
<1>1. n \in Seq(Label) /\ n # << >>
  BY NameAssumption
<1>2. Len(n) \in 1..Len(n) /\ n = SubSeq(n, 1, Len(n))
  BY <1>1
<1> QED
  BY <1>2 DEF Suffixes, Suffix

\* A name without its "www." is a parent domain of it, or the name itself.
LEMMA StripWWWIsSuffix ==
  ASSUME NEW n \in Name
  PROVE  StripWWW(n) \in Suffixes(n) /\ StripWWW(n) \in Name
<1>1. n \in Seq(Label) /\ n # << >> /\ Len(n) \in Nat
  BY NameAssumption
<1>2. CASE Len(n) > 1 /\ n[Len(n)] = WWW
  <2>1. StripWWW(n) = Suffix(n, Len(n) - 1) /\ Len(n) - 1 \in 1..Len(n)
    BY <1>1, <1>2 DEF StripWWW, Suffix
  <2>2. StripWWW(n) \in Suffixes(n)
    BY <2>1 DEF Suffixes
  <2> QED
    BY <2>2, SuffixesAreNames
<1>3. CASE ~(Len(n) > 1 /\ n[Len(n)] = WWW)
  BY <1>3, SuffixesReflexive DEF StripWWW
<1> QED
  BY <1>2, <1>3

\* HostList.Add takes nothing from a list, and adds nothing but the hosts of
\* the batch without their "www.".
LEMMA HostsAddBounds ==
  ASSUME NEW m, NEW batch
  PROVE  /\ m \subseteq HostsAdd(m, batch)
         /\ HostsAdd(m, batch) \subseteq
              m \union {StripWWW(batch[i]) : i \in 1..Len(batch)}
BY DEF HostsAdd

\* The types of the operations on the lists.
LEMMA OccurrencesType ==
  ASSUME NEW batch \in Seq(Regexp), NEW r
  PROVE  Occurrences(batch, r) \in Nat
<1> DEFINE positions == {i \in 1..Len(batch) : batch[i] = r}
<1>1. IsFiniteSet(1..Len(batch))
  BY FS_Interval
<1>2. IsFiniteSet(positions)
  BY <1>1, FS_Subset
<1> QED
  BY <1>2, FS_CardinalityType DEF Occurrences

LEMMA HostsAddType ==
  ASSUME NEW m \in SUBSET Name, NEW batch \in Seq(Name)
  PROVE  HostsAdd(m, batch) \subseteq Name
<1>1. \A i \in 1..Len(batch) : StripWWW(batch[i]) \in Name
  BY StripWWWIsSuffix
<1> QED
  BY <1>1 DEF HostsAdd

LEMMA RegexpsAddType ==
  ASSUME NEW l \in [Regexp -> Nat], NEW batch \in Seq(Regexp)
  PROVE  RegexpsAdd(l, batch) \in [Regexp -> Nat]
<1>1. \A r \in Regexp : l[r] + Occurrences(batch, r) \in Nat
  BY OccurrencesType
<1> QED
  BY <1>1 DEF RegexpsAdd

LEMMA RegexpsRemoveType ==
  ASSUME NEW l \in [Regexp -> Nat], NEW batch \in Seq(Regexp)
  PROVE  RegexpsRemove(l, batch) \in [Regexp -> Nat]
<1>1. \A r \in Regexp : l[r] > Occurrences(batch, r) =>
                          l[r] - Occurrences(batch, r) \in Nat
  BY OccurrencesType
<1> QED
  BY <1>1 DEF RegexpsRemove

=============================================================================
