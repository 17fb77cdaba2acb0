----------------------------- MODULE SetupProofs -----------------------------
(***************************************************************************)
(* What TLAPS proves of the way from the configuration to a server that    *)
(* serves, for every configuration, list, surrogate and page: unhost lines *)
(* take out their own text and nothing else, a compiled file blocks what   *)
(* the lists block but for their expressions, and every page gets the      *)
(* script that the surrogates determine.                                   *)
(***************************************************************************)
EXTENDS Setup, NameLemmas, FiniteSetTheorems, WellFoundedInduction

-----------------------------------------------------------------------------
(* The compile command on its own: in whatever order the maps are visited, *)
(* the compiled file blocks what the lists block, and never more.          *)

\* The inductive invariant: the hosts kept so far and those still to be
\* visited block what the lists block, and the file is written from the former.
SameBlocked == \A n \in Name : InHosts(newHosts \union todo, n) <=> InHosts(hosts, n)

FileFollows ==
  /\ file # NoFile => todo = {} /\ file \subseteq newHosts
  /\ pc = "write" => file # NoFile
  /\ pc = "done" => todo = {} /\ file = newHosts

IInv == TypeOK /\ SameBlocked /\ FileFollows

\* The inner loop of Compile deletes nothing: the name it deletes is not a key.
LEMMA KeepOnlyAdds ==
  ASSUME NEW m, NEW name
  PROVE  Keep(m, name) = m \union {name}
BY DEF Keep

\* A host list that holds more hosts blocks more names.
LEMMA InHostsMonotonic ==
  ASSUME NEW n, NEW a, NEW b, a \subseteq b, InHosts(a, n)
  PROVE  InHosts(b, n)
BY DEF InHosts

\* Leaving a host out of a list changes nothing if a parent domain is in it.
LEMMA RedundantHost ==
  ASSUME NEW n \in Name, NEW a, NEW name \in Name, InHosts(a, name)
  PROVE  InHosts(a \union {name}, n) <=> InHosts(a, n)
<1>1. ASSUME name \in Suffixes(n) PROVE InHosts(a, n)
  <2>1. PICK s \in Suffixes(name) : s \in a
    BY DEF InHosts
  <2>2. s \in Suffixes(n)
    BY <1>1, <2>1, SuffixesTransitive
  <2> QED
    BY <2>1, <2>2 DEF InHosts
<1> QED
  BY <1>1 DEF InHosts

\* Visiting a name keeps the invariant.
LEMMA VisitKeepsIInv ==
  ASSUME IInv, NEW name \in Name, Visit(name)
  PROVE  IInv'
<1> USE DEF IInv
<1>1. TypeOK'
  BY KeepOnlyAdds DEF TypeOK, Visit
<1>2. SameBlocked'
  <2> SUFFICES ASSUME NEW n \in Name
               PROVE  InHosts(newHosts' \union todo', n) <=> InHosts(hosts, n)
    BY DEF SameBlocked, Visit
  <2>1. CASE InHosts(newHosts, name)
    <3>1. newHosts \union todo = (newHosts' \union todo') \union {name}
      BY <2>1 DEF Visit
    <3>2. InHosts(newHosts' \union todo', name)
      BY <2>1, InHostsMonotonic DEF Visit
    <3>3. InHosts(newHosts \union todo, n) <=> InHosts(newHosts' \union todo', n)
      BY <3>1, <3>2, RedundantHost
    <3> QED
      BY <3>3 DEF SameBlocked
  <2>2. CASE ~InHosts(newHosts, name)
    <3>1. newHosts' \union todo' = newHosts \union todo
      BY <2>2, KeepOnlyAdds DEF Visit
    <3> QED
      BY <3>1 DEF SameBlocked
  <2> QED
    BY <2>1, <2>2
<1>3. FileFollows'
  BY DEF FileFollows, Visit, TypeOK
<1> QED
  BY <1>1, <1>2, <1>3

\* So does every step.
LEMMA NextKeepsIInv ==
  ASSUME IInv, [Next]_vars
  PROVE  IInv'
<1>1. ASSUME NEW name \in Name, Visit(name) PROVE IInv'
  BY <1>1, VisitKeepsIInv
<1>2. ASSUME NEW host \in Name, Write(host) PROVE IInv'
  <2>1. file # NoFile /\ file \subseteq newHosts
    BY <1>2 DEF IInv, FileFollows, Write
  <2>2. file' # NoFile
    BY <1>2, <2>1, NameAssumption DEF Write, NoFile, NoName
  <2> QED
    BY <1>2, <2>1, <2>2 DEF IInv, TypeOK, SameBlocked, FileFollows, Write
<1>3. ASSUME Create PROVE IInv'
  BY <1>3 DEF IInv, TypeOK, SameBlocked, FileFollows, Create, NoFile
<1>4. ASSUME Finish PROVE IInv'
  BY <1>4 DEF IInv, TypeOK, SameBlocked, FileFollows, Finish
<1>5. ASSUME Kill PROVE IInv'
  BY <1>5 DEF IInv, TypeOK, SameBlocked, FileFollows, Kill
<1>6. CASE UNCHANGED vars
  BY <1>6 DEF IInv, TypeOK, SameBlocked, FileFollows, vars
<1> QED
  BY <1>1, <1>2, <1>3, <1>4, <1>5, <1>6 DEF Next

THEOREM IInvInvariant == Spec => []IInv
<1>1. Init => IInv
  <2> SUFFICES ASSUME Init PROVE IInv
    OBVIOUS
  <2>1. newHosts \union todo = hosts
    BY DEF Init
  <2> QED
    BY <2>1 DEF Init, IInv, TypeOK, SameBlocked, FileFollows
<1> QED
  BY <1>1, NextKeepsIInv, PTL DEF Spec

\* A finished compilation blocks exactly the names the lists block.
THEOREM CompiledBlocksTheSameHolds == Spec => []CompiledBlocksTheSame
<1>1. IInv => CompiledBlocksTheSame
  BY DEF IInv, SameBlocked, FileFollows, CompiledBlocksTheSame
<1> QED
  BY <1>1, IInvInvariant, PTL

\* At no time does the file block a name the lists do not block.
THEOREM CompiledBlocksNoMoreHolds == Spec => []CompiledBlocksNoMore
<1>1. IInv => CompiledBlocksNoMore
  BY DEF IInv, TypeOK, FileFollows, CompiledBlocksNoMore, InHosts
<1> QED
  BY <1>1, IInvInvariant, PTL

-----------------------------------------------------------------------------
(* The inductive invariant.  It counts the calls ReadHosts has to make     *)
(* from the end: the last five are those of ConfigCalls.                   *)

AnyCall == ListCall \union [op : {"Surrogates.Add"}, args : Seq(Surrogate)]

Ends(program, i, call) == Len(program) >= i => program[Len(program) - i + 1] = call

\* What is left of lists \o ConfigCalls(source.config) while ReadHosts runs.
Program(program) ==
  /\ program \in Seq(AnyCall)
  /\ \A i \in 1..Len(program) : i <= Len(program) - 5 => program[i] \in ListCall
  /\ Ends(program, 5, Call("Hosts.Add", source.config.Hosts))
  /\ Ends(program, 4, Call("Hosts.Remove", source.config.Unhosts))
  /\ Ends(program, 3, Call("Regexps.Add", source.config.Regexps))
  /\ Ends(program, 2, Call("Regexps.Remove", source.config.Unregexps))
  /\ Len(program) >= 1 => program[Len(program)].op = "Surrogates.Add"

Loading ==
  /\ source \in Sources
  /\ Program(calls)
  /\ adding \in BOOLEAN /\ (adding => Len(calls) = 1)
  /\ Keys \subseteq Name
  /\ Len(calls) <= 3 => Keys \intersect Unhosts = {}

\* The compile command before and after it has read its hosts.
Compiling ==
  /\ pc = "read" => hosts = {} /\ todo = {} /\ newHosts = {} /\ file = NoFile
  /\ pc # "read" => IInv
  /\ hosts \subseteq Name /\ hosts \intersect Unhosts = {}
  /\ Serving => started = pc /\ pc \in {"done", "killed"}
  /\ started \in {"no", "done", "killed"}

\* A server that reads the compiled file has added its hosts or will do so.
Restarting ==
  started = "done" /\ (\A h \in hosts : StripWWW(h) = h) =>
    /\ \A i \in 1..Len(calls) : i <= Len(calls) - 5 => calls[i].op = "Hosts.Add"
    /\ \A h \in file : \/ h \in Keys
                       \/ \E i \in 1..Len(calls) : /\ i <= Len(calls) - 5
                                                   /\ calls[i].args = << h >>

\* v is the script of the last of the first n surrogates that fits.
IsLast(n, h, v) ==
  \/ (\A i \in 1..n : ~Fits(surrogates[i], h)) /\ v = Empty
  \/ \E i \in 1..n : /\ Fits(surrogates[i], h) /\ v = surrogates[i][2]
                     /\ \A j \in 1..n : j > i => ~Fits(surrogates[j], h)

\* The scripts in the table are those of the surrogates added so far.
Scripts ==
  /\ surrogates \in Seq(Surrogate)
  /\ ~adding /\ ~Loaded => surrogates = << >>
  /\ unset \subseteq Keys /\ (unset # {} => adding /\ surrogates # << >>)
  /\ \A h \in Keys \ unset : IsLast(Len(surrogates), h, table[h])
  /\ \A h \in unset : IsLast(Len(surrogates) - 1, h, table[h])
  /\ \A h \in unset : Fits(surrogates[Len(surrogates)], h)

PageInv(p) ==
  /\ page[p] \in PageState
  /\ page[p].pc # "idle" => Serving
  /\ page[p].pc # "idle" /\ page[p].since = "loaded" => Loaded
  /\ page[p].pc # "idle" /\ page[p].since = "adding" => adding \/ Loaded
  /\ page[p].pc = "match" /\ page[p].since = "loaded" => ~Exact(page[p].host)
  /\ Sent(p) /\ page[p].since # "loading" /\ page[p].reply = BlockPage => Loaded
  /\ page[p].pc # "idle" => page[p].host \in PageHost

Pages ==
  /\ page \in [Page -> PageState]
  /\ \A p \in Page : PageInv(p)
  /\ ScriptSettled /\ NoScriptMissed

SInv == Loading /\ Compiling /\ Restarting /\ Scripts /\ Pages

-----------------------------------------------------------------------------
(* The calls *)

\* A host without its "www." is a name.
LEMMA StripWWWIsName ==
  ASSUME NEW n \in Name
  PROVE  StripWWW(n) \in Name
<1>1. n \in Seq(Label) /\ \A i \in 1..Len(n) : SubSeq(n, 1, i) \in Name
  BY NameAssumption
<1>2. CASE Len(n) > 1 /\ n[Len(n)] = WWW
  <2>1. Len(n) - 1 \in 1..Len(n)
    BY <1>1, <1>2
  <2> QED
    BY <1>1, <1>2, <2>1 DEF StripWWW
<1>3. CASE ~(Len(n) > 1 /\ n[Len(n)] = WWW)
  BY <1>3 DEF StripWWW
<1> QED
  BY <1>2, <1>3

\* Hosts.Add takes nothing out of the list, and puts names in it.
LEMMA HostsAddGrows ==
  ASSUME NEW m \in SUBSET Name, NEW batch \in Seq(Name)
  PROVE  m \subseteq HostsAdd(m, batch) /\ HostsAdd(m, batch) \subseteq Name
<1>1. \A i \in 1..Len(batch) : StripWWW(batch[i]) \in Name
  BY StripWWWIsName
<1> QED
  BY <1>1 DEF HostsAdd

\* A host that is added on its own is in the list afterwards.
LEMMA HostsAddOne ==
  ASSUME NEW m \in SUBSET Name, NEW h \in Name
  PROVE  StripWWW(h) \in HostsAdd(m, << h >>)
<1> DEFINE batch == << h >>
           new(i) == StripWWW(batch[i])
           isNew(i) == new(i) \notin m \union {new(j) : j \in 1..(i - 1)}
<1>1. Len(batch) = 1 /\ batch[1] = h
  OBVIOUS
<1>2. HostsAdd(m, batch) =
        m \union {new(i) : i \in {k \in 1..Len(batch) : \A j \in 1..k : isNew(j)}}
  BY DEF HostsAdd
<1>3. CASE new(1) \in m
  BY <1>1, <1>2, <1>3
<1>4. CASE new(1) \notin m
  <2>1. isNew(1)
    BY <1>4
  <2>2. \A j \in 1..1 : isNew(j)
    BY <2>1
  <2>3. 1 \in {k \in 1..Len(batch) : \A j \in 1..k : isNew(j)}
    BY <1>1, <2>2
  <2>4. new(1) \in HostsAdd(m, batch)
    BY <1>2, <2>3
  <2> QED
    BY <1>1, <2>4
<1> QED
  BY <1>3, <1>4

\* The elements of two sequences, one after the other.
LEMMA ConcatElements ==
  ASSUME NEW S, NEW a \in Seq(S), NEW b \in Seq(S)
  PROVE  /\ a \o b \in Seq(S) /\ Len(a \o b) = Len(a) + Len(b)
         /\ \A i \in 1..Len(a) : (a \o b)[i] = a[i]
         /\ \A i \in 1..Len(b) : (a \o b)[Len(a) + i] = b[i]
OBVIOUS

\* The calls of the lists, followed by those of the configuration.
LEMMA ProgramAtStart ==
  ASSUME source \in Sources, NEW lists \in Seq(ListCall)
  PROVE  /\ Program(lists \o ConfigCalls(source.config))
         /\ Len(lists \o ConfigCalls(source.config)) = Len(lists) + 5
         /\ \A i \in 1..Len(lists) : (lists \o ConfigCalls(source.config))[i] = lists[i]
<1> DEFINE c == source.config
           tail == ConfigCalls(c)
           all == lists \o tail
<1>1. /\ c.Hosts \in Seq(Name) /\ c.Unhosts \in Seq(Name)
      /\ c.Regexps \in Seq(Regexp) /\ c.Unregexps \in Seq(Regexp)
      /\ c.Surrogates \in Seq(Surrogate)
  BY SetupAssumption
<1>2. /\ Len(tail) = 5
      /\ tail[1] = Call("Hosts.Add", c.Hosts) /\ tail[2] = Call("Hosts.Remove", c.Unhosts)
      /\ tail[3] = Call("Regexps.Add", c.Regexps)
      /\ tail[4] = Call("Regexps.Remove", c.Unregexps)
      /\ tail[5] = Call("Surrogates.Add", c.Surrogates)
  BY DEF ConfigCalls
<1>3. tail[1] \in AnyCall /\ tail[2] \in AnyCall /\ tail[3] \in AnyCall /\ tail[4] \in AnyCall
  BY <1>1, <1>2 DEF AnyCall, ListCall, Call
<1>4. tail[5] \in AnyCall /\ tail[5].op = "Surrogates.Add"
  BY <1>1, <1>2 DEF AnyCall, Call
<1>5. tail \in Seq(AnyCall)
  BY <1>3, <1>4 DEF ConfigCalls
<1>6. lists \in Seq(AnyCall)
  BY DEF AnyCall
<1>7. Len(tail) = 5
  BY <1>2
<1> HIDE DEF tail
<1>8. /\ all \in Seq(AnyCall) /\ Len(all) = Len(lists) + Len(tail)
      /\ \A i \in 1..Len(lists) : all[i] = lists[i]
      /\ \A i \in 1..Len(tail) : all[Len(lists) + i] = tail[i]
  BY <1>5, <1>6, ConcatElements
<1> HIDE DEF all
<1>9. /\ all[Len(lists) + 1] = tail[1] /\ all[Len(lists) + 2] = tail[2]
      /\ all[Len(lists) + 3] = tail[3] /\ all[Len(lists) + 4] = tail[4]
      /\ all[Len(lists) + 5] = tail[5]
  <2>1. /\ 1 \in 1..Len(tail) /\ 2 \in 1..Len(tail) /\ 3 \in 1..Len(tail)
        /\ 4 \in 1..Len(tail) /\ 5 \in 1..Len(tail)
    BY <1>7
  <2> QED
    BY <1>8, <2>1, Zenon
<1>10. all \in Seq(AnyCall) /\ Len(all) = Len(lists) + 5
  BY <1>7, <1>8, Zenon
<1>11. \A i \in 1..Len(lists) : all[i] = lists[i]
  BY <1>8, Zenon
<1>12. /\ all[Len(all) - 4] = tail[1] /\ all[Len(all) - 3] = tail[2]
       /\ all[Len(all) - 2] = tail[3] /\ all[Len(all) - 1] = tail[4]
       /\ all[Len(all)] = tail[5]
  <2>1. Len(lists) \in Nat
    OBVIOUS
  <2>2. /\ Len(all) - 4 = Len(lists) + 1 /\ Len(all) - 3 = Len(lists) + 2
        /\ Len(all) - 2 = Len(lists) + 3 /\ Len(all) - 1 = Len(lists) + 4
    BY <1>10, <2>1
  <2> QED
    BY <1>9, <1>10, <2>2
<1>13. \A i \in 1..Len(all) : i <= Len(all) - 5 => all[i] \in ListCall
  BY <1>10, <1>11
<1>14. Program(all)
  BY <1>2, <1>4, <1>10, <1>12, <1>13 DEF Program, Ends
<1> QED
  BY <1>9, <1>10, <1>14 DEF all, tail

\* Leaving the first call out leaves a program.
LEMMA ProgramTail ==
  ASSUME NEW program, Program(program), program # << >>
  PROVE  /\ Program(Tail(program)) /\ Head(program) \in AnyCall
         /\ Len(Tail(program)) = Len(program) - 1
         /\ \A i \in 1..Len(Tail(program)) : Tail(program)[i] = program[i + 1]
<1>1. program \in Seq(AnyCall) /\ Len(program) \in Nat \ {0}
  BY DEF Program
<1> DEFINE rest == Tail(program)
<1>2. rest \in Seq(AnyCall) /\ Len(rest) = Len(program) - 1 /\ Head(program) \in AnyCall
  BY <1>1
<1>3. \A i \in 1..Len(rest) : rest[i] = program[i + 1]
  BY <1>1
<1> HIDE DEF rest
<1>4. \A k \in 1..5 : Len(rest) >= k =>
        rest[Len(rest) - k + 1] = program[Len(program) - k + 1]
  BY <1>1, <1>2, <1>3
<1>5. \A i \in 1..Len(rest) : i <= Len(rest) - 5 => rest[i] \in ListCall
  BY <1>1, <1>2, <1>3 DEF Program
<1>6. Len(rest) >= 1 => rest[Len(rest)].op = "Surrogates.Add"
  BY <1>1, <1>2, <1>4 DEF Program
<1>7. Program(rest)
  BY <1>1, <1>2, <1>4, <1>5, <1>6 DEF Program, Ends
<1> QED
  BY <1>2, <1>3, <1>7 DEF rest

-----------------------------------------------------------------------------
(* The steps of ReadHosts *)

\* The compile command's part does not look at the loader.
LEMMA CompilingStays ==
  ASSUME Compiling, UNCHANGED <<vars, setup>>
  PROVE  Compiling'
BY DEF Compiling, IInv, TypeOK, SameBlocked, FileFollows, vars, setup, Serving, Unhosts,
       InHosts

\* A call that is not the last one is not on the surrogates.
LEMMA LoadCallKeys ==
  ASSUME SInv, LoadCall
  PROVE  /\ ~adding /\ ~Loaded /\ surrogates = << >> /\ unset = {}
         /\ Len(calls) > 1
         /\ Keys' = KeysAfter(Keys, Head(calls)) /\ Keys' \subseteq Name
         /\ \A h \in Keys' : table'[h] = Empty
<1>1. calls \in Seq(AnyCall) /\ calls # << >> /\ Head(calls).op # "Surrogates.Add"
  BY DEF SInv, Loading, Program, LoadCall
<1>2. Len(calls) >= 1 /\ Head(calls) = calls[1] /\ calls[1] \in AnyCall
  BY <1>1
<1>3. Len(calls) # 1
  <2> SUFFICES ASSUME Len(calls) = 1 PROVE FALSE
    OBVIOUS
  <2>1. calls[1].op = "Surrogates.Add"
    BY DEF SInv, Loading, Program
  <2> QED
    BY <1>1, <1>2, <2>1
<1>4. ~adding /\ ~Loaded
  <2>1. adding => Len(calls) = 1
    BY DEF SInv, Loading
  <2> QED
    BY <1>1, <1>3, <2>1 DEF Loaded
<1>5. Len(calls) > 1
  <2>1. Len(calls) \in Nat
    BY <1>1
  <2> QED
    BY <1>2, <1>3, <2>1
<1>6. surrogates = << >> /\ unset = {}
  BY <1>4 DEF SInv, Scripts
<1>7. Keys' = KeysAfter(Keys, Head(calls))
  BY DEF LoadCall, Keys
<1>8. KeysAfter(Keys, Head(calls)) \subseteq Name
  <2>1. Keys \in SUBSET Name
    BY DEF SInv, Loading
  <2>2. CASE Head(calls).op = "Hosts.Add"
    <3>1. Head(calls).args \in Seq(Name)
      BY <1>2, <2>2 DEF AnyCall, ListCall
    <3> QED
      BY <2>1, <2>2, <3>1, HostsAddGrows DEF KeysAfter
  <2>3. CASE Head(calls).op = "Hosts.Remove"
    BY <2>1, <2>3 DEF KeysAfter, HostsRemove
  <2>4. CASE Head(calls).op \notin {"Hosts.Add", "Hosts.Remove"}
    BY <2>1, <2>4 DEF KeysAfter
  <2> QED
    BY <2>2, <2>3, <2>4
<1>9. \A h \in Keys : table[h] = Empty
  <2>1. Len(surrogates) = 0
    BY <1>6
  <2> QED
    BY <1>6, <2>1 DEF SInv, Scripts, IsLast
<1>10. \A h \in Keys' : table'[h] = Empty
  <2> SUFFICES ASSUME NEW h \in Keys' PROVE table'[h] = Empty
    OBVIOUS
  <2>1. h \in KeysAfter(Keys, Head(calls))
    BY <1>7
  <2>2. table'[h] = IF h \in Keys THEN table[h] ELSE Empty
    BY <2>1 DEF LoadCall
  <2> QED
    BY <1>9, <2>2
<1> QED
  BY <1>5, <1>4, <1>6, <1>7, <1>8, <1>10

LEMMA LoadCallLoading ==
  ASSUME SInv, LoadCall, UNCHANGED <<vars, setup>>
  PROVE  Loading'
<1>1. Program(calls) /\ calls # << >> /\ calls' = Tail(calls)
  BY DEF SInv, Loading, LoadCall
<1>2. Len(calls) > 1 /\ ~adding
  BY LoadCallKeys
<1>3. Program(calls') /\ Len(calls') = Len(calls) - 1
  BY <1>1, ProgramTail
<1>4. Program(calls)'
  BY <1>3 DEF Program, Ends, setup
<1>5. ASSUME Len(calls') <= 3 PROVE Keys' \intersect Unhosts = {}
  <2>1. Head(calls) = calls[1]
    BY <1>1 DEF Program
  <2>2. CASE Len(calls) = 4
    <3>1. Head(calls) = Call("Hosts.Remove", source.config.Unhosts)
      BY <1>1, <2>1, <2>2 DEF Program, Ends
    <3>2. KeysAfter(Keys, Head(calls)) = HostsRemove(Keys, source.config.Unhosts)
      BY <3>1 DEF KeysAfter, Call
    <3> QED
      BY <3>2, LoadCallKeys DEF HostsRemove, Unhosts
  <2>3. CASE Len(calls) = 3
    <3>1. Head(calls) = Call("Regexps.Add", source.config.Regexps)
      BY <1>1, <2>1, <2>3 DEF Program, Ends
    <3>2. KeysAfter(Keys, Head(calls)) = Keys
      BY <3>1 DEF KeysAfter, Call
    <3> QED
      BY <2>3, <3>2, LoadCallKeys DEF SInv, Loading
  <2>4. CASE Len(calls) = 2
    <3>1. Head(calls) = Call("Regexps.Remove", source.config.Unregexps)
      BY <1>1, <2>1, <2>4 DEF Program, Ends
    <3>2. KeysAfter(Keys, Head(calls)) = Keys
      BY <3>1 DEF KeysAfter, Call
    <3> QED
      BY <2>4, <3>2, LoadCallKeys DEF SInv, Loading
  <2> QED
    BY <1>2, <1>3, <1>5, <2>2, <2>3, <2>4
<1>6. adding' \in BOOLEAN /\ ~adding'
  BY <1>2 DEF SInv, Loading, LoadCall
<1>7. Unhosts' = Unhosts /\ source' \in Sources
  BY DEF SInv, Loading, Unhosts, setup
<1> QED
  BY <1>4, <1>5, <1>6, <1>7, LoadCallKeys DEF Loading

\* The number between three and five.
LEMMA FourthOfFive ==
  ASSUME NEW n \in Nat, n > 1, n <= 5, n # 5, n # 3, n # 2
  PROVE  n = 4
OBVIOUS

LEMMA LoadCallRestarting ==
  ASSUME SInv, LoadCall, UNCHANGED <<vars, setup>>
  PROVE  Restarting'
<1> SUFFICES ASSUME started = "done", \A h \in hosts : StripWWW(h) = h
             PROVE  /\ \A i \in 1..Len(calls') : i <= Len(calls') - 5 => calls'[i].op = "Hosts.Add"
                    /\ \A h \in file : \/ h \in Keys'
                                       \/ \E i \in 1..Len(calls') :
                                            i <= Len(calls') - 5 /\ calls'[i].args = << h >>
  BY DEF Restarting, vars, setup
<1>1. Program(calls) /\ calls # << >> /\ calls' = Tail(calls)
  BY DEF SInv, Loading, LoadCall
<1>2. Len(calls) > 1
  BY LoadCallKeys
<1>3. /\ Len(calls') = Len(calls) - 1
      /\ \A i \in 1..Len(calls') : calls'[i] = calls[i + 1]
  BY <1>1, ProgramTail
<1>4. /\ \A i \in 1..Len(calls) : i <= Len(calls) - 5 => calls[i].op = "Hosts.Add"
      /\ \A h \in file : \/ h \in Keys
                         \/ \E i \in 1..Len(calls) :
                              i <= Len(calls) - 5 /\ calls[i].args = << h >>
  BY DEF SInv, Restarting
<1>5. \A i \in 1..Len(calls') : i <= Len(calls') - 5 => calls'[i].op = "Hosts.Add"
  <2> SUFFICES ASSUME NEW i \in 1..Len(calls'), i <= Len(calls') - 5
               PROVE  calls'[i].op = "Hosts.Add"
    OBVIOUS
  <2>1. i + 1 \in 1..Len(calls) /\ i + 1 <= Len(calls) - 5
    BY <1>2, <1>3
  <2> QED
    BY <1>3, <1>4, <2>1
<1>6. Head(calls) = calls[1] /\ calls[1] \in AnyCall /\ Keys \in SUBSET Name
  BY <1>1, <1>2 DEF SInv, Loading, Program
<1>7. file \subseteq hosts /\ hosts \subseteq Name /\ hosts \intersect Unhosts = {}
  BY DEF SInv, Compiling, IInv, TypeOK, FileFollows, Serving
<1>8. ASSUME NEW h \in file, h \in Keys PROVE h \in Keys'
  <2>1. CASE Head(calls).op = "Hosts.Add"
    <3>1. Head(calls).args \in Seq(Name)
      BY <1>6, <2>1 DEF AnyCall, ListCall
    <3> QED
      BY <1>6, <1>8, <2>1, <3>1, HostsAddGrows, LoadCallKeys DEF KeysAfter
  <2>2. CASE Head(calls).op = "Hosts.Remove"
    <3>1. Len(calls) <= 5
      BY <1>2, <1>4, <1>6, <2>2
    <3>2. Len(calls) # 5
      <4> SUFFICES ASSUME Len(calls) = 5 PROVE FALSE
        OBVIOUS
      <4>1. calls[1] = Call("Hosts.Add", source.config.Hosts)
        BY <1>1 DEF Program, Ends
      <4> QED
        BY <1>6, <2>2, <4>1 DEF Call
    <3>3. Len(calls) # 3
      BY <1>1, <1>2, <1>6, <2>2 DEF Program, Ends, Call
    <3>4. Len(calls) # 2
      BY <1>1, <1>2, <1>6, <2>2 DEF Program, Ends, Call
    <3>5. Len(calls) = 4
      <4>1. Len(calls) \in Nat
        BY <1>1 DEF Program
      <4> QED
        BY <1>2, <3>1, <3>2, <3>3, <3>4, <4>1, FourthOfFive
    <3>6. Head(calls) = Call("Hosts.Remove", source.config.Unhosts)
      BY <1>1, <1>6, <3>5 DEF Program, Ends
    <3>7. KeysAfter(Keys, Head(calls)) = HostsRemove(Keys, source.config.Unhosts)
      BY <3>6 DEF KeysAfter, Call
    <3> QED
      BY <1>7, <1>8, <3>7, LoadCallKeys DEF HostsRemove, Unhosts
  <2>3. CASE Head(calls).op \notin {"Hosts.Add", "Hosts.Remove"}
    BY <1>8, <2>3, LoadCallKeys DEF KeysAfter
  <2> QED
    BY <2>1, <2>2, <2>3
<1>9. ASSUME NEW h \in file, NEW i \in 1..Len(calls), i <= Len(calls) - 5,
             calls[i].args = << h >>
      PROVE  \/ h \in Keys'
             \/ \E j \in 1..Len(calls') : j <= Len(calls') - 5 /\ calls'[j].args = << h >>
  <2>1. CASE i = 1
    <3>1. Head(calls).op = "Hosts.Add" /\ Head(calls).args = << h >>
      BY <1>4, <1>6, <1>9, <2>1
    <3>2. Keys' = HostsAdd(Keys, << h >>)
      BY <3>1, LoadCallKeys DEF KeysAfter
    <3>3. StripWWW(h) \in Keys'
      BY <1>6, <1>7, <3>2, HostsAddOne
    <3> QED
      BY <1>7, <3>3
  <2>2. CASE i # 1
    <3>1. i - 1 \in 1..Len(calls') /\ i - 1 <= Len(calls') - 5
      BY <1>2, <1>3, <1>9, <2>2
    <3>2. calls'[i - 1] = calls[i]
      BY <1>3, <3>1
    <3> QED
      BY <1>9, <3>1, <3>2
  <2> QED
    BY <2>1, <2>2
<1> QED
  BY <1>4, <1>5, <1>8, <1>9

LEMMA LoadCallPages ==
  ASSUME SInv, LoadCall, UNCHANGED <<vars, setup>>
  PROVE  Scripts' /\ Pages'
<1>1. Scripts'
  <2>1. surrogates' = << >> /\ unset' = {} /\ Len(surrogates') = 0
    BY LoadCallKeys DEF LoadCall
  <2>2. \A h \in Keys' : IsLast(Len(surrogates), h, table[h])'
    BY <2>1, LoadCallKeys DEF IsLast
  <2> QED
    BY <2>1, <2>2 DEF Scripts
<1>2. page' = page /\ surrogates' = surrogates
  BY DEF LoadCall
<1>3. \A p \in Page : page[p].pc # "idle" => page[p].since = "loading"
  BY LoadCallKeys DEF SInv, Pages, PageInv, PageState
<1>4. ASSUME NEW p \in Page PROVE PageInv(p)'
  BY <1>2, <1>3 DEF SInv, Pages, PageInv, Sent, Serving, setup
<1>5. ScriptSettled'
  BY <1>2, <1>3 DEF ScriptSettled, Sent
<1>6. NoScriptMissed'
  BY <1>2, <1>3 DEF SInv, Pages, NoScriptMissed, Sent, Fitting
<1> QED
  BY <1>1, <1>2, <1>4, <1>5, <1>6 DEF SInv, Pages

-----------------------------------------------------------------------------
(* The steps of Surrogates.Add *)

\* Surrogates.Add is the last call.
LEMMA AddIsLast ==
  ASSUME SInv, calls # << >>, Head(calls).op = "Surrogates.Add"
  PROVE  Len(calls) = 1 /\ calls \in Seq(AnyCall) /\ calls[1].args \in Seq(Surrogate)
<1>1. calls \in Seq(AnyCall) /\ Head(calls) = calls[1] /\ Len(calls) >= 1 /\ calls[1] \in AnyCall
  BY DEF SInv, Loading, Program
<1>2. calls[1].args \in Seq(Surrogate)
  BY <1>1 DEF AnyCall, ListCall
<1>3. Program(calls)
  BY DEF SInv, Loading
<1>4. ~(Len(calls) >= 6)
  BY <1>1, <1>3 DEF Program, ListCall
<1>5. Len(calls) # 5
  <2> SUFFICES ASSUME Len(calls) = 5 PROVE FALSE
    OBVIOUS
  <2> QED
    BY <1>1, <1>3 DEF Program, Ends, Call
<1>6. Len(calls) # 4
  <2> SUFFICES ASSUME Len(calls) = 4 PROVE FALSE
    OBVIOUS
  <2> QED
    BY <1>1, <1>3 DEF Program, Ends, Call
<1>7. Len(calls) # 3
  <2> SUFFICES ASSUME Len(calls) = 3 PROVE FALSE
    OBVIOUS
  <2> QED
    BY <1>1, <1>3 DEF Program, Ends, Call
<1>8. Len(calls) # 2
  <2> SUFFICES ASSUME Len(calls) = 2 PROVE FALSE
    OBVIOUS
  <2> QED
    BY <1>1, <1>3 DEF Program, Ends, Call
<1>9. Len(calls) \in Nat
  BY <1>1
<1>10. \A n \in Nat : n >= 1 /\ ~(n >= 6) /\ n # 5 /\ n # 4 /\ n # 3 /\ n # 2 => n = 1
  OBVIOUS
<1>11. Len(calls) = 1
  BY <1>1, <1>4, <1>5, <1>6, <1>7, <1>8, <1>9, <1>10
<1> QED
  BY <1>1, <1>2, <1>11

\* While it runs it is the only call, and no page counts as begun after it.
LEMMA WhileAdding ==
  ASSUME SInv, adding
  PROVE  /\ Len(calls) = 1 /\ calls \in Seq(AnyCall) /\ calls # << >> /\ ~Loaded
         /\ calls[1] = Head(calls) /\ calls[1].op = "Surrogates.Add"
         /\ calls[1].args \in Seq(Surrogate)
<1>1. Len(calls) = 1 /\ calls \in Seq(AnyCall)
  BY DEF SInv, Loading, Program
<1>2. calls # << >> /\ calls[1] = Head(calls)
  BY <1>1
<1>3. calls[1].op = "Surrogates.Add"
  BY <1>1 DEF SInv, Loading, Program
<1> QED
  BY <1>1, <1>2, <1>3, AddIsLast DEF Loaded

\* A program of one call on the surrogates.
LEMMA ProgramOfOne ==
  ASSUME NEW program \in Seq(AnyCall), Len(program) = 1, program[1].op = "Surrogates.Add"
  PROVE  Program(program)
BY DEF Program, Ends

LEMMA AddLockStep ==
  ASSUME SInv, AddLock, UNCHANGED <<vars, setup>>
  PROVE  SInv'
<1>1. calls # << >> /\ Len(calls) = 1 /\ ~Loaded
  BY AddIsLast DEF AddLock, Loaded
<1>2. surrogates = << >> /\ unset = {}
  BY <1>1 DEF SInv, Scripts, AddLock
<1>3. Loading'
  BY <1>1 DEF SInv, Loading, AddLock, Program, Ends, Unhosts, setup, Keys
<1>4. Restarting'
  BY DEF SInv, Restarting, AddLock, Keys, vars, setup
<1>5. Scripts'
  BY <1>1, <1>2 DEF SInv, Scripts, AddLock, Keys, IsLast, Loaded
<1>6. Pages'
  <2>1. ASSUME NEW p \in Page PROVE PageInv(p)'
    BY <1>1 DEF SInv, Pages, PageInv, AddLock, Sent, Serving, setup, Loaded, Exact, Keys
  <2>2. ScriptSettled'
    BY <1>1 DEF SInv, Pages, PageInv, ScriptSettled, AddLock, Sent
  <2>3. NoScriptMissed'
    BY DEF SInv, Pages, NoScriptMissed, AddLock, Sent, Fitting
  <2> QED
    BY <2>1, <2>2, <2>3 DEF SInv, Pages, AddLock
<1> QED
  BY <1>3, <1>4, <1>5, <1>6, CompilingStays DEF SInv

\* Replacing the only element of a sequence.
LEMMA OneReplaced ==
  ASSUME NEW S, NEW a \in Seq(S), Len(a) = 1, NEW x \in S
  PROVE  [a EXCEPT ![1] = x] \in Seq(S) /\ Len([a EXCEPT ![1] = x]) = 1
         /\ [a EXCEPT ![1] = x][1] = x
OBVIOUS

LEMMA AddNextStep ==
  ASSUME SInv, AddNext, UNCHANGED <<vars, setup>>
  PROVE  SInv'
<1> DEFINE s == Head(Head(calls).args)
<1>1. /\ adding /\ adding' /\ unset = {} /\ table' = table /\ Keys' = Keys /\ page' = page
      /\ surrogates' = Append(surrogates, s) /\ unset' = {h \in Keys : Fits(s, h)}
      /\ Head(calls).args # << >> /\ calls' = [calls EXCEPT ![1].args = Tail(@)]
  BY DEF AddNext, Fitted, Keys
<1>2. /\ Len(calls) = 1 /\ calls \in Seq(AnyCall) /\ calls[1] = Head(calls)
      /\ calls[1].op = "Surrogates.Add" /\ calls[1].args \in Seq(Surrogate) /\ ~Loaded
  BY <1>1, WhileAdding
<1>3. s \in Surrogate /\ Tail(calls[1].args) \in Seq(Surrogate)
  BY <1>1, <1>2
<1>4. calls' \in Seq(AnyCall) /\ Len(calls') = 1 /\ calls'[1].op = "Surrogates.Add"
  <2> DEFINE rest == [calls[1] EXCEPT !.args = Tail(calls[1].args)]
  <2>1. calls[1] \in [op : {"Surrogates.Add"}, args : Seq(Surrogate)]
    <3>1. calls[1] \in AnyCall
      BY <1>2
    <3> QED
      BY <1>2, <3>1 DEF AnyCall, ListCall
  <2>2. rest \in [op : {"Surrogates.Add"}, args : Seq(Surrogate)]
    BY <1>3, <2>1
  <2>3. rest \in AnyCall /\ rest.op = "Surrogates.Add"
    BY <2>2 DEF AnyCall
  <2>4. calls' = [calls EXCEPT ![1] = rest]
    BY <1>1
  <2> HIDE DEF rest
  <2> QED
    BY <1>2, <2>3, <2>4, OneReplaced
<1>5. surrogates \in Seq(Surrogate)
  BY DEF SInv, Scripts
<1>6. PICK n \in Nat : n = Len(surrogates)
  BY <1>5
<1>7. /\ surrogates' \in Seq(Surrogate) /\ Len(surrogates') = n + 1
      /\ surrogates'[n + 1] = s /\ \A i \in 1..n : surrogates'[i] = surrogates[i]
  BY <1>1, <1>3, <1>5, <1>6
<1> HIDE DEF s
<1>8. Loading'
  <2>1. Program(calls)'
    BY <1>4, ProgramOfOne DEF Program, Ends
  <2>2. Keys' \intersect Unhosts' = {} /\ Keys' \subseteq Name
    BY <1>1, <1>2 DEF SInv, Loading, Unhosts, setup
  <2> QED
    BY <1>1, <1>4, <2>1, <2>2 DEF SInv, Loading, setup
<1>9. Restarting'
  <2>1. started = "done" /\ (\A h \in hosts : StripWWW(h) = h) => file \subseteq Keys
    BY <1>2 DEF SInv, Restarting
  <2>2. \A i \in 1..Len(calls') : ~(i <= Len(calls') - 5)
    BY <1>4
  <2> QED
    BY <1>1, <2>1, <2>2 DEF Restarting, vars, setup
<1>10. Scripts'
  <2>1. \A h \in Keys : IsLast(n, h, table[h])
    BY <1>1, <1>6 DEF SInv, Scripts
  <2>2. ASSUME NEW h \in Keys PROVE IsLast(n, h, table[h])'
    <3>1. IsLast(n, h, table[h])
      BY <2>1
    <3> QED
      BY <1>1, <1>7, <3>1 DEF IsLast, Fits
  <2>3. ASSUME NEW h \in Keys, ~Fits(s, h) PROVE IsLast(n + 1, h, table[h])'
    <3>1. IsLast(n, h, table[h])
      BY <2>1
    <3> QED
      <4>1. \A i \in 1..(n + 1) : i \in 1..n \/ i = n + 1
        OBVIOUS
      <4>2. \A i \in 1..n : i \in 1..(n + 1)
        OBVIOUS
      <4>3. ~Fits(surrogates'[n + 1], h)
        BY <1>7, <2>3
      <4> QED
        BY <1>1, <1>7, <3>1, <4>1, <4>2, <4>3 DEF IsLast, Fits
  <2>4. \A h \in unset' : Fits(surrogates[n + 1], h)'
    BY <1>1, <1>7 DEF Fits
  <2>5. Len(surrogates') - 1 = n
    BY <1>6, <1>7
  <2>6. surrogates' # << >>
    BY <1>6, <1>7
  <2>7. \A h \in Keys' \ unset' : IsLast(Len(surrogates), h, table[h])'
    BY <1>1, <1>7, <2>3
  <2>8. \A h \in unset' : IsLast(Len(surrogates) - 1, h, table[h])'
    BY <1>1, <2>2, <2>5
  <2>9. \A h \in unset' : Fits(surrogates[Len(surrogates)], h)'
    BY <1>7, <2>4
  <2>10. unset' \subseteq Keys'
    BY <1>1
  <2> QED
    BY <1>1, <1>7, <2>6, <2>7, <2>8, <2>9, <2>10 DEF Scripts
<1>11. Pages'
  <2>1. ASSUME NEW p \in Page PROVE PageInv(p)'
    BY <1>1, <1>2 DEF SInv, Pages, PageInv, Sent, Serving, setup
  <2>2. ScriptSettled'
    BY <1>1, <1>2 DEF SInv, Pages, PageInv, ScriptSettled, Sent
  <2>3. \A h : Fitting(h) \subseteq Fitting(h)'
    BY <1>6, <1>7 DEF Fitting, Fits
  <2>4. NoScriptMissed'
    <3> SUFFICES ASSUME NEW p \in Page, Sent(p)
                 PROVE  IF page[p].reply = BlockPage
                        THEN page[p].since # "loading" => Fitting(page[p].host)' = {}
                        ELSE \E i \in Fitting(page[p].host)' : surrogates'[i][2] = page[p].reply
      BY <1>1 DEF NoScriptMissed, Sent, Fitting
    <3>1. CASE page[p].reply = BlockPage
      BY <1>2, <3>1 DEF SInv, Pages, PageInv, Sent
    <3>2. CASE page[p].reply # BlockPage
      <4>1. PICK i \in Fitting(page[p].host) : surrogates[i][2] = page[p].reply
        BY <3>2 DEF SInv, Pages, NoScriptMissed
      <4>2. i \in 1..n
        BY <1>6, <4>1 DEF Fitting
      <4> QED
        BY <1>1, <1>7, <2>3, <3>2, <4>1, <4>2
    <3> QED
      BY <3>1, <3>2
  <2> QED
    BY <1>1, <2>1, <2>2, <2>4 DEF SInv, Pages
<1> QED
  BY <1>8, <1>9, <1>10, <1>11, CompilingStays DEF SInv

LEMMA SetScriptStep ==
  ASSUME SInv, NEW h \in unset, SetScript(h), UNCHANGED <<vars, setup>>
  PROVE  SInv'
<1>1. /\ adding /\ ~Loaded /\ Len(calls) = 1 /\ h \in Keys
      /\ surrogates \in Seq(Surrogate) /\ surrogates # << >>
  BY WhileAdding DEF SInv, Scripts
<1>2. PICK n \in Nat : n = Len(surrogates) /\ n >= 1
  BY <1>1
<1>3. /\ Keys' = Keys /\ unset' = unset \ {h} /\ page' = page /\ surrogates' = surrogates
      /\ table'[h] = surrogates[n][2] /\ \A g \in Keys : g # h => table'[g] = table[g]
      /\ calls' = calls /\ adding' = adding
  BY <1>1, <1>2 DEF SetScript, Keys
<1>4. Loading'
  BY <1>3 DEF SInv, Loading, Program, Ends, Unhosts, setup
<1>5. Restarting'
  BY <1>3 DEF SInv, Restarting, vars, setup
<1>6. Scripts'
  <2>1. Fits(surrogates[n], h)
    BY <1>2 DEF SInv, Scripts
  <2>2. IsLast(n, h, table'[h])
    BY <1>2, <1>3, <2>1 DEF IsLast
  <2>3. \A g \in Keys \ unset : IsLast(n, g, table[g])
    BY <1>2 DEF SInv, Scripts
  <2>4. \A g \in Keys \ unset' : IsLast(n, g, table'[g])
    BY <1>3, <2>2, <2>3
  <2>5. \A g \in unset' : g \in Keys /\ table'[g] = table[g]
    BY <1>3 DEF SInv, Scripts
  <2>6. \A g \in unset : IsLast(n - 1, g, table[g]) /\ Fits(surrogates[n], g)
    BY <1>2 DEF SInv, Scripts
  <2>7. \A g \in unset' : IsLast(n - 1, g, table'[g]) /\ Fits(surrogates[n], g)
    BY <1>3, <2>5, <2>6
  <2>8. \A g \in Keys' \ unset' : IsLast(Len(surrogates), g, table[g])'
    BY <1>2, <1>3, <2>4 DEF IsLast
  <2>9. \A g \in unset' : IsLast(Len(surrogates) - 1, g, table[g])' /\ Fits(surrogates[Len(surrogates)], g)'
    BY <1>2, <1>3, <2>7 DEF IsLast, Fits
  <2> QED
    BY <1>1, <1>3, <2>5, <2>8, <2>9 DEF Scripts, Loaded
<1>7. Pages'
  <2>1. ASSUME NEW p \in Page PROVE PageInv(p)'
    BY <1>1, <1>3 DEF SInv, Pages, PageInv, Sent, Serving, setup
  <2>2. ScriptSettled'
    BY <1>1, <1>3 DEF SInv, Pages, PageInv, ScriptSettled, Sent
  <2>3. NoScriptMissed'
    BY <1>3 DEF SInv, Pages, NoScriptMissed, Sent, Fitting
  <2> QED
    BY <1>3, <2>1, <2>2, <2>3 DEF SInv, Pages
<1> QED
  BY <1>4, <1>5, <1>6, <1>7, CompilingStays DEF SInv

LEMMA AddUnlockStep ==
  ASSUME SInv, AddUnlock, UNCHANGED <<vars, setup>>
  PROVE  SInv'
<1>1. /\ adding /\ ~adding' /\ adding' \in BOOLEAN /\ unset = {} /\ Keys' = Keys
      /\ UNCHANGED <<table, surrogates, unset, page>> /\ calls' = Tail(calls)
  BY DEF AddUnlock, Keys
<1>2. Len(calls) = 1 /\ calls \in Seq(AnyCall) /\ ~Loaded
  BY <1>1, WhileAdding
<1>3. calls' = << >> /\ Len(calls') = 0 /\ Loaded'
  BY <1>1, <1>2 DEF Loaded
<1>4. Loading'
  <2>1. Program(calls)'
    BY <1>3 DEF Program, Ends
  <2>2. Keys' \intersect Unhosts' = {} /\ Keys' \subseteq Name
    BY <1>1, <1>2 DEF SInv, Loading, Unhosts, setup
  <2> QED
    BY <1>1, <2>1, <2>2 DEF SInv, Loading, setup
<1>5. Restarting'
  <2>1. started = "done" /\ (\A h \in hosts : StripWWW(h) = h) => file \subseteq Keys
    BY <1>2 DEF SInv, Restarting
  <2> QED
    BY <1>1, <1>3, <2>1 DEF Restarting, vars, setup
<1>6. Scripts'
  BY <1>1, <1>3 DEF SInv, Scripts, IsLast
<1>7. Pages'
  <2>1. ASSUME NEW p \in Page PROVE PageInv(p)'
    BY <1>1, <1>2, <1>3 DEF SInv, Pages, PageInv, Sent, Serving, setup
  <2>2. ScriptSettled'
    BY <1>1, <1>2 DEF SInv, Pages, PageInv, ScriptSettled, Sent
  <2>3. NoScriptMissed'
    BY <1>1 DEF SInv, Pages, NoScriptMissed, Sent, Fitting
  <2> QED
    BY <1>1, <2>1, <2>2, <2>3 DEF SInv, Pages
<1> QED
  BY <1>4, <1>5, <1>6, <1>7, CompilingStays DEF SInv

-----------------------------------------------------------------------------
(* The pages *)

\* A set of numbers has a least one.
LEMMA LeastByRelation ==
  ASSUME NEW R, IsWellFoundedOn(R, Nat), \A x, y \in Nat : y < x => <<y, x>> \in R,
         NEW T, T \subseteq Nat, T # {}
  PROVE  \E x \in T : \A y \in T : x <= y
<1>1. PICK x \in T : \A y \in T : ~(<<y, x>> \in R)
  BY WFMin
<1> SUFFICES ASSUME NEW y \in T PROVE x <= y
  OBVIOUS
<1>2. ~(y < x)
  BY <1>1
<1> QED
  BY <1>2

LEMMA LeastNumber ==
  ASSUME NEW T, T \subseteq Nat, T # {}
  PROVE  \E x \in T : \A y \in T : x <= y
<1>1. \A x, y \in Nat : y < x => <<y, x>> \in OpToRel(<, Nat)
  BY DEF OpToRel
<1> QED
  BY <1>1, NatLessThanWellFounded, LeastByRelation

\* What a page is served while nobody adds surrogates, from the list of them.
LEMMA FirstFitFits ==
  ASSUME NEW list \in Seq(Surrogate), NEW h,
         NEW fit, fit = {i \in 1..Len(list) : Fits(list[i], h)}
  PROVE  /\ fit = {} => FirstFit(list, h) = BlockPage
         /\ fit # {} => \E i \in fit : /\ \A j \in fit : i <= j
                                      /\ FirstFit(list, h) = list[i][2]
                                      /\ i = CHOOSE k \in fit : \A j \in fit : k <= j
<1>1. FirstFit(list, h) = IF fit = {} THEN BlockPage
                          ELSE list[CHOOSE i \in fit : \A j \in fit : i <= j][2]
  BY DEF FirstFit
<1>2. fit # {} => \E i \in fit : \A j \in fit : i <= j
  <2>1. fit \subseteq Nat
    OBVIOUS
  <2> QED
    BY <2>1, LeastNumber
<1> DEFINE first == CHOOSE i \in fit : \A j \in fit : i <= j
<1>3. fit # {} => first \in fit /\ \A j \in fit : first <= j
  BY <1>2
<1> QED
  BY <1>1, <1>3

\* The scripts that are sent are scripts.
LEMMA FittingScript ==
  ASSUME Scripts, NEW h, NEW i \in Fitting(h)
  PROVE  surrogates[i][2] \in Script
<1>1. surrogates[i] \in Surrogate
  BY DEF Scripts, Fitting
<1> QED
  BY <1>1 DEF Surrogate

\* A host with a script in the table has it from a surrogate that fits.
LEMMA TableFits ==
  ASSUME SInv, NEW h \in Keys, table[h] # Empty
  PROVE  /\ \E i \in Fitting(h) : surrogates[i][2] = table[h]
         /\ Loaded => /\ Fitting(h) # {}
                      /\ surrogates[Chosen(h)][2] = table[h]
<1>1. surrogates \in Seq(Surrogate)
  BY DEF SInv, Scripts
<1>2. PICK n \in Nat : n = Len(surrogates)
  BY <1>1
<1>3. IsLast(n, h, table[h]) \/ (h \in unset /\ IsLast(n - 1, h, table[h]))
  BY <1>2 DEF SInv, Scripts
<1>4. \E i \in Fitting(h) : surrogates[i][2] = table[h]
  <2>1. CASE IsLast(n, h, table[h])
    BY <1>2, <2>1 DEF IsLast, Fitting
  <2>2. CASE IsLast(n - 1, h, table[h])
    <3>1. PICK i \in 1..(n - 1) : Fits(surrogates[i], h) /\ table[h] = surrogates[i][2]
      BY <2>2 DEF IsLast
    <3>2. i \in 1..n
      BY <3>1
    <3> QED
      BY <1>2, <3>1, <3>2 DEF Fitting
  <2> QED
    BY <1>3, <2>1, <2>2
<1>5. ASSUME Loaded PROVE surrogates[Chosen(h)][2] = table[h]
  <2>1. unset = {}
    BY <1>5, WhileAdding DEF SInv, Scripts
  <2>2. PICK i \in 1..n : /\ Fits(surrogates[i], h) /\ table[h] = surrogates[i][2]
                          /\ \A j \in 1..n : j > i => ~Fits(surrogates[j], h)
    BY <1>3, <2>1 DEF IsLast
  <2>3. i \in Fitting(h) /\ \A j \in Fitting(h) : j \in 1..n /\ j <= i
    BY <1>2, <2>2 DEF Fitting
  <2> DEFINE last == CHOOSE k \in Fitting(h) : \A j \in Fitting(h) : j <= k
  <2>4. last \in Fitting(h) /\ \A j \in Fitting(h) : j <= last
    BY <2>3
  <2>5. h \in Keys /\ surrogates[last][2] # Empty => Chosen(h) = last
    BY DEF Chosen
  <2> HIDE DEF last
  <2>6. last \in Nat /\ i \in Nat /\ i <= last /\ last <= i
    BY <1>2, <2>3, <2>4
  <2>7. last = i
    BY <2>6
  <2> QED
    BY <2>2, <2>5, <2>7
<1> QED
  BY <1>4, <1>5

\* The steps of the pages and of the compile command leave the loading alone.
LEMMA LoadingStays ==
  ASSUME SInv, UNCHANGED loader, UNCHANGED setup
  PROVE  Loading' /\ Scripts'
<1>1. UNCHANGED <<calls, adding, table, regexps, surrogates, unset>> /\ Keys' = Keys
  BY DEF loader, Keys
<1>2. Loading'
  BY <1>1 DEF SInv, Loading, Program, Ends, Unhosts, setup
<1>3. Scripts'
  <2>1. \A n, h, v : IsLast(n, h, v)' = IsLast(n, h, v)
    BY <1>1 DEF IsLast, Fits
  <2> QED
    BY <1>1 DEF SInv, Scripts, Fits, Loaded, IsLast
<1> QED
  BY <1>2, <1>3

LEMMA LoaderStays ==
  ASSUME SInv, UNCHANGED loader, UNCHANGED <<vars, setup>>
  PROVE  Loading' /\ Restarting' /\ Scripts'
<1>1. calls' = calls /\ Keys' = Keys
  BY DEF loader, Keys
<1> QED
  BY <1>1, LoadingStays DEF SInv, Restarting, vars, setup

LEMMA RequestStep ==
  ASSUME SInv, Serving, NEW p \in Page, NEW h \in PageHost, Request(p, h),
         UNCHANGED <<vars, setup>>
  PROVE  SInv'
<1>1. /\ UNCHANGED <<calls, adding, table, regexps, surrogates, unset, loader>>
      /\ Keys' = Keys
  BY DEF Request, loader, Keys
<1>2. Loading' /\ Restarting' /\ Scripts'
  BY <1>1, LoaderStays
<1> DEFINE new == [pc |-> IF Exact(h) THEN "sent" ELSE "match", host |-> h, since |-> Stage,
                   reply |-> IF Exact(h) THEN table[h] ELSE BlockPage]
<1>3. page \in [Page -> PageState] /\ page' = [page EXCEPT ![p] = new]
  BY DEF SInv, Pages, Request
<1>4. Stage \in {"loading", "adding", "loaded"}
  BY DEF Stage
<1>5. Exact(h) => /\ h \in Keys /\ table[h] # Empty /\ table[h] \in Script
                  /\ \E i \in Fitting(h) : surrogates[i][2] = table[h]
                  /\ Loaded => Fitting(h) # {} /\ surrogates[Chosen(h)][2] = table[h]
  BY TableFits, FittingScript DEF Exact, SInv
<1>6. new \in PageState
  <2>1. new.reply \in Script \union {BlockPage}
    BY <1>5
  <2> QED
    BY <1>4, <2>1 DEF PageState
<1>7. /\ new.pc = (IF Exact(h) THEN "sent" ELSE "match") /\ new.host = h /\ new.since = Stage
      /\ new.reply = (IF Exact(h) THEN table[h] ELSE BlockPage)
  OBVIOUS
<1> HIDE DEF new
<1>8. page' \in [Page -> PageState] /\ page'[p] = new
      /\ \A q \in Page : q # p => page'[q] = page[q]
  BY <1>3, <1>6
<1>9. ASSUME NEW q \in Page PROVE PageInv(q)'
  <2>1. CASE q # p
    BY <1>1, <1>8, <2>1 DEF SInv, Pages, PageInv, Sent, Serving, Loaded, Exact, setup
  <2>2. CASE q = p
    <3>1. Stage = "loaded" => Loaded
      BY DEF Stage
    <3>2. Stage = "adding" => adding
      BY DEF Stage
    <3>3. Exact(h)' = Exact(h) /\ Loaded' = Loaded /\ Serving'
      BY <1>1 DEF Exact, Loaded, Serving, setup
    <3>4. page'[q] = new /\ page'[q] \in PageState
      BY <1>6, <1>8, <2>2
    <3>5. new.pc = "match" => ~Exact(h)
      BY <1>7
    <3>6. ~(new.pc = "sent" /\ new.reply = BlockPage)
      BY <1>5, <1>7, SurrogatesAssumption
    <3>7. Exact(page[q].host)' = Exact(h)
      BY <1>1, <1>7, <3>4 DEF Exact
    <3> QED
      BY <1>1, <1>7, <3>1, <3>2, <3>3, <3>4, <3>5, <3>6, <3>7 DEF PageInv, Sent
  <2> QED
    BY <2>1, <2>2
<1>10. \A g : Fitting(g)' = Fitting(g) /\ Chosen(g)' = Chosen(g)
  BY <1>1 DEF Fitting, Chosen, Fits
<1>11. ScriptSettled'
  <2> SUFFICES ASSUME NEW q \in Page, page'[q].pc = "sent", page'[q].since = "loaded"
               PROVE  page'[q].reply = IF Fitting(page'[q].host) = {} THEN BlockPage
                                       ELSE surrogates[Chosen(page'[q].host)][2]
    BY <1>1, <1>10 DEF ScriptSettled, Sent
  <2>1. CASE q # p
    BY <1>8, <2>1 DEF SInv, Pages, ScriptSettled, Sent
  <2>2. CASE q = p
    <3>1. Exact(h) /\ Loaded
      BY <1>7, <1>8, <2>2 DEF Stage
    <3> QED
      BY <1>5, <1>7, <1>8, <2>2, <3>1
  <2> QED
    BY <2>1, <2>2
<1>12. NoScriptMissed'
  <2> SUFFICES ASSUME NEW q \in Page, page'[q].pc = "sent"
               PROVE  IF page'[q].reply = BlockPage
                      THEN page'[q].since # "loading" => Fitting(page'[q].host) = {}
                      ELSE \E i \in Fitting(page'[q].host) : surrogates[i][2] = page'[q].reply
    BY <1>1, <1>10 DEF NoScriptMissed, Sent
  <2>1. CASE q # p
    BY <1>8, <2>1 DEF SInv, Pages, NoScriptMissed, Sent
  <2>2. CASE q = p
    <3>1. Exact(h)
      BY <1>7, <1>8, <2>2
    <3>2. page'[q].reply = table[h] /\ page'[q].host = h /\ table[h] # BlockPage
      BY <1>5, <1>7, <1>8, <2>2, <3>1, SurrogatesAssumption
    <3> QED
      BY <1>5, <3>1, <3>2
  <2> QED
    BY <2>1, <2>2
<1> QED
  BY <1>2, <1>8, <1>9, <1>11, <1>12, CompilingStays DEF SInv, Pages

\* The choice made by match is the one the table leaves to it.
LEMMA MatchChooses ==
  ASSUME SInv, Loaded, NEW h, ~Exact(h), Fitting(h) # {}
  PROVE  FirstFit(surrogates, h) = surrogates[Chosen(h)][2]
<1>1. surrogates \in Seq(Surrogate) /\ Fitting(h) = {i \in 1..Len(surrogates) : Fits(surrogates[i], h)}
  BY DEF SInv, Scripts, Fitting
<1>2. PICK n \in Nat : n = Len(surrogates)
  BY <1>1
<1> DEFINE last  == CHOOSE i \in Fitting(h) : \A j \in Fitting(h) : j <= i
           first == CHOOSE i \in Fitting(h) : \A j \in Fitting(h) : i <= j
<1>3. FirstFit(surrogates, h) = surrogates[first][2]
  BY <1>1, FirstFitFits
<1>4. h \in Keys => surrogates[last][2] = Empty
  <2> SUFFICES ASSUME h \in Keys PROVE surrogates[last][2] = Empty
    OBVIOUS
  <2>1. unset = {} /\ table[h] = Empty
    BY WhileAdding DEF SInv, Scripts, Exact
  <2>2. IsLast(n, h, Empty)
    BY <1>2, <2>1 DEF SInv, Scripts
  <2>3. PICK i \in 1..n : /\ Fits(surrogates[i], h) /\ Empty = surrogates[i][2]
                          /\ \A j \in 1..n : j > i => ~Fits(surrogates[j], h)
    BY <1>1, <1>2, <2>2 DEF IsLast
  <2>4. i \in Fitting(h) /\ \A j \in Fitting(h) : j \in 1..n /\ j <= i
    BY <1>2, <2>3 DEF Fitting
  <2>5. last \in Fitting(h) /\ \A j \in Fitting(h) : j <= last
    BY <2>4
  <2> HIDE DEF last
  <2>6. last \in Nat /\ i \in Nat /\ i <= last /\ last <= i
    BY <1>2, <2>4, <2>5
  <2>7. last = i
    BY <2>6
  <2> QED
    BY <2>3, <2>7
<1>5. Chosen(h) = first
  BY <1>4 DEF Chosen
<1> QED
  BY <1>3, <1>5

LEMMA MatchStep ==
  ASSUME SInv, NEW p \in Page, Match(p), UNCHANGED <<vars, setup>>
  PROVE  SInv'
<1>1. /\ UNCHANGED <<calls, adding, table, regexps, surrogates, unset, loader>>
      /\ Keys' = Keys
  BY DEF Match, loader, Keys
<1>2. Loading' /\ Restarting' /\ Scripts'
  BY <1>1, LoaderStays
<1> DEFINE h   == page[p].host
           fit == Fitting(h)
           reply == FirstFit(surrogates, h)
<1>3. page[p] \in PageState /\ page[p].pc = "match" /\ ~adding /\ PageInv(p)
  BY DEF SInv, Pages, Match
<1>4. /\ page' \in [Page -> [pc : {"idle", "match", "sent"}, host : PageHost \union {NoName},
                             since : {"loading", "adding", "loaded"},
                             reply : Script \union {BlockPage, reply}]]
      /\ page'[p].pc = "sent" /\ page'[p].host = h /\ page'[p].since = page[p].since
      /\ page'[p].reply = reply
      /\ \A q \in Page : q # p => page'[q] = page[q]
  BY DEF SInv, Pages, Match, PageState
<1>5. /\ fit = {} => reply = BlockPage
      /\ fit # {} => \E i \in fit : reply = surrogates[i][2]
  <2>1. surrogates \in Seq(Surrogate) /\ fit = {i \in 1..Len(surrogates) : Fits(surrogates[i], h)}
    BY DEF SInv, Scripts, Fitting
  <2> HIDE DEF fit, h
  <2> QED
    BY <2>1, FirstFitFits
<1>6. reply \in Script \union {BlockPage} /\ (fit # {} => reply \in Script)
  BY <1>5, FittingScript DEF SInv
<1> HIDE DEF h, fit, reply
<1>7. page' \in [Page -> PageState]
  BY <1>4, <1>6 DEF PageState
<1>8. page[p].since # "loading" => Loaded
  BY <1>3 DEF PageInv, PageState
<1>9. ASSUME NEW q \in Page PROVE PageInv(q)'
  <2>1. CASE q # p
    BY <1>1, <1>4, <2>1 DEF SInv, Pages, PageInv, Sent, Serving, Loaded, Exact, setup
  <2>2. CASE q = p
    BY <1>1, <1>3, <1>4, <1>7, <1>8, <2>2 DEF PageInv, Sent, Serving, Loaded, setup, h
  <2> QED
    BY <2>1, <2>2
<1>10. \A g : Fitting(g)' = Fitting(g) /\ Chosen(g)' = Chosen(g)
  BY <1>1 DEF Fitting, Chosen, Fits
<1>11. ScriptSettled'
  <2> SUFFICES ASSUME NEW q \in Page, page'[q].pc = "sent", page'[q].since = "loaded"
               PROVE  page'[q].reply = IF Fitting(page'[q].host) = {} THEN BlockPage
                                       ELSE surrogates[Chosen(page'[q].host)][2]
    BY <1>1, <1>10 DEF ScriptSettled, Sent
  <2>1. CASE q # p
    BY <1>4, <2>1 DEF SInv, Pages, ScriptSettled, Sent
  <2>2. CASE q = p
    <3>1. Loaded /\ ~Exact(h)
      BY <1>3, <1>4, <2>2 DEF PageInv, h
    <3>2. fit # {} => reply = surrogates[Chosen(h)][2]
      BY <3>1, MatchChooses DEF fit, reply
    <3> QED
      BY <1>4, <1>5, <2>2, <3>2 DEF fit
  <2> QED
    BY <2>1, <2>2
<1>12. NoScriptMissed'
  <2> SUFFICES ASSUME NEW q \in Page, page'[q].pc = "sent"
               PROVE  IF page'[q].reply = BlockPage
                      THEN page'[q].since # "loading" => Fitting(page'[q].host) = {}
                      ELSE \E i \in Fitting(page'[q].host) : surrogates[i][2] = page'[q].reply
    BY <1>1, <1>10 DEF NoScriptMissed, Sent
  <2>1. CASE q # p
    BY <1>4, <2>1 DEF SInv, Pages, NoScriptMissed, Sent
  <2>2. CASE q = p
    BY <1>4, <1>5, <1>6, <2>2, SurrogatesAssumption DEF fit
  <2> QED
    BY <2>1, <2>2
<1> QED
  BY <1>2, <1>7, <1>9, <1>11, <1>12, CompilingStays DEF SInv, Pages

-----------------------------------------------------------------------------
(* The steps of the compile command, and the start of the server *)

LEMMA PagesStay ==
  ASSUME SInv, UNCHANGED loader, UNCHANGED setup, UNCHANGED page
  PROVE  Pages'
<1>1. UNCHANGED <<calls, adding, table, regexps, surrogates, unset>> /\ Keys' = Keys
  BY DEF loader, Keys
<1>2. \A g : Fitting(g)' = Fitting(g) /\ Chosen(g)' = Chosen(g)
  BY <1>1 DEF Fitting, Chosen, Fits
<1>3. ASSUME NEW p \in Page PROVE PageInv(p)'
  BY <1>1 DEF SInv, Pages, PageInv, Sent, Serving, Loaded, Exact, setup
<1>4. ScriptSettled'
  BY <1>1, <1>2 DEF SInv, Pages, ScriptSettled, Sent
<1>5. NoScriptMissed'
  BY <1>1, <1>2 DEF SInv, Pages, NoScriptMissed, Sent
<1> QED
  BY <1>3, <1>4, <1>5 DEF SInv, Pages

LEMMA BeginStep ==
  ASSUME SInv, Begin
  PROVE  SInv'
<1>1. /\ pc = "read" /\ Loaded /\ ~Serving
      /\ hosts' = Keys /\ todo' = Keys /\ pc' = "visit" /\ newHosts' = {} /\ file' = NoFile
      /\ UNCHANGED loader /\ UNCHANGED setup /\ UNCHANGED page
  BY DEF SInv, Compiling, Begin
<1>2. Keys \subseteq Name /\ Keys \intersect Unhosts = {}
  BY <1>1 DEF SInv, Loading, Loaded
<1>3. IInv'
  <2>1. TypeOK'
    BY <1>1, <1>2 DEF TypeOK
  <2>2. SameBlocked'
    <3>1. newHosts' \union todo' = hosts'
      BY <1>1
    <3> QED
      BY <3>1 DEF SameBlocked
  <2> QED
    BY <1>1, <2>1, <2>2 DEF IInv, FileFollows
<1>4. Compiling'
  BY <1>1, <1>2, <1>3 DEF SInv, Compiling, Serving, Unhosts, setup
<1>5. Restarting'
  BY <1>1 DEF Restarting, Serving, setup
<1> QED
  BY <1>1, <1>4, <1>5, LoadingStays, PagesStay DEF SInv

LEMMA KillReadingStep ==
  ASSUME SInv, KillReading
  PROVE  SInv'
<1>1. /\ pc = "read" /\ ~Serving
      /\ hosts' = {} /\ todo' = {} /\ pc' = "killed" /\ newHosts' = {} /\ file' = NoFile
      /\ UNCHANGED loader /\ UNCHANGED setup /\ UNCHANGED page
  BY DEF SInv, Compiling, KillReading
<1>2. IInv'
  BY <1>1 DEF IInv, TypeOK, SameBlocked, FileFollows
<1>3. Compiling'
  BY <1>1, <1>2 DEF SInv, Compiling, Serving, Unhosts, setup
<1>4. Restarting'
  BY <1>1 DEF Restarting, Serving, setup
<1> QED
  BY <1>1, <1>3, <1>4, LoadingStays, PagesStay DEF SInv

\* The command has read the hosts, and has not ended, when it compiles.
LEMMA CompileStep ==
  ASSUME SInv, Next, UNCHANGED <<loader, page, setup>>
  PROVE  SInv'
<1>1. pc \in {"visit", "write"} /\ hosts' = hosts /\ pc' \in {"visit", "write", "done", "killed"}
  BY DEF Next, Visit, Write, Create, Finish, Kill
<1>2. ~Serving /\ IInv
  BY <1>1 DEF SInv, Compiling
<1>3. IInv'
  BY <1>2, NextKeepsIInv
<1>4. UNCHANGED loader /\ UNCHANGED setup /\ UNCHANGED page
  OBVIOUS
<1>5. Compiling'
  BY <1>1, <1>2, <1>3, <1>4 DEF SInv, Compiling, Serving, Unhosts, setup
<1>6. Restarting'
  BY <1>2, <1>4 DEF Restarting, Serving, setup
<1> QED
  BY <1>4, <1>5, <1>6, LoadingStays, PagesStay DEF SInv

\* A process that starts has everything to load.
LEMMA FreshLoader ==
  ASSUME SInv, NEW lists \in Seq(ListCall), source' = source,
         Fresh(lists \o ConfigCalls(source.config))
  PROVE  Loading' /\ Scripts'
<1>1. PICK program : program = lists \o ConfigCalls(source.config)
  OBVIOUS
<1>2. /\ calls' = program /\ adding' = FALSE /\ Keys' = {}
      /\ surrogates' = << >> /\ unset' = {}
  BY <1>1 DEF Fresh, Keys
<1>3. Program(program) /\ source \in Sources
  BY <1>1, ProgramAtStart DEF SInv, Loading
<1>4. Loading'
  BY <1>2, <1>3 DEF Loading, Program, Ends
<1>5. Scripts'
  BY <1>2 DEF Scripts
<1> QED
  BY <1>4, <1>5

\* The lines of the compiled file, in the order they are in.
LEMMA CompiledCallsOf ==
  ASSUME NEW S \in SUBSET Name, NEW lines \in Orders(S)
  PROVE  /\ CompiledCalls(lines) \in Seq(ListCall)
         /\ \A i \in 1..Len(CompiledCalls(lines)) : CompiledCalls(lines)[i].op = "Hosts.Add"
         /\ \A h \in S : \E i \in 1..Len(CompiledCalls(lines)) :
              CompiledCalls(lines)[i].args = << h >>
<1>1. IsFiniteSet(S)
  BY SetupAssumption, FS_Subset
<1>2. PICK n \in Nat : n = Cardinality(S)
  BY <1>1, FS_CardinalityType
<1>3. lines \in [1..n -> S] /\ \A h \in S : \E i \in 1..n : lines[i] = h
  BY <1>2 DEF Orders
<1>4. lines \in Seq(S) /\ Len(lines) = n
  BY <1>3
<1>5. CompiledCalls(lines) = [i \in 1..n |-> [op |-> "Hosts.Add", args |-> << lines[i] >>]]
  BY <1>4 DEF CompiledCalls, LineCalls, Call
<1>6. \A i \in 1..n : [op |-> "Hosts.Add", args |-> << lines[i] >>] \in ListCall
  <2> SUFFICES ASSUME NEW i \in 1..n
               PROVE  [op |-> "Hosts.Add", args |-> << lines[i] >>] \in ListCall
    OBVIOUS
  <2>1. << lines[i] >> \in Seq(Name)
    BY <1>3
  <2> QED
    BY <2>1 DEF ListCall
<1>7. CompiledCalls(lines) \in Seq(ListCall) /\ Len(CompiledCalls(lines)) = n
  BY <1>5, <1>6
<1> QED
  BY <1>3, <1>5, <1>7

LEMMA StartServerStep ==
  ASSUME SInv, StartServer
  PROVE  SInv'
<1>1. /\ ~Serving /\ pc \in {"done", "killed"} /\ started' = pc /\ source' = source
      /\ UNCHANGED vars /\ page' = page
  BY DEF StartServer
<1>2. IInv /\ source \in Sources
  BY <1>1 DEF SInv, Compiling, Loading
<1>3. Compiling'
  BY <1>1 DEF SInv, Compiling, IInv, TypeOK, SameBlocked, FileFollows, vars, Serving, Unhosts,
       InHosts
<1>4. Pages'
  <2>1. \A p \in Page : page[p] \in PageState /\ page[p].pc = "idle"
    BY <1>1 DEF SInv, Pages, PageInv, PageState
  <2> QED
    BY <1>1, <2>1 DEF SInv, Pages, PageInv, ScriptSettled, NoScriptMissed, Sent
<1>5. CASE file = NoFile
  <2>1. pc # "done"
    <3>1. pc = "done" => file \subseteq Name
      BY <1>2 DEF IInv, FileFollows, TypeOK
    <3>2. NoName \notin Name
      BY NameAssumption DEF NoName
    <3> QED
      BY <1>5, <3>1, <3>2 DEF NoFile
  <2>2. Restarting'
    BY <1>1, <2>1 DEF Restarting
  <2>3. source.lists \in Seq(ListCall)
    BY <1>2, SetupAssumption
  <2>4. Fresh(source.lists \o ConfigCalls(source.config))
    BY <1>5 DEF StartServer
  <2>5. Loading' /\ Scripts'
    BY <1>1, <2>3, <2>4, FreshLoader
  <2> QED
    BY <1>3, <1>4, <2>2, <2>5 DEF SInv
<1>6. CASE file # NoFile
  <2>1. file \in SUBSET Name
    BY <1>2, <1>6 DEF IInv, TypeOK
  <2>2. PICK lines \in Orders(file) : Fresh(CompiledCalls(lines) \o ConfigCalls(source.config))
    BY <1>6 DEF StartServer
  <2>3. PICK lists : lists = CompiledCalls(lines)
    OBVIOUS
  <2>4. /\ lists \in Seq(ListCall) /\ \A i \in 1..Len(lists) : lists[i].op = "Hosts.Add"
        /\ \A h \in file : \E i \in 1..Len(lists) : lists[i].args = << h >>
    BY <2>1, <2>3, CompiledCallsOf
  <2>5. Loading' /\ Scripts'
    BY <1>1, <2>2, <2>3, <2>4, FreshLoader
  <2>6. Restarting'
    <3>1. PICK program : program = lists \o ConfigCalls(source.config)
      OBVIOUS
    <3>2. calls' = program
      BY <2>2, <2>3, <3>1 DEF Fresh
    <3>3. Len(program) = Len(lists) + 5 /\ \A i \in 1..Len(lists) : program[i] = lists[i]
      BY <1>2, <2>4, <3>1, ProgramAtStart
    <3>4. PICK n \in Nat : n = Len(lists)
      BY <2>4
    <3>5. \A i \in 1..Len(program) : i <= Len(program) - 5 <=> i \in 1..n
      BY <3>3, <3>4
    <3>6. \A i \in 1..Len(program) : i <= Len(program) - 5 => program[i].op = "Hosts.Add"
      BY <2>4, <3>3, <3>4, <3>5
    <3>7. \A h \in file : \E i \in 1..Len(program) :
            i <= Len(program) - 5 /\ program[i].args = << h >>
      <4> SUFFICES ASSUME NEW h \in file
                   PROVE  \E i \in 1..Len(program) :
                            i <= Len(program) - 5 /\ program[i].args = << h >>
        OBVIOUS
      <4>1. PICK i \in 1..n : lists[i].args = << h >>
        BY <2>4, <3>4
      <4>2. i \in 1..Len(program) /\ i <= Len(program) - 5 /\ program[i] = lists[i]
        BY <3>3, <3>4
      <4> QED
        BY <4>1, <4>2
    <3>8. file' = file
      BY <1>1 DEF vars
    <3> QED
      BY <3>2, <3>6, <3>7, <3>8 DEF Restarting
  <2> QED
    BY <1>3, <1>4, <2>5, <2>6 DEF SInv
<1> QED
  BY <1>5, <1>6

-----------------------------------------------------------------------------
(* The theorems *)

LEMMA NextKeepsSInv ==
  ASSUME SInv, [SetupNext]_setupVars
  PROVE  SInv'
<1>1. CASE Begin
  BY <1>1, BeginStep
<1>2. CASE KillReading
  BY <1>2, KillReadingStep
<1>3. CASE StartServer
  BY <1>3, StartServerStep
<1>4. CASE ReadHostsStep /\ UNCHANGED <<vars, setup>>
  <2>1. CASE LoadCall
    BY <1>4, <2>1, LoadCallLoading, LoadCallRestarting, LoadCallPages, CompilingStays DEF SInv
  <2>2. CASE AddLock
    BY <1>4, <2>2, AddLockStep
  <2>3. CASE AddNext
    BY <1>4, <2>3, AddNextStep
  <2>4. CASE AddUnlock
    BY <1>4, <2>4, AddUnlockStep
  <2>5. ASSUME NEW h \in unset, SetScript(h) PROVE SInv'
    BY <1>4, <2>5, SetScriptStep
  <2> QED
    BY <1>4, <2>1, <2>2, <2>3, <2>4, <2>5 DEF ReadHostsStep
<1>5. CASE Next /\ UNCHANGED <<loader, page, setup>>
  BY <1>5, CompileStep
<1>6. CASE Serving /\ PageStep /\ UNCHANGED <<vars, setup>>
  <2>1. ASSUME NEW p \in Page, Match(p) PROVE SInv'
    BY <1>6, <2>1, MatchStep
  <2>2. ASSUME NEW p \in Page, NEW h \in PageHost, Request(p, h) PROVE SInv'
    BY <1>6, <2>2, RequestStep
  <2> QED
    BY <1>6, <2>1, <2>2 DEF PageStep
<1>7. CASE UNCHANGED setupVars
  <2>1. /\ UNCHANGED loader /\ UNCHANGED setup /\ UNCHANGED page
        /\ UNCHANGED <<vars, setup>>
    BY <1>7 DEF setupVars
  <2> QED
    BY <2>1, LoaderStays, PagesStay, CompilingStays DEF SInv
<1> QED
  BY <1>1, <1>2, <1>3, <1>4, <1>5, <1>6, <1>7 DEF SetupNext

\* The invariant above holds of every state of the composition.
THEOREM SInvInvariant == SetupSpec => []SInv
<1>1. SetupInit => SInv
  <2> SUFFICES ASSUME SetupInit PROVE SInv
    OBVIOUS
  <2>1. /\ source \in Sources /\ source.lists \in Seq(ListCall) /\ Keys = {} /\ ~Serving
        /\ surrogates = << >> /\ unset = {} /\ adding = FALSE /\ started = "no"
    BY SetupAssumption DEF SetupInit, Keys, Serving
  <2>2. Loading
    <3>1. PICK program : program = source.lists \o ConfigCalls(source.config)
      OBVIOUS
    <3>2. calls = program /\ Program(program)
      BY <2>1, <3>1, ProgramAtStart DEF SetupInit
    <3> QED
      BY <2>1, <3>2 DEF Loading
  <2>3. Compiling /\ Restarting
    BY <2>1 DEF SetupInit, Compiling, Restarting
  <2>4. Scripts
    BY <2>1 DEF Scripts
  <2>5. Pages
    BY <2>1 DEF SetupInit, Pages, PageInv, PageState, IdlePage, ScriptSettled, NoScriptMissed,
         Sent
  <2> QED
    BY <2>2, <2>3, <2>4, <2>5 DEF SInv
<1> QED
  BY <1>1, NextKeepsSInv, PTL DEF SetupSpec

-----------------------------------------------------------------------------
(* What the lists and the configuration have put in the two block lists    *)

Zero == [r \in Regexp |-> 0]

\* How often r is there, if no regexplist has it, when ReadHosts has added the
\* regexps of the configuration, and when it is done.
Added(r) == RegexpsAdd(Zero, source.config.Regexps)[r]

OfConfig(r) ==
  RegexpsRemove(RegexpsAdd(Zero, source.config.Regexps), source.config.Unregexps)[r]

\* The calls before the last five are for lines of the lists, or for lines of
\* the compiled file, which are all of hosts.
ForLines(program) ==
  \A i \in 1..Len(program) : i <= Len(program) - 5 =>
    /\ Len(program[i].args) = 1
    /\ program[i].op \in {"Hosts.Remove", "Regexps.Add"} =>
         program[i].args[1] \in ListLines(program[i].op)

\* An expression that no list has is there as often as the configuration says.
Expressions ==
  \A r \in Regexp \ ListLines("Regexps.Add") :
    /\ Len(calls) >= 3 => regexps[r] = 0
    /\ Len(calls) = 2 => regexps[r] = Added(r)
    /\ Len(calls) <= 1 => regexps[r] = OfConfig(r)
    /\ pc \in {"visit", "write", "done"} => known[r] = OfConfig(r)

\* The hosts that some line takes out, literally.
TakenOut == Unhosts \union ListLines("Hosts.Remove")

ToCome(h) ==
  \E i \in 1..Len(calls) :
    i <= Len(calls) - 5 /\ calls[i].op = "Hosts.Add" /\ calls[i].args[1] = h

\* A host of the lists has been added, and then only taken out by its text.
Listed ==
  /\ ~Serving \/ file = NoFile =>
       \A h \in ListLines("Hosts.Add") : ToCome(h) \/ StripWWW(h) \in Keys \union TakenOut
  /\ pc \in {"visit", "write", "done"} =>
       \A h \in ListLines("Hosts.Add") : StripWWW(h) \in hosts \union TakenOut

LInv == ForLines(calls) /\ Expressions /\ Listed

LEMMA OccurrencesIsNat ==
  ASSUME NEW S, NEW s \in Seq(S), NEW r
  PROVE  Occurrences(s, r) \in Nat
<1>1. IsFiniteSet(1..Len(s))
  BY FS_Interval
<1>2. IsFiniteSet({i \in 1..Len(s) : s[i] = r})
  BY <1>1, FS_Subset
<1> QED
  BY <1>2, FS_CardinalityType DEF Occurrences

LEMMA NoOccurrence ==
  ASSUME NEW S, NEW s \in Seq(S), NEW r, \A i \in 1..Len(s) : s[i] # r
  PROVE  Occurrences(s, r) = 0
<1>1. {i \in 1..Len(s) : s[i] = r} = {}
  OBVIOUS
<1> QED
  BY <1>1, FS_EmptySet DEF Occurrences

\* The constants of the configuration in use.
LEMMA SourceStays ==
  ASSUME source' = source
  PROVE  /\ Unhosts' = Unhosts /\ TakenOut' = TakenOut
         /\ \A op : ListLines(op)' = ListLines(op)
         /\ \A r : Added(r)' = Added(r) /\ OfConfig(r)' = OfConfig(r)
BY DEF Unhosts, TakenOut, ListLines, Added, OfConfig

\* The steps that change neither block list, nor the lines to come, of a
\* process that goes on.
LEMMA LInvStays ==
  ASSUME LInv, source' = source, UNCHANGED <<regexps, known>>, Keys \subseteq Keys',
         \/ calls' = calls
         \/ Len(calls) = 1 /\ Len(calls') <= 1,
         Len(calls) \in Nat, Len(calls') \in Nat,
         ~Serving' \/ file' = NoFile => ~Serving \/ file = NoFile,
         pc' \in {"visit", "write", "done"} => hosts' = hosts /\ pc \in {"visit", "write", "done"}
  PROVE  LInv'
<1>1. /\ \A op : ListLines(op)' = ListLines(op)
      /\ \A r : Added(r)' = Added(r) /\ OfConfig(r)' = OfConfig(r)
      /\ TakenOut' = TakenOut
  BY SourceStays
<1>2. ForLines(calls)'
  BY DEF LInv, ForLines, ListLines
<1>3. Expressions'
  <2> SUFFICES ASSUME NEW r \in Regexp \ ListLines("Regexps.Add")
               PROVE  /\ Len(calls') >= 3 => regexps[r] = 0
                      /\ Len(calls') = 2 => regexps[r] = Added(r)
                      /\ Len(calls') <= 1 => regexps[r] = OfConfig(r)
                      /\ pc' \in {"visit", "write", "done"} => known[r] = OfConfig(r)
    BY <1>1 DEF Expressions
  <2>1. /\ Len(calls) >= 3 => regexps[r] = 0
        /\ Len(calls) = 2 => regexps[r] = Added(r)
        /\ Len(calls) <= 1 => regexps[r] = OfConfig(r)
        /\ pc \in {"visit", "write", "done"} => known[r] = OfConfig(r)
    BY DEF LInv, Expressions
  <2>2. CASE calls' = calls
    BY <2>1, <2>2
  <2>3. CASE Len(calls) = 1 /\ Len(calls') <= 1
    BY <2>1, <2>3
  <2> QED
    BY <2>2, <2>3
<1>4. Listed'
  <2>1. ASSUME NEW h, ToCome(h) PROVE ToCome(h)'
    <3>1. Len(calls) # 1
      <4> SUFFICES ASSUME Len(calls) = 1 PROVE FALSE
        OBVIOUS
      <4>1. PICK i \in 1..1 : i <= 1 - 5
        BY <2>1 DEF ToCome
      <4> QED
        BY <4>1
    <3> QED
      BY <2>1, <3>1 DEF ToCome
  <2> QED
    BY <1>1, <2>1 DEF LInv, Listed
<1> QED
  BY <1>2, <1>3, <1>4 DEF LInv

\* The numbers of calls that are left when one is not the last.
LEMMA CallsLeft ==
  ASSUME NEW n \in Nat, n > 1
  PROVE  n >= 6 \/ n = 5 \/ n = 4 \/ n = 3 \/ n = 2
OBVIOUS

\* A call on one of the two block lists: what it adds, takes out or leaves.
LEMMA LoadCallKeepsLInv ==
  ASSUME SInv, LInv, LoadCall, UNCHANGED <<vars, setup, known>>
  PROVE  LInv'
<1> DEFINE call == Head(calls)
<1>1. /\ Program(calls) /\ calls # << >> /\ calls' = Tail(calls)
      /\ regexps' = RegexpsAfter(regexps, call)
  BY DEF SInv, Loading, LoadCall
<1>2. /\ Len(calls) > 1 /\ Keys' = KeysAfter(Keys, call) /\ Keys \in SUBSET Name
      /\ Keys' \subseteq Name
  BY LoadCallKeys DEF SInv, Loading
<1>3. /\ Len(calls') = Len(calls) - 1
      /\ \A i \in 1..Len(calls') : calls'[i] = calls[i + 1]
  BY <1>1, ProgramTail
<1>4. calls \in Seq(AnyCall) /\ Len(calls) \in Nat /\ call = calls[1] /\ call \in AnyCall
  BY <1>1 DEF Program
<1>5. /\ \A op : ListLines(op)' = ListLines(op)
      /\ \A r : Added(r)' = Added(r) /\ OfConfig(r)' = OfConfig(r)
      /\ TakenOut' = TakenOut
      /\ pc' = pc /\ hosts' = hosts /\ file' = file /\ Serving' = Serving /\ known' = known
  BY SourceStays DEF setup, vars, Serving
<1> HIDE DEF call
<1>6. Len(calls) >= 6 =>
        /\ Len(call.args) = 1
        /\ call.op \in {"Hosts.Remove", "Regexps.Add"} => call.args[1] \in ListLines(call.op)
  <2> SUFFICES ASSUME Len(calls) >= 6
               PROVE  /\ Len(calls[1].args) = 1
                      /\ calls[1].op \in {"Hosts.Remove", "Regexps.Add"} =>
                           calls[1].args[1] \in ListLines(calls[1].op)
    BY <1>4
  <2>1. 1 \in 1..Len(calls) /\ 1 <= Len(calls) - 5
    BY <1>4
  <2> QED
    BY <2>1 DEF LInv, ForLines
<1>7. /\ Len(calls) = 5 => call = Call("Hosts.Add", source.config.Hosts)
      /\ Len(calls) = 4 => call = Call("Hosts.Remove", source.config.Unhosts)
      /\ Len(calls) = 3 => call = Call("Regexps.Add", source.config.Regexps)
      /\ Len(calls) = 2 => call = Call("Regexps.Remove", source.config.Unregexps)
  <2>1. CASE Len(calls) = 5
    BY <1>1, <1>4, <2>1 DEF Program, Ends
  <2>2. CASE Len(calls) = 4
    BY <1>1, <1>4, <2>2 DEF Program, Ends
  <2>3. CASE Len(calls) = 3
    BY <1>1, <1>4, <2>3 DEF Program, Ends
  <2>4. CASE Len(calls) = 2
    BY <1>1, <1>4, <2>4 DEF Program, Ends
  <2> QED
    BY <2>1, <2>2, <2>3, <2>4
<1>8. ForLines(calls)'
  <2> SUFFICES ASSUME NEW i \in 1..Len(calls'), i <= Len(calls') - 5
               PROVE  /\ Len(calls'[i].args) = 1
                      /\ calls'[i].op \in {"Hosts.Remove", "Regexps.Add"} =>
                           calls'[i].args[1] \in ListLines(calls'[i].op)
    BY <1>5 DEF ForLines, ListLines, setup
  <2>1. i + 1 \in 1..Len(calls) /\ i + 1 <= Len(calls) - 5 /\ calls'[i] = calls[i + 1]
    BY <1>3, <1>4
  <2> QED
    BY <2>1 DEF LInv, ForLines
<1>9. Expressions'
  <2> SUFFICES ASSUME NEW r \in Regexp \ ListLines("Regexps.Add")
               PROVE  /\ Len(calls') >= 3 => regexps'[r] = 0
                      /\ Len(calls') = 2 => regexps'[r] = Added(r)
                      /\ Len(calls') <= 1 => regexps'[r] = OfConfig(r)
                      /\ pc \in {"visit", "write", "done"} => known[r] = OfConfig(r)
    BY <1>5 DEF Expressions
  <2>1. /\ Len(calls) >= 3 => regexps[r] = 0
        /\ Len(calls) = 2 => regexps[r] = Added(r)
        /\ pc \in {"visit", "write", "done"} => known[r] = OfConfig(r)
    BY DEF LInv, Expressions
  <2>2. CASE Len(calls) >= 6
    <3>1. regexps[r] = 0
      BY <1>4, <2>1, <2>2
    <3>2. CASE call.op = "Regexps.Add"
      <4>1. call.args \in Seq(Regexp)
        BY <1>4, <3>2 DEF AnyCall, ListCall
      <4>2. \A i \in 1..Len(call.args) : call.args[i] # r
        BY <1>6, <2>2, <3>2
      <4>3. Occurrences(call.args, r) = 0
        BY <4>1, <4>2, NoOccurrence
      <4> QED
        BY <1>1, <1>3, <1>4, <2>1, <2>2, <3>1, <3>2, <4>3 DEF RegexpsAfter, RegexpsAdd
    <3>3. CASE call.op = "Regexps.Remove"
      <4>1. call.args \in Seq(Regexp)
        BY <1>4, <3>3 DEF AnyCall, ListCall
      <4>2. ~(0 > Occurrences(call.args, r))
        BY <4>1, OccurrencesIsNat
      <4>3. regexps'[r] = 0
        BY <1>1, <3>1, <3>3, <4>2 DEF RegexpsAfter, RegexpsRemove
      <4> QED
        BY <1>3, <1>4, <2>1, <2>2, <4>3
    <3>4. CASE call.op \notin {"Regexps.Add", "Regexps.Remove"}
      BY <1>1, <1>3, <1>4, <2>1, <2>2, <3>1, <3>4 DEF RegexpsAfter
    <3> QED
      BY <3>2, <3>3, <3>4
  <2>3. CASE Len(calls) \in {4, 5}
    <3>1. call.op \in {"Hosts.Add", "Hosts.Remove"}
      BY <1>7, <2>3 DEF Call
    <3>2. regexps' = regexps
      BY <1>1, <3>1 DEF RegexpsAfter
    <3> QED
      BY <1>3, <2>1, <2>3, <3>2
  <2>4. CASE Len(calls) = 3
    <3>1. regexps[r] = 0 /\ Len(calls') = 2
      BY <1>3, <2>1, <2>4
    <3>2. regexps' = RegexpsAdd(regexps, source.config.Regexps)
      BY <1>1, <1>7, <2>4 DEF RegexpsAfter, Call
    <3>3. regexps'[r] = Added(r)
      BY <3>1, <3>2 DEF RegexpsAdd, Added, Zero
    <3> QED
      BY <2>1, <3>1, <3>3
  <2>5. CASE Len(calls) = 2
    <3>1. regexps[r] = Added(r) /\ Len(calls') = 1
      BY <1>3, <2>1, <2>5
    <3>2. regexps' = RegexpsRemove(regexps, source.config.Unregexps)
      BY <1>1, <1>7, <2>5 DEF RegexpsAfter, Call
    <3>3. regexps'[r] = OfConfig(r)
      BY <3>1, <3>2 DEF RegexpsRemove, Added, OfConfig
    <3> QED
      BY <2>1, <3>1, <3>3
  <2>6. Len(calls) >= 6 \/ Len(calls) \in {4, 5} \/ Len(calls) = 3 \/ Len(calls) = 2
    BY <1>2, <1>4, CallsLeft
  <2> QED
    BY <2>2, <2>3, <2>4, <2>5, <2>6
<1>10. Listed'
  <2>1. \A k : k \in Keys => k \in Keys' \union TakenOut
    <3>1. CASE call.op = "Hosts.Add"
      <4>1. call.args \in Seq(Name)
        BY <1>4, <3>1 DEF AnyCall, ListCall
      <4> QED
        BY <1>2, <3>1, <4>1, HostsAddGrows DEF KeysAfter
    <3>2. CASE call.op = "Hosts.Remove"
      <4>1. Keys' = Keys \ {call.args[i] : i \in 1..Len(call.args)}
        BY <1>2, <3>2 DEF KeysAfter, HostsRemove
      <4>2. \A i \in 1..Len(call.args) : call.args[i] \in TakenOut
        <5>1. CASE Len(calls) >= 6
          BY <1>6, <3>2, <5>1 DEF TakenOut
        <5>2. CASE Len(calls) = 4
          <6>1. call.args = source.config.Unhosts
            BY <1>7, <5>2 DEF Call
          <6> QED
            BY <6>1 DEF TakenOut, Unhosts
        <5>3. Len(calls) # 5 /\ Len(calls) # 3 /\ Len(calls) # 2
          BY <1>7, <3>2 DEF Call
        <5>4. Len(calls) >= 6 \/ Len(calls) = 4
          BY <1>2, <1>4, <5>3, CallsLeft
        <5> QED
          BY <5>1, <5>2, <5>4
      <4> QED
        BY <4>1, <4>2
    <3>3. CASE call.op \notin {"Hosts.Add", "Hosts.Remove"}
      BY <1>2, <3>3 DEF KeysAfter
    <3> QED
      BY <3>1, <3>2, <3>3
  <2>2. ASSUME NEW h \in ListLines("Hosts.Add"), ToCome(h)
        PROVE  ToCome(h)' \/ StripWWW(h) \in Keys'
    <3>1. PICK i \in 1..Len(calls) :
            i <= Len(calls) - 5 /\ calls[i].op = "Hosts.Add" /\ calls[i].args[1] = h
      BY <2>2 DEF ToCome
    <3>2. CASE i = 1
      <4>1. Len(calls) >= 6 /\ call.op = "Hosts.Add" /\ call.args[1] = h
        BY <1>4, <3>1, <3>2
      <4>2. call.args \in Seq(Name) /\ Len(call.args) = 1
        BY <1>4, <1>6, <4>1 DEF AnyCall, ListCall
      <4>3. call.args = << h >> /\ h \in Name
        BY <4>1, <4>2
      <4> QED
        BY <1>2, <4>1, <4>3, HostsAddOne DEF KeysAfter
    <3>3. CASE i # 1
      <4>1. i - 1 \in 1..Len(calls') /\ i - 1 <= Len(calls') - 5
        BY <1>3, <1>4, <3>1, <3>3
      <4>2. calls'[i - 1] = calls[i]
        BY <1>3, <4>1
      <4> QED
        BY <3>1, <4>1, <4>2 DEF ToCome
    <3> QED
      BY <3>2, <3>3
  <2> QED
    BY <1>5, <2>1, <2>2 DEF LInv, Listed
<1> QED
  BY <1>8, <1>9, <1>10 DEF LInv

\* The other steps of ReadHosts do not touch the keys or the expressions, and
\* are those of the last call.
LEMMA AddKeepsLInv ==
  ASSUME SInv, LInv, UNCHANGED <<vars, setup, known>>,
         AddLock \/ AddNext \/ AddUnlock \/ \E h \in unset : SetScript(h)
  PROVE  LInv'
<1>1. /\ source' = source /\ known' = known /\ hosts' = hosts /\ file' = file /\ pc' = pc
      /\ (Serving' <=> Serving)
  BY DEF vars, setup, Serving
<1>2. calls \in Seq(AnyCall) /\ Len(calls) \in Nat
  BY DEF SInv, Loading, Program
<1>3. ASSUME AddLock PROVE LInv'
  <2>1. calls' = calls /\ regexps' = regexps /\ Keys' = Keys
    BY <1>3 DEF AddLock, Keys
  <2> QED
    BY <1>1, <1>2, <2>1, LInvStays
<1>4. ASSUME AddNext PROVE LInv'
  <2>1. /\ adding /\ regexps' = regexps /\ Keys' = Keys
        /\ calls' = [calls EXCEPT ![1].args = Tail(@)]
    BY <1>4 DEF AddNext, Keys
  <2>2. Len(calls) = 1
    BY <2>1 DEF SInv, Loading
  <2>3. Len(calls') = 1
    BY <1>2, <2>1, <2>2
  <2>4. Len(calls') <= 1 /\ Len(calls') \in Nat
    BY <2>3
  <2> QED
    BY <1>1, <1>2, <2>1, <2>2, <2>4, LInvStays
<1>5. ASSUME AddUnlock PROVE LInv'
  <2>1. adding /\ regexps' = regexps /\ Keys' = Keys /\ calls' = Tail(calls)
    BY <1>5 DEF AddUnlock, Keys
  <2>2. Len(calls) = 1
    BY <2>1 DEF SInv, Loading
  <2>3. Len(calls') = 0
    BY <1>2, <2>1, <2>2
  <2>4. Len(calls') <= 1 /\ Len(calls') \in Nat
    BY <2>3
  <2> QED
    BY <1>1, <1>2, <2>1, <2>2, <2>4, LInvStays
<1>6. ASSUME NEW h \in unset, SetScript(h) PROVE LInv'
  <2>1. calls' = calls /\ regexps' = regexps
    BY <1>6 DEF SetScript
  <2>2. Keys' = Keys
    BY <1>6 DEF SetScript, Keys
  <2> QED
    BY <1>1, <1>2, <2>1, <2>2, LInvStays
<1> QED
  BY <1>3, <1>4, <1>5, <1>6

\* The compile command takes over what ReadHosts has put together.
LEMMA BeginKeepsLInv ==
  ASSUME SInv, LInv, Begin
  PROVE  LInv'
<1>1. /\ Len(calls) = 0 /\ calls' = calls /\ regexps' = regexps /\ Keys' = Keys
      /\ source' = source /\ hosts' = Keys /\ known' = regexps /\ file' = file /\ ~Serving
      /\ (Serving' <=> Serving)
  BY DEF Begin, Loaded, loader, setup, Keys, SInv, Compiling, Serving
<1>2. /\ \A op : ListLines(op)' = ListLines(op)
      /\ \A r : Added(r)' = Added(r) /\ OfConfig(r)' = OfConfig(r)
      /\ TakenOut' = TakenOut
  BY <1>1, SourceStays
<1>3. ForLines(calls)'
  BY <1>1 DEF LInv, ForLines, ListLines
<1>4. Expressions'
  BY <1>1, <1>2 DEF LInv, Expressions
<1>5. Listed'
  <2>1. \A h : ~ToCome(h) /\ ~ToCome(h)'
    BY <1>1 DEF ToCome
  <2> QED
    BY <1>1, <1>2, <2>1 DEF LInv, Listed
<1> QED
  BY <1>3, <1>4, <1>5 DEF LInv

\* A server starts with empty lists, and what it will add is to come.
LEMMA StartServerKeepsLInv ==
  ASSUME SInv, LInv, StartServer
  PROVE  LInv'
<1>1. /\ ~Serving /\ Serving' /\ source' = source /\ known' = known
      /\ hosts' = hosts /\ file' = file /\ pc' = pc
  BY DEF StartServer, vars, Serving
<1>2. /\ \A op : ListLines(op)' = ListLines(op)
      /\ \A r : Added(r)' = Added(r) /\ OfConfig(r)' = OfConfig(r)
      /\ TakenOut' = TakenOut
  BY <1>1, SourceStays
<1>3. source \in Sources /\ source.lists \in Seq(ListCall)
  BY SetupAssumption DEF SInv, Loading
<1>4. PICK lists \in Seq(ListCall) :
        /\ Fresh(lists \o ConfigCalls(source.config))
        /\ \A i \in 1..Len(lists) :
             /\ Len(lists[i].args) = 1
             /\ lists[i].op \in {"Hosts.Remove", "Regexps.Add"} =>
                  lists[i].args[1] \in ListLines(lists[i].op)
        /\ file = NoFile => lists = source.lists
  <2>1. CASE file = NoFile
    <3>1. Fresh(source.lists \o ConfigCalls(source.config))
      BY <2>1 DEF StartServer
    <3>2. \A i \in 1..Len(source.lists) :
            /\ Len(source.lists[i].args) = 1
            /\ source.lists[i].args[1] \in ListLines(source.lists[i].op)
      BY <1>3, SetupAssumption DEF ListLines
    <3> QED
      BY <1>3, <3>1, <3>2
  <2>2. CASE file # NoFile
    <3>1. PICK lines \in Orders(file) : Fresh(CompiledCalls(lines) \o ConfigCalls(source.config))
      BY <2>2 DEF StartServer
    <3>2. file \in SUBSET Name
      <4>1. IInv
        BY <1>1 DEF SInv, Compiling, StartServer
      <4> QED
        BY <2>2, <4>1 DEF IInv, TypeOK
    <3>3. /\ CompiledCalls(lines) \in Seq(ListCall)
          /\ \A i \in 1..Len(CompiledCalls(lines)) : CompiledCalls(lines)[i].op = "Hosts.Add"
      BY <3>2, CompiledCallsOf
    <3>4. \A i \in 1..Len(CompiledCalls(lines)) : Len(CompiledCalls(lines)[i].args) = 1
      <4>1. \A i \in 1..Len(lines) : CompiledCalls(lines)[i].args = << lines[i] >>
        BY DEF CompiledCalls, LineCalls, Call
      <4>2. lines \in Seq(file) /\ Len(CompiledCalls(lines)) = Len(lines)
        <5>1. IsFiniteSet(file)
          BY <3>2, SetupAssumption, FS_Subset
        <5>2. PICK n \in Nat : n = Cardinality(file)
          BY <5>1, FS_CardinalityType
        <5>3. lines \in [1..n -> file]
          BY <5>2 DEF Orders
        <5> QED
          BY <5>3 DEF CompiledCalls, LineCalls
      <4> SUFFICES ASSUME NEW i \in 1..Len(lines)
                   PROVE  Len(CompiledCalls(lines)[i].args) = 1
        BY <4>2
      <4>3. PICK args : args = CompiledCalls(lines)[i].args
        OBVIOUS
      <4>4. args = << lines[i] >>
        BY <4>1, <4>3
      <4>5. Len(args) = 1
        BY <4>4
      <4> QED
        BY <4>3, <4>5
    <3> QED
      BY <2>2, <3>1, <3>3, <3>4
  <2> QED
    BY <2>1, <2>2
<1>5. PICK program : program = lists \o ConfigCalls(source.config)
  OBVIOUS
<1>6. /\ calls' = program /\ Keys' = {} /\ regexps' = Zero
  BY <1>4, <1>5 DEF Fresh, Keys, Zero
<1>7. Len(program) = Len(lists) + 5 /\ \A i \in 1..Len(lists) : program[i] = lists[i]
  BY <1>3, <1>5, ProgramAtStart
<1>8. PICK n \in Nat : n = Len(lists)
  OBVIOUS
<1>9. Len(program) = n + 5 /\ \A i \in 1..Len(program) : i <= Len(program) - 5 <=> i \in 1..n
  BY <1>7, <1>8
<1>10. ForLines(calls)'
  <2>1. ForLines(program)
    BY <1>4, <1>7, <1>8, <1>9 DEF ForLines
  <2> QED
    BY <1>1, <1>6, <2>1 DEF ForLines, ListLines
<1>11. Expressions'
  <2>1. Len(calls') >= 3
    BY <1>6, <1>8, <1>9
  <2>2. \A r \in Regexp : regexps'[r] = 0
    BY <1>6 DEF Zero
  <2>3. Len(calls') # 2 /\ ~(Len(calls') <= 1)
    BY <1>6, <1>8, <1>9
  <2> QED
    BY <1>1, <1>2, <2>1, <2>2, <2>3 DEF LInv, Expressions
<1>12. Listed'
  <2>1. ASSUME file = NoFile, NEW h \in ListLines("Hosts.Add") PROVE ToCome(h)'
    <3>1. PICK i \in 1..n : lists[i].op = "Hosts.Add" /\ lists[i].args[1] = h
      BY <1>4, <1>8, <2>1 DEF ListLines
    <3>2. i \in 1..Len(program) /\ i <= Len(program) - 5 /\ program[i] = lists[i]
      BY <1>7, <1>8, <1>9
    <3> QED
      BY <1>6, <3>1, <3>2 DEF ToCome
  <2> QED
    BY <1>1, <1>2, <2>1 DEF LInv, Listed
<1> QED
  BY <1>10, <1>11, <1>12 DEF LInv

LEMMA NextKeepsLInv ==
  ASSUME SInv, LInv, [SetupNext]_setupVars
  PROVE  LInv'
<1>1. calls \in Seq(AnyCall) /\ Len(calls) \in Nat
  BY DEF SInv, Loading, Program
<1>2. CASE Begin
  BY <1>2, BeginKeepsLInv
<1>3. CASE KillReading
  <2>1. /\ source' = source /\ calls' = calls /\ regexps' = regexps /\ known' = known
        /\ Keys' = Keys /\ pc' = "killed" /\ file' = file /\ (Serving' <=> Serving)
    BY <1>3 DEF KillReading, loader, setup, Keys, Serving
  <2> QED
    BY <1>1, <2>1, LInvStays
<1>4. CASE StartServer
  BY <1>4, StartServerKeepsLInv
<1>5. CASE ReadHostsStep /\ UNCHANGED <<vars, setup, known>>
  BY <1>5, LoadCallKeepsLInv, AddKeepsLInv DEF ReadHostsStep
<1>6. CASE Next /\ UNCHANGED <<loader, page, setup, known>>
  <2>1. pc \in {"visit", "write"} /\ hosts' = hosts
    BY <1>6 DEF Next, Visit, Write, Create, Finish, Kill
  <2>2. ~Serving /\ ~Serving'
    BY <1>6, <2>1 DEF SInv, Compiling, Serving, setup
  <2>3. /\ source' = source /\ calls' = calls /\ regexps' = regexps /\ known' = known
        /\ Keys' = Keys
    BY <1>6 DEF loader, setup, Keys
  <2> QED
    BY <1>1, <2>1, <2>2, <2>3, LInvStays
<1>7. CASE Serving /\ PageStep /\ UNCHANGED <<vars, setup, known>>
  <2>1. UNCHANGED loader
    BY <1>7 DEF PageStep, Match, Request
  <2>2. /\ source' = source /\ calls' = calls /\ regexps' = regexps /\ known' = known
        /\ Keys' = Keys /\ pc' = pc /\ hosts' = hosts /\ file' = file /\ (Serving' <=> Serving)
    BY <1>7, <2>1 DEF loader, setup, vars, Keys, Serving
  <2> QED
    BY <1>1, <2>2, LInvStays
<1>8. CASE UNCHANGED setupVars
  <2>1. /\ source' = source /\ calls' = calls /\ regexps' = regexps /\ known' = known
        /\ Keys' = Keys /\ pc' = pc /\ hosts' = hosts /\ file' = file /\ (Serving' <=> Serving)
    BY <1>8 DEF setupVars, loader, setup, vars, Keys, Serving
  <2> QED
    BY <1>1, <2>1, LInvStays
<1> QED
  BY <1>2, <1>3, <1>4, <1>5, <1>6, <1>7, <1>8 DEF SetupNext

THEOREM LInvInvariant == SetupSpec => []LInv
<1>1. SetupInit => LInv
  <2> SUFFICES ASSUME SetupInit PROVE LInv
    OBVIOUS
  <2>1. /\ source \in Sources /\ source.lists \in Seq(ListCall) /\ regexps = Zero
        /\ pc = "read"
    BY SetupAssumption DEF SetupInit, Zero
  <2>2. PICK program : program = source.lists \o ConfigCalls(source.config)
    OBVIOUS
  <2>3. /\ calls = program /\ Len(program) = Len(source.lists) + 5
        /\ \A i \in 1..Len(source.lists) : program[i] = source.lists[i]
    BY <2>1, <2>2, ProgramAtStart DEF SetupInit
  <2>4. PICK n \in Nat : n = Len(source.lists)
    BY <2>1
  <2>5. Len(program) = n + 5 /\ \A i \in 1..Len(program) : i <= Len(program) - 5 <=> i \in 1..n
    BY <2>3, <2>4
  <2>6. ForLines(calls)
    <3>1. \A i \in 1..n : /\ Len(source.lists[i].args) = 1
                          /\ source.lists[i].args[1] \in ListLines(source.lists[i].op)
      BY <2>1, <2>4, SetupAssumption DEF ListLines
    <3> QED
      BY <2>3, <2>4, <2>5, <3>1 DEF ForLines
  <2>7. Expressions
    <3>1. ~(Len(calls) <= 1) /\ Len(calls) # 2
      BY <2>3, <2>4, <2>5
    <3> QED
      BY <2>1, <3>1 DEF Expressions, Zero
  <2>8. \A h \in ListLines("Hosts.Add") : ToCome(h)
    <3> SUFFICES ASSUME NEW h \in ListLines("Hosts.Add") PROVE ToCome(h)
      OBVIOUS
    <3>1. PICK i \in 1..n : source.lists[i].op = "Hosts.Add" /\ source.lists[i].args[1] = h
      BY <2>4 DEF ListLines
    <3>2. i \in 1..Len(program) /\ i <= Len(program) - 5 /\ program[i] = source.lists[i]
      BY <2>3, <2>4, <2>5
    <3> QED
      BY <2>3, <3>1, <3>2 DEF ToCome
  <2>9. Listed
    BY <2>1, <2>8 DEF Listed
  <2> QED
    BY <2>6, <2>7, <2>9 DEF LInv
<1>2. SInv /\ LInv /\ [SetupNext]_setupVars => LInv'
  BY NextKeepsLInv
<1> QED
  BY <1>1, <1>2, SInvInvariant, PTL DEF SetupSpec

\* Unhost lines and unhostlists come last and take out their own text: no host
\* of an unhost line is left, and every other host of the lists is.
THEOREM UnhostsLiteralHolds == SetupSpec => []UnhostsLiteral
<1>1. ASSUME SInv, LInv PROVE UnhostsLiteral
  <2>1. pc \notin {"read", "killed"} => TakesItsOwnText(hosts)
    <3> SUFFICES ASSUME pc \notin {"read", "killed"} PROVE TakesItsOwnText(hosts)
      OBVIOUS
    <3>1. pc \in {"visit", "write", "done"} /\ hosts \intersect Unhosts = {}
      BY <1>1 DEF SInv, Compiling, IInv, TypeOK
    <3> QED
      BY <1>1, <3>1 DEF LInv, Listed, TakenOut, TakesItsOwnText
  <2>2. Loaded => Len(calls) = 0 /\ Keys \intersect Unhosts = {}
    BY <1>1 DEF SInv, Loading, Loaded
  <2>3. Loaded /\ file = NoFile => TakesItsOwnText(Keys)
    <3>1. ASSUME Loaded PROVE \A h : ~ToCome(h)
      BY <2>2, <3>1 DEF ToCome
    <3> QED
      BY <1>1, <2>2, <3>1 DEF LInv, Listed, TakenOut, TakesItsOwnText
  <2> QED
    BY <2>1, <2>2, <2>3 DEF UnhostsLiteral
<1> QED
  BY <1>1, SInvInvariant, LInvInvariant, PTL

\* A server that starts from the compiled file blocks what the compile command
\* had read, but for what only expressions of the lists match.
THEOREM RestartLosesOnlyListRegexpsHolds == SetupSpec => []RestartLosesOnlyListRegexps
<1>1. ASSUME SInv, LInv PROVE RestartLosesOnlyListRegexps
  <2> SUFFICES ASSUME Serving, Loaded, started = "done", \A h \in hosts : StripWWW(h) = h,
                      NEW n \in Name,
                      \/ InHosts(hosts, n)
                      \/ \E r \in Regexp \ ListLines("Regexps.Add") :
                           known[r] > 0 /\ <<r, n>> \in Matches
               PROVE  InHosts(Keys, n) \/ MatchesAny(regexps, n)
    BY DEF RestartLosesOnlyListRegexps
  <2>1. pc = "done" /\ IInv
    BY <1>1 DEF SInv, Compiling
  <2>2. Len(calls) = 0
    BY DEF Loaded
  <2>3. CASE InHosts(hosts, n)
    <3>1. InHosts(file, n)
      <4>1. newHosts \union todo = file
        BY <2>1 DEF IInv, FileFollows
      <4> QED
        BY <2>1, <2>3, <4>1 DEF IInv, SameBlocked
    <3>2. file \subseteq Keys
      BY <1>1, <2>2 DEF SInv, Restarting
    <3> QED
      BY <3>1, <3>2, InHostsMonotonic
  <2>4. ASSUME NEW r \in Regexp \ ListLines("Regexps.Add"), known[r] > 0, <<r, n>> \in Matches
        PROVE  MatchesAny(regexps, n)
    <3>1. regexps[r] = OfConfig(r) /\ known[r] = OfConfig(r)
      BY <1>1, <2>1, <2>2 DEF LInv, Expressions
    <3> QED
      BY <2>4, <3>1 DEF MatchesAny
  <2> QED
    BY <2>3, <2>4
<1> QED
  BY <1>1, SInvInvariant, LInvInvariant, PTL

\* A page begun when the loading is over gets the script that the order of the
\* surrogate lines and the host list determine.
THEOREM ScriptSettledHolds == SetupSpec => []ScriptSettled
<1>1. SInv => ScriptSettled
  BY DEF SInv, Pages
<1> QED
  BY <1>1, SInvInvariant, PTL

\* A script that is sent fits its host, and is missed only by the pages that
\* are begun before the scripts are added.
THEOREM NoScriptMissedHolds == SetupSpec => []NoScriptMissed
<1>1. SInv => NoScriptMissed
  BY DEF SInv, Pages
<1> QED
  BY <1>1, SInvInvariant, PTL

\* A finished compiled file blocks what the hosts that ReadHosts has put
\* together block.
THEOREM CompiledBlocksTheSameInSetup == SetupSpec => []CompiledBlocksTheSame
<1>1. SInv => CompiledBlocksTheSame
  BY DEF SInv, Compiling, IInv, SameBlocked, FileFollows, CompiledBlocksTheSame
<1> QED
  BY <1>1, SInvInvariant, PTL

\* Nor does it ever block a name the lists do not block.
THEOREM CompiledBlocksNoMoreInSetup == SetupSpec => []CompiledBlocksNoMore
<1>1. SInv => CompiledBlocksNoMore
  BY DEF SInv, Compiling, IInv, TypeOK, FileFollows, CompiledBlocksNoMore, InHosts
<1> QED
  BY <1>1, SInvInvariant, PTL

-----------------------------------------------------------------------------
(* The compile command implements Reduction                                *)

Rest == IF file = NoFile THEN {} ELSE newHosts \ file

Phase == CASE pc = "visit" -> "reduce" [] pc = "write" -> "dump" [] OTHER -> pc

\* The two modules mean the same by blocking the same names.
LEMMA SameReductions ==
  ASSUME NEW m
  PROVE  Abstract!Reductions(m) = Reductions(m) /\ Abstract!NoFile = NoFile
BY DEF Abstract!Reductions, Abstract!InHosts, Abstract!Suffixes, Abstract!Suffix, Abstract!NoFile, Abstract!NoName,
       Reductions, InHosts, Suffixes, Suffix, NoFile, NoName

\* A file with a host in it is there.
LEMMA FileIsThere ==
  ASSUME NEW f \in SUBSET Name
  PROVE  f # NoFile
BY NameAssumption DEF NoFile, NoName

\* The rounds of the loop do not show, and the list chosen is what they leave.
LEMMA CompileImplementsReduction ==
  ASSUME SInv, Next
  PROVE  [Abstract!Next]_Abstract!vars
<1>1. Compiling
  BY DEF SInv
<1>2. CASE pc = "read"
  BY <1>2 DEF Next, Visit, Create, Write, Finish, Kill
<1>3. CASE pc # "read"
  <2>1. IInv
    BY <1>1, <1>3 DEF Compiling
  <2>2. ASSUME NEW name \in Name, Visit(name) PROVE UNCHANGED Abstract!vars
    <3>1. file = NoFile /\ file' = NoFile
      BY <2>1, <2>2 DEF IInv, FileFollows, Visit, NoFile
    <3>2. Rest' = Rest /\ Phase' = Phase /\ hosts' = hosts
      BY <2>2, <3>1 DEF Rest, Phase, Visit, NoFile
    <3> QED
      BY <3>1, <3>2 DEF Abstract!vars, Rest, Phase
  <2>3. ASSUME Create PROVE Abstract!Reduce
    <3>1. newHosts \union todo = newHosts /\ newHosts \subseteq hosts
      BY <2>1, <2>3 DEF IInv, TypeOK, Create
    <3>2. newHosts \in Reductions(hosts)
      BY <2>1, <3>1 DEF IInv, SameBlocked, Reductions
    <3>3. file' = {} /\ Rest' = newHosts
      BY <2>3, FileIsThere DEF Create, Rest, NoFile
    <3>4. Phase = "reduce" /\ Phase' = "dump" /\ hosts' = hosts
      BY <2>3 DEF Create, Phase
    <3> QED
      BY <3>2, <3>3, <3>4, SameReductions DEF Abstract!Reduce, Rest, Phase
  <2>4. ASSUME NEW host \in Name, Write(host) PROVE Abstract!Dump
    <3>1. /\ file # NoFile /\ file \subseteq newHosts /\ newHosts \subseteq Name
      BY <2>1, <2>4 DEF IInv, TypeOK, FileFollows, Write
    <3>2. file' # NoFile
      BY <2>4, <3>1, FileIsThere DEF Write
    <3>3. /\ host \in Rest /\ file' = file \union {host} /\ Rest' = Rest \ {host}
      BY <2>4, <3>1, <3>2 DEF Write, Rest, NoFile
    <3>4. Phase = "dump" /\ Phase' = "dump" /\ hosts' = hosts
      BY <2>4 DEF Write, Phase
    <3> QED
      BY <3>3, <3>4 DEF Abstract!Dump, Rest, Phase
  <2>5. ASSUME Finish PROVE Abstract!Finish
    <3>1. Rest = {} /\ Rest' = {} /\ UNCHANGED <<hosts, file>>
      BY <2>5 DEF Finish, Rest, NoFile
    <3>2. Phase = "dump" /\ Phase' = "done"
      BY <2>5 DEF Finish, Phase
    <3> QED
      BY <3>1, <3>2 DEF Abstract!Finish, Rest, Phase
  <2>6. ASSUME Kill PROVE Abstract!Kill
    <3>1. Rest' = Rest /\ UNCHANGED <<hosts, file>>
      BY <2>6 DEF Kill, Rest, NoFile
    <3>2. Phase \in {"reduce", "dump"} /\ Phase' = "killed"
      BY <2>6 DEF Kill, Phase
    <3> QED
      BY <3>1, <3>2 DEF Abstract!Kill, Rest, Phase
  <2> QED
    BY <2>2, <2>3, <2>4, <2>5, <2>6 DEF Next, Abstract!Next
<1> QED
  BY <1>2, <1>3

LEMMA StepImplementsReduction ==
  ASSUME SInv, [SetupNext]_setupVars
  PROVE  [Abstract!Next]_Abstract!vars
<1>1. CASE Begin
  <2>1. pc = "read" /\ hosts' = Keys /\ pc' = "visit" /\ UNCHANGED <<newHosts, file>>
    BY <1>1 DEF Begin
  <2>2. Keys \in SUBSET Name
    BY DEF SInv, Loading
  <2>3. Rest' = Rest /\ Phase = "read" /\ Phase' = "reduce"
    BY <2>1 DEF Rest, Phase, NoFile
  <2> QED
    BY <2>1, <2>2, <2>3 DEF Abstract!Next, Abstract!Read, Rest, Phase
<1>2. CASE KillReading
  <2>1. Rest' = Rest /\ Phase = "read" /\ Phase' = "killed" /\ UNCHANGED <<hosts, file>>
    BY <1>2 DEF KillReading, Rest, Phase, NoFile
  <2> QED
    BY <2>1 DEF Abstract!Next, Abstract!Kill, Rest, Phase
<1>3. CASE Next
  BY <1>3, CompileImplementsReduction
<1>4. CASE UNCHANGED vars
  <2>1. Rest' = Rest /\ Phase' = Phase /\ UNCHANGED <<hosts, file>>
    BY <1>4 DEF vars, Rest, Phase, NoFile
  <2> QED
    BY <2>1 DEF Abstract!vars, Rest, Phase
<1>5. Begin \/ KillReading \/ Next \/ UNCHANGED vars
  BY DEF SetupNext, StartServer, setupVars
<1> QED
  BY <1>1, <1>2, <1>3, <1>4, <1>5

LEMMA InitImplementsReduction == SetupInit => Abstract!Init
<1> SUFFICES ASSUME SetupInit PROVE Abstract!Init
  OBVIOUS
<1>1. hosts = {} /\ file = NoFile /\ pc = "read"
  BY DEF SetupInit
<1>2. Rest = {} /\ Phase = "read"
  BY <1>1 DEF Rest, Phase
<1> QED
  BY <1>1, <1>2, SameReductions DEF Abstract!Init, Rest, Phase

\* In whatever order the maps are visited, and wherever the command is killed,
\* to those who see the hosts and the file it is one reduction, written host by
\* host.
THEOREM ImplementsReduction == SetupSpec => ReductionSpec
<1>1. SInv /\ [SetupNext]_setupVars => [Abstract!Next]_Abstract!vars
  BY StepImplementsReduction
<1> QED
  BY <1>1, InitImplementsReduction, SInvInvariant, PTL
     DEF SetupSpec, ReductionSpec, Abstract!Spec

=============================================================================
