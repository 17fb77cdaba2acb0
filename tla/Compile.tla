------------------------------- MODULE Compile -------------------------------
(***************************************************************************)
(* The "compile" command (cmd/compile.go, ConfigT.Compile): the host list  *)
(* that ReadHosts has put together is reduced to a smaller one that blocks *)
(* the same names, and written to /cache/compiled, one host per line.  Go  *)
(* visits the keys of a map in an arbitrary order, and the process may be  *)
(* killed at any time.                                                     *)
(***************************************************************************)
EXTENDS HostLists

CONSTANT
  TextSuffix   \* pairs <<host, name>> of different names such that the text of
               \* host ends in that of name in the middle of a label

ASSUME TextSuffixAssumption == TextSuffix \subseteq Name \X Name

VARIABLES
  hosts,      \* the keys of cfg.Hosts.m; Compile holds the list's lock
  todo,       \* the keys the loop over Hosts.m has not visited
  newHosts,   \* the keys of newHosts
  file,       \* the hosts in /cache/compiled, or NoFile
  pc          \* "visit" --> "write" --> "done", or "killed"

vars == <<hosts, todo, newHosts, file, pc>>

\* No /cache/compiled; a file that exists is a set of hosts.
NoFile == {NoName}

TypeOK ==
  /\ hosts \subseteq Name
  /\ todo \subseteq hosts
  /\ newHosts \subseteq hosts
  /\ file \in (SUBSET hosts) \union {NoFile}
  /\ pc \in {"visit", "write", "done", "killed"}

\* The command removes the old file before ReadHosts, so that the hosts are
\* read from the lists.
Init ==
  /\ hosts \in SUBSET Name
  /\ todo = hosts
  /\ newHosts = {}
  /\ file = NoFile
  /\ pc = "visit"

-----------------------------------------------------------------------------

\* strings.HasSuffix(host, name)
HasSuffix(host, name) ==
  name \in Suffixes(host) \/ <<host, name>> \in TextSuffix

\* newHosts after the loop body for a name none of whose suffixes it holds:
\* the inner loop deletes the name itself, which is not there.
\*
\* Mutant: the inner loop deletes the hosts that end in the name.
KeepDeletesHosts(m, name) ==
  {host \in m : ~HasSuffix(host, name)} \union {name}

Keep(m, name) ==
  (IF \E host \in m : HasSuffix(host, name) THEN m \ {name} ELSE m) \union {name}

\* Mutant: the name is replaced by its parent domain.
VisitKeepsParent(name) ==
  /\ pc = "visit" /\ name \in todo
  /\ todo' = todo \ {name}
  /\ newHosts' = IF InHosts(newHosts, name) \/ Len(name) = 1
                 THEN newHosts
                 ELSE Keep(newHosts, Suffix(name, Len(name) - 1))
  /\ UNCHANGED <<hosts, file, pc>>

\* One round of the loop over Hosts.m.
Visit(name) ==
  /\ pc = "visit" /\ name \in todo
  /\ todo' = todo \ {name}
  /\ newHosts' = IF InHosts(newHosts, name) THEN newHosts
                                            ELSE Keep(newHosts, name)
  /\ UNCHANGED <<hosts, file, pc>>

\* os.Create("/cache/compiled")
Create ==
  /\ pc = "visit" /\ todo = {}
  /\ file' = {}
  /\ pc' = "write"
  /\ UNCHANGED <<hosts, todo, newHosts>>

\* Mutant: the file is created anew for every host.
WriteTruncates(host) ==
  /\ pc = "write" /\ host \in newHosts \ file
  /\ file' = {host}
  /\ UNCHANGED <<hosts, todo, newHosts, pc>>

\* One round of the loop over newHosts.
Write(host) ==
  /\ pc = "write" /\ host \in newHosts \ file
  /\ file' = file \union {host}
  /\ UNCHANGED <<hosts, todo, newHosts, pc>>

Finish ==
  /\ pc = "write" /\ file = newHosts
  /\ pc' = "done"
  /\ UNCHANGED <<hosts, todo, newHosts, file>>

\* The process is killed, or a write fails and msg.Fatal ends it.
Kill ==
  /\ pc \in {"visit", "write"}
  /\ pc' = "killed"
  /\ UNCHANGED <<hosts, todo, newHosts, file>>

Next ==
  \/ \E name \in Name : Visit(name) \/ Write(name)
  \/ Create \/ Finish \/ Kill

Spec == Init /\ [][Next]_vars

-----------------------------------------------------------------------------
(* Properties *)

\* A finished compilation blocks exactly the names the lists block, in
\* whatever order the two maps are visited ("You don't strictly need to do
\* this", cmd/compile.go).
CompiledBlocksTheSame ==
  pc = "done" => \A n \in Name : InHosts(file, n) <=> InHosts(hosts, n)

\* At no time, a kill in the middle included, does the file block a name the
\* lists do not block.
CompiledBlocksNoMore ==
  file # NoFile => \A n \in Name : InHosts(file, n) => InHosts(hosts, n)

\* "with duplicates and redundant entries removed" (cmd/compile.go): no entry
\* of a finished file is a subdomain of another entry.
NoRedundantEntry ==
  pc = "done" => \A x, y \in file : x # y => x \notin Suffixes(y)

=============================================================================
