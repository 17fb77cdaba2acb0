-------------------------------- MODULE Config --------------------------------
(***************************************************************************)
(* The configuration file (cfg/cfg.go) and the calls ReadHosts makes with  *)
(* what is in it (cfg/config.go), as pure operators.  Each key of the file *)
(* appends to a field of ConfigT; ReadHosts goes through the fields in an  *)
(* order of its own.                                                       *)
(***************************************************************************)
EXTENDS HostLists

SeqExt == INSTANCE SequencesExt

Key == {"hostlist", "unhostlist", "regexplist", "unregexplist",
        "host", "unhost", "regexp", "unregexp", "surrogate"}

\* The field to which the handler of a key appends; that of unregexplist
\* appends to the list of regexplist.
FieldOf ==
  [hostlist |-> "Hostlists",     unhostlist   |-> "Unhostlists",
   regexplist |-> "Regexplists", unregexplist |-> "Regexplists",
   host   |-> "Hosts",           unhost       |-> "Unhosts",
   regexp |-> "Regexps",         unregexp     |-> "Unregexps",
   surrogate |-> "Surrogates"]

Field == {FieldOf[k] : k \in Key} \union {"Unregexplists"}

\* The handlers.  The arguments of a list key are URLs, those of the others
\* names or expressions; a surrogate line has one argument, the pair of its
\* expression and its script.
Handle(c, line) == [c EXCEPT ![FieldOf[line.key]] = @ \o line.args]

\* Load: the file is a sequence of lines [key, args].
ConfigOf(file) == SeqExt!FoldLeft(Handle, [f \in Field |-> << >>], file)

-----------------------------------------------------------------------------
(* ReadHosts *)

Call(op, args) == [op |-> op, args |-> args]

\* loadList: one call for every line of every list; content[url] are the lines.
LineCalls(op, lines) == [i \in 1..Len(lines) |-> Call(op, << lines[i] >>)]

ListCalls(op, urls, content) ==
  SeqExt!FoldLeft(LAMBDA calls, url : calls \o LineCalls(op, content[url]), << >>, urls)

\* ReadHostsLists without a compiled file
ReadHostsLists(c, content) ==
  ListCalls("Hosts.Add", c.Hostlists, content)
    \o ListCalls("Hosts.Remove", c.Unhostlists, content)
    \o ListCalls("Regexps.Add", c.Regexplists, content)
    \o ListCalls("Regexps.Remove", c.Unregexplists, content)

\* Mutant: the hosts to be kept are removed before the host lines are added.
ConfigCallsRemoveFirst(c) ==
  << Call("Hosts.Remove", c.Unhosts), Call("Hosts.Add", c.Hosts),
     Call("Regexps.Add", c.Regexps), Call("Regexps.Remove", c.Unregexps),
     Call("Surrogates.Add", c.Surrogates) >>

\* What ReadHosts does after ReadHostsLists.
ConfigCalls(c) ==
  << Call("Hosts.Add", c.Hosts), Call("Hosts.Remove", c.Unhosts),
     Call("Regexps.Add", c.Regexps), Call("Regexps.Remove", c.Unregexps),
     Call("Surrogates.Add", c.Surrogates) >>

\* The keys of Hosts after one call; Surrogates.Add sets scripts only.
KeysAfter(keys, call) ==
  IF call.op = "Hosts.Add" THEN HostsAdd(keys, call.args)
  ELSE IF call.op = "Hosts.Remove" THEN HostsRemove(keys, call.args)
  ELSE keys

RegexpsAfter(l, call) ==
  IF call.op = "Regexps.Add" THEN RegexpsAdd(l, call.args)
  ELSE IF call.op = "Regexps.Remove" THEN RegexpsRemove(l, call.args)
  ELSE l

=============================================================================
