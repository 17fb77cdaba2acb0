------------------------------ MODULE Reduction ------------------------------
(***************************************************************************)
(* What the compile command promises, with no map and no order of visits:  *)
(* once the hosts are there, a list that blocks the same names is chosen   *)
(* in one step, and its hosts are written one by one.  Wherever the        *)
(* command ends, the file is a part of that list; if it ends by itself,    *)
(* the file is the whole of it.  These are the steps that module Lists     *)
(* takes for the command.                                                  *)
(***************************************************************************)
EXTENDS HostLists

VARIABLES
  hosts,   \* the hosts read
  file,    \* the hosts in the file, or NoFile
  rest,    \* those still to be written
  stage    \* "read" --> "reduce" --> "dump" --> "done", or "killed"

vars == <<hosts, file, rest, stage>>

NoFile == {NoName}

Init ==
  /\ hosts = {} /\ file = NoFile /\ rest = {}
  /\ stage = "read"

Read ==
  /\ stage = "read" /\ stage' = "reduce"
  /\ hosts' \in SUBSET Name
  /\ UNCHANGED <<file, rest>>

Reduce ==
  /\ stage = "reduce" /\ stage' = "dump"
  /\ rest' \in Reductions(hosts)
  /\ file' = {}
  /\ UNCHANGED hosts

Dump ==
  /\ stage = "dump"
  /\ \E n \in rest : file' = file \union {n} /\ rest' = rest \ {n}
  /\ UNCHANGED <<hosts, stage>>

Finish ==
  /\ stage = "dump" /\ rest = {} /\ stage' = "done"
  /\ UNCHANGED <<hosts, file, rest>>

Kill ==
  /\ stage \in {"read", "reduce", "dump"} /\ stage' = "killed"
  /\ UNCHANGED <<hosts, file, rest>>

Next == Read \/ Reduce \/ Dump \/ Finish \/ Kill

Spec == Init /\ [][Next]_vars

=============================================================================
