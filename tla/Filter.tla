-------------------------------- MODULE Filter --------------------------------
(***************************************************************************)
(* What the DNS front end promises, with no cache, no list and no lock: a  *)
(* request is passed on or blocked in one step, a request is passed on     *)
(* only if its name was open not more than Bound seconds ago, and blocked  *)
(* only if its name was on a block list not more than Bound seconds ago.   *)
(* Requests of the types that are not filtered are passed on unseen.       *)
(***************************************************************************)
EXTENDS Integers

CONSTANTS
  Client,   \* the requests that can be in progress at the same time
  Asked,    \* the names they ask for
  Nobody,   \* no name
  Bound     \* how old the knowledge behind a decision may be, in seconds

VARIABLES
  now,       \* the clock
  open,      \* for every name the last second at which it was open, or -1
  blocked,   \* for every name the last second at which it was blocked, or -1
  asking,    \* the name each request that is not decided yet asks for
  passed     \* the requests that have been sent to the resolver

vars == <<now, open, blocked, asking, passed>>

Recent(t) == t # -1 /\ now - t <= Bound

Ask(c, n) ==
  /\ asking[c] = Nobody /\ c \notin passed
  /\ asking' = [asking EXCEPT ![c] = n]
  /\ UNCHANGED passed

AskOther(c) ==
  /\ asking[c] = Nobody /\ c \notin passed
  /\ passed' = passed \union {c}
  /\ UNCHANGED asking

Pass(c) ==
  /\ asking[c] # Nobody /\ Recent(open[asking[c]])
  /\ asking' = [asking EXCEPT ![c] = Nobody]
  /\ passed' = passed \union {c}

Block(c) ==
  /\ asking[c] # Nobody /\ Recent(blocked[asking[c]])
  /\ asking' = [asking EXCEPT ![c] = Nobody]
  /\ UNCHANGED passed

Answer(c) ==
  /\ c \in passed
  /\ passed' = passed \ {c}
  /\ UNCHANGED asking

\* The lists, the overrides and the clock change as they like.
World ==
  /\ now' \in {now, now + 1}
  /\ \A n \in Asked : open'[n] \in {open[n], now'}
  /\ \A n \in Asked : blocked'[n] \in {blocked[n], now'}

Init ==
  /\ now = 0
  /\ \A n \in Asked : open[n] \in {-1, 0} /\ blocked[n] \in {-1, 0}
  /\ asking = [c \in Client |-> Nobody]
  /\ passed = {}

Next ==
  /\ World
  /\ \/ \E c \in Client : \/ \E n \in Asked : Ask(c, n)
                          \/ AskOther(c) \/ Pass(c) \/ Block(c) \/ Answer(c)
     \/ UNCHANGED <<asking, passed>>

Spec == Init /\ [][Next]_vars

=============================================================================
