----------------------------- MODULE LocksProofs -----------------------------
(***************************************************************************)
(* No set of requests, pages, control connections and no interleaving of   *)
(* them with ReadHosts can bring the locks of the server to a deadlock.    *)
(* The invariant relates the locks to the places of the goroutines: who is *)
(* a reader or a writer is in a section on that lock, or is ReadHosts in   *)
(* the middle of Surrogates.Add.  A reader and a writer that has got its   *)
(* lock then wait for nobody, with that one exception, which asks for      *)
(* another lock whose holders it is not among.                             *)
(***************************************************************************)
EXTENDS Locks, TLAPS

Inside(g) == Busy(g) /\ step[g] # "ask"

Mode == {"read", "write", "held", "none"}

ReadersInside ==
  \A l \in Lock : \A g \in readers[l] :
    Inside(g) /\ Here(g).on = l /\ Here(g).mode = "read"

WritersThere ==
  \A l \in Lock : writer[l] # Nobody =>
    /\ Busy(writer[l])
    /\ \/ Here(writer[l]).on = l /\ Here(writer[l]).mode \in {"write", "held"}
       \/ l = "Surrogates" /\ at[writer[l]] = "setScript"

InsideWrites ==
  \A g \in Goroutine : Busy(g) =>
    /\ Inside(g) /\ Here(g).mode \in {"write", "held"} => writer[Here(g).on] = g
    /\ at[g] = "setScript" => writer["Surrogates"] = g
    /\ Here(g).mode = "held" => step[g] # "ask"

QueuedAsk ==
  \A l \in Lock : \A g \in queued[l] :
    Asks(g, "read") /\ Here(g).on = l /\ writer[l] # Nobody

IInv == TypeOK /\ ReadersInside /\ WritersThere /\ InsideWrites /\ QueuedAsk

-----------------------------------------------------------------------------
(* The table of the sections *)

Shape(x) ==
  /\ Section(x).on \in Lock /\ Section(x).mode \in Mode
  /\ Section(x).then \subseteq Place \union {Idle}
  /\ x # Idle

\* Of all the sections only Surrogates.Add keeps its lock, and the sections
\* under it are entered from it alone.
Nesting(x) ==
  /\ "keep" \in Section(x).does <=> x = "surrogates"
  /\ Section(x).mode = "held" <=> x = "endSurrogates"
  /\ x \in {"surrogates", "endSurrogates"} => Section(x).on = "Surrogates"
  /\ x = "surrogates" => Section(x).mode = "write"
                         /\ Section(x).then = {"setScript", "endSurrogates"}
  /\ x = "setScript" => Section(x).on = "Hosts" /\ Section(x).mode = "write"
                        /\ Section(x).then = {"endSurrogates"}
  /\ x \notin {"surrogates", "setScript"} => "endSurrogates" \notin Section(x).then
  /\ x # "surrogates" => "setScript" \notin Section(x).then

LEMMA Names ==
  /\ DOMAIN RequestSection = {"override", "expired", "cache", "override2",
                              "expired2", "host", "regexp", "store"}
  /\ DOMAIN PageSection = {"findHost", "findRegexp", "allow", "uncache"}
  /\ DOMAIN DumpSection = {"dumpCache", "dumpHosts", "dumpRegexps", "dumpOverride"}
  /\ DOMAIN CommandSection = {"lenHosts", "lenRegexps", "lenCache", "countHosts",
                              "flushCache", "flushOverride", "answer"}
  /\ DOMAIN AddSection = {"surrogates", "setScript", "endSurrogates"}
  /\ DOMAIN MainSection = {"addHosts", "removeHosts", "addRegexps",
                           "removeRegexps", "purge"}
  BY DEF RequestSection, PageSection, DumpSection, CommandSection, AddSection,
         MainSection

LEMMA RequestFacts == \A x \in DOMAIN RequestSection : Shape(x) /\ Nesting(x)
  <1> SUFFICES ASSUME NEW x \in DOMAIN RequestSection PROVE Shape(x) /\ Nesting(x)
    OBVIOUS
  <1>1. Section(x) = RequestSection[x]
    BY Names DEF Section
  <1>2. RequestSection[x].on \in Lock /\ RequestSection[x].mode \in Mode
    BY Names DEF RequestSection, Writing, Reading, Locking, Lock, Mode
  <1>3. RequestSection[x].then \subseteq DOMAIN RequestSection \union {Idle}
    BY Names DEF RequestSection, Writing, Reading, Locking
  <1>4. Shape(x)
    BY <1>1, <1>2, <1>3, Names DEF Shape, Place, Idle
  <1>5. Nesting(x)
    BY <1>1, Names DEF Nesting, RequestSection, Writing, Reading, Locking, Idle
  <1> QED BY <1>4, <1>5

LEMMA PageFacts == \A x \in DOMAIN PageSection : Shape(x) /\ Nesting(x)
  <1> SUFFICES ASSUME NEW x \in DOMAIN PageSection PROVE Shape(x) /\ Nesting(x)
    OBVIOUS
  <1>1. Section(x) = PageSection[x]
    BY Names DEF Section
  <1>2. PageSection[x].on \in Lock /\ PageSection[x].mode \in Mode
    BY Names DEF PageSection, Writing, Reading, Locking, Lock, Mode
  <1>3. PageSection[x].then \subseteq DOMAIN PageSection \union {Idle}
    BY Names DEF PageSection, Writing, Reading, Locking
  <1>4. Shape(x)
    BY <1>1, <1>2, <1>3, Names DEF Shape, Place, Idle
  <1>5. Nesting(x)
    BY <1>1, Names DEF Nesting, PageSection, Writing, Reading, Locking, Idle
  <1> QED BY <1>4, <1>5

LEMMA DumpFacts == \A x \in DOMAIN DumpSection : Shape(x) /\ Nesting(x)
  <1> SUFFICES ASSUME NEW x \in DOMAIN DumpSection PROVE Shape(x) /\ Nesting(x)
    OBVIOUS
  <1>1. Section(x) = DumpSection[x]
    BY Names DEF Section
  <1>2. DumpSection[x].on \in Lock /\ DumpSection[x].mode \in Mode
    BY Names DEF DumpSection, Writing, Reading, Locking, Lock, Mode
  <1>3. DumpSection[x].then \subseteq {"answer"}
    BY Names DEF DumpSection, Writing, Reading, Locking
  <1>4. Shape(x)
    BY <1>1, <1>2, <1>3, Names DEF Shape, Place, Idle
  <1>5. Nesting(x)
    BY <1>1, Names DEF Nesting, DumpSection, Writing, Reading, Locking, Idle
  <1> QED BY <1>4, <1>5

LEMMA CommandFacts == \A x \in DOMAIN CommandSection : Shape(x) /\ Nesting(x)
  <1> SUFFICES ASSUME NEW x \in DOMAIN CommandSection PROVE Shape(x) /\ Nesting(x)
    OBVIOUS
  <1>1. Section(x) = CommandSection[x]
    BY Names DEF Section
  <1>2. CommandSection[x].on \in Lock /\ CommandSection[x].mode \in Mode
    BY Names DEF CommandSection, Writing, Reading, Locking, Lock, Mode
  <1>3. CommandSection[x].then \subseteq DOMAIN CommandSection \union {"dumpHosts", Idle}
    BY Names DEF CommandSection, Writing, Reading, Locking
  <1>4. Shape(x)
    BY <1>1, <1>2, <1>3, Names DEF Shape, Place, Idle
  <1>5. Nesting(x)
    BY <1>1, Names DEF Nesting, CommandSection, Writing, Reading, Locking, Idle
  <1> QED BY <1>4, <1>5

LEMMA AddFacts == \A x \in DOMAIN AddSection : Shape(x) /\ Nesting(x)
  <1> SUFFICES ASSUME NEW x \in DOMAIN AddSection PROVE Shape(x) /\ Nesting(x)
    OBVIOUS
  <1>1. Section(x) = AddSection[x]
    BY Names DEF Section
  <1>2. AddSection[x].on \in Lock /\ AddSection[x].mode \in Mode
    BY Names DEF AddSection, Writing, Reading, Locking, Lock, Mode
  <1>3. AddSection[x].then \subseteq DOMAIN AddSection \union {Idle}
    BY Names DEF AddSection, Writing, Reading, Locking
  <1>4. Shape(x)
    BY <1>1, <1>2, <1>3, Names DEF Shape, Place, Idle
  <1>5. Nesting(x)
    BY <1>1, Names DEF Nesting, AddSection, Writing, Reading, Locking, Idle
  <1> QED BY <1>4, <1>5

LEMMA MainFacts == \A x \in DOMAIN MainSection : Shape(x) /\ Nesting(x)
  <1> SUFFICES ASSUME NEW x \in DOMAIN MainSection PROVE Shape(x) /\ Nesting(x)
    OBVIOUS
  <1>1. Section(x) = MainSection[x]
    BY Names DEF Section
  <1>2. MainSection[x].on \in Lock /\ MainSection[x].mode \in Mode
    BY Names DEF MainSection, Writing, Reading, Locking, Lock, Mode
  <1>3. MainSection[x].then \subseteq DOMAIN MainSection \union {"surrogates", Idle}
    BY Names DEF MainSection, Writing, Reading, Locking
  <1>4. Shape(x)
    BY <1>1, <1>2, <1>3, Names DEF Shape, Place, Idle
  <1>5. Nesting(x)
    BY <1>1, Names DEF Nesting, MainSection, Writing, Reading, Locking, Idle
  <1> QED BY <1>4, <1>5

LEMMA PlaceFacts == \A x \in Place : Shape(x) /\ Nesting(x)
  BY RequestFacts, PageFacts, DumpFacts, CommandFacts, AddFacts, MainFacts DEF Place

LEMMA EntryPlace == \A g \in Goroutine : \A x \in Entry(g) :
                      x \in Place /\ x \notin {"setScript", "endSurrogates"}
  BY LocksAssumption, Names DEF Entry, Place

-----------------------------------------------------------------------------
(* The invariant *)

LEMMA InitInv == Init => IInv
  <1> SUFFICES ASSUME Init PROVE IInv
    OBVIOUS
  <1>1. "addHosts" \in Place /\ Idle \notin Place
    BY Names, PlaceFacts DEF Place, Shape
  <1>2. TypeOK
    BY <1>1 DEF Init, TypeOK, Step
  <1>3. ReadersInside /\ WritersThere /\ QueuedAsk
    BY DEF Init, ReadersInside, WritersThere, QueuedAsk
  <1>4. "addHosts" # "setScript" /\ Section("addHosts").mode # "held"
    BY <1>1, PlaceFacts DEF Nesting
  <1>5. InsideWrites
    BY <1>1, <1>4 DEF Init, InsideWrites, Inside, Busy, Here, Idle
  <1> QED BY <1>2, <1>3, <1>5 DEF IInv

\* What the table says about the section a goroutine is in.
LEMMA HereFacts ==
  ASSUME TypeOK, NEW g \in Goroutine, Busy(g)
  PROVE  /\ at[g] \in Place /\ Shape(at[g]) /\ Nesting(at[g])
         /\ Here(g).on \in Lock
  BY PlaceFacts DEF TypeOK, Busy, Here, Shape

LEMMA BeginInv ==
  ASSUME IInv, NEW g \in Goroutine, Begin(g)
  PROVE  IInv'
  <1> USE DEF IInv
  <1>1. PICK x \in Entry(g) : at' = [at EXCEPT ![g] = x]
                              /\ step' = [step EXCEPT ![g] = FirstStep(x)]
    BY DEF Begin
  <1>2. x \in Place /\ x # "setScript" /\ x # "endSurrogates" /\ x # Idle
        /\ Section(x).mode # "held"
    BY EntryPlace, PlaceFacts DEF Shape, Nesting
  <1>3. UNCHANGED mutexes /\ ~Busy(g)
    BY DEF Begin
  <1>4. TypeOK'
    BY <1>1, <1>2, <1>3 DEF TypeOK, FirstStep, Step, mutexes
  <1>5. \A h \in Goroutine : h # g => at'[h] = at[h] /\ step'[h] = step[h]
    BY <1>1 DEF TypeOK
  <1>6. \A h \in Goroutine : h # g => /\ Busy(h)' = Busy(h) /\ Here(h)' = Here(h)
                                      /\ Inside(h)' = Inside(h)
                                      /\ Asks(h, "read")' = Asks(h, "read")
    BY <1>5 DEF Busy, Here, Inside, Asks
  <1>7. ReadersInside'
    BY <1>3, <1>6 DEF ReadersInside, TypeOK, mutexes, Inside
  <1>8. WritersThere'
    BY <1>3, <1>5, <1>6 DEF WritersThere, TypeOK, mutexes
  <1>9. QueuedAsk'
    BY <1>3, <1>6 DEF QueuedAsk, TypeOK, mutexes, Asks
  <1>10. ASSUME NEW h \in Goroutine, Busy(h)'
         PROVE  /\ (Inside(h) /\ Here(h).mode \in {"write", "held"} => writer[Here(h).on] = h)'
                /\ (at[h] = "setScript" => writer["Surrogates"] = h)'
                /\ (Here(h).mode = "held" => step[h] # "ask")'
    <2>1. CASE h # g
      BY <2>1, <1>3, <1>5, <1>6, <1>10 DEF InsideWrites, mutexes
    <2>2. CASE h = g
      <3>1. at'[g] = x /\ step'[g] = FirstStep(x) /\ Here(g)' = Section(x)
        BY <1>1 DEF TypeOK, Here
      <3>2. Section(x).mode = "write" => FirstStep(x) = "ask"
        BY DEF FirstStep
      <3> QED BY <2>2, <3>1, <3>2, <1>2 DEF Inside
    <2> QED BY <2>1, <2>2
  <1>11. InsideWrites'
    BY <1>10 DEF InsideWrites
  <1> QED BY <1>4, <1>7, <1>8, <1>9, <1>11

\* The goroutines stay where they are, and at most g takes a step in its section.
LEMMA StayFacts ==
  ASSUME TypeOK, NEW g \in Goroutine, UNCHANGED at,
         \A h \in Goroutine : h # g => step'[h] = step[h]
  PROVE  \A h \in Goroutine :
           /\ Busy(h)' = Busy(h) /\ Here(h)' = Here(h)
           /\ h # g => /\ Inside(h)' = Inside(h)
                       /\ Asks(h, "read")' = Asks(h, "read")
  BY DEF Busy, Here, Inside, Asks

LEMMA RLockInv ==
  ASSUME IInv, NEW g \in Goroutine, RLock(g)
  PROVE  IInv'
  <1> USE DEF IInv
  <1> DEFINE l == Here(g).on
  <1>1. Busy(g) /\ step[g] = "ask" /\ Here(g).mode = "read" /\ g \notin queued[l]
        /\ UNCHANGED <<at, writer>> /\ l \in Lock
    BY HereFacts DEF RLock, Asks
  <1>2. CASE /\ writer[l] = Nobody
             /\ readers' = [readers EXCEPT ![l] = @ \union {g}]
             /\ step' = [step EXCEPT ![g] = "in"] /\ UNCHANGED queued
    <2>1. TypeOK'
      BY <1>1, <1>2 DEF TypeOK, Step
    <2>2. \A h \in Goroutine : h # g => step'[h] = step[h]
      BY <1>2 DEF TypeOK
    <2>3. step'[g] = "in"
      BY <1>2 DEF TypeOK
    <2>4. ReadersInside'
      BY <1>1, <1>2, <2>2, <2>3, StayFacts DEF ReadersInside, TypeOK, Inside
    <2>5. WritersThere'
      BY <1>1, <2>2, StayFacts DEF WritersThere, TypeOK
    <2>6. QueuedAsk'
      BY <1>1, <1>2, <2>2, StayFacts DEF QueuedAsk, TypeOK, Asks
    <2>7. InsideWrites'
      BY <1>1, <2>2, <2>3, StayFacts DEF InsideWrites, TypeOK
    <2> QED BY <2>1, <2>4, <2>5, <2>6, <2>7
  <1>3. CASE /\ writer[l] # Nobody
             /\ queued' = [queued EXCEPT ![l] = @ \union {g}]
             /\ UNCHANGED <<readers, step>>
    <2>1. TypeOK'
      BY <1>1, <1>3 DEF TypeOK
    <2>2. \A h \in Goroutine : Busy(h)' = Busy(h) /\ Here(h)' = Here(h)
             /\ Inside(h)' = Inside(h) /\ Asks(h, "read")' = Asks(h, "read")
      BY <1>1, <1>3 DEF Busy, Here, Inside, Asks
    <2>3. ReadersInside' /\ WritersThere' /\ InsideWrites'
      BY <1>1, <1>3, <2>2 DEF ReadersInside, WritersThere, InsideWrites, TypeOK
    <2>4. QueuedAsk'
      BY <1>1, <1>3, <2>2 DEF QueuedAsk, TypeOK, Asks
    <2> QED BY <2>1, <2>3, <2>4
  <1> QED BY <1>1, <1>2, <1>3 DEF RLock

LEMMA AnnounceInv ==
  ASSUME IInv, NEW g \in Goroutine, Announce(g)
  PROVE  IInv'
  <1> USE DEF IInv
  <1> DEFINE l == Here(g).on
  <1>1. Busy(g) /\ step[g] = "ask" /\ Here(g).mode = "write" /\ writer[l] = Nobody
        /\ writer' = [writer EXCEPT ![l] = g]
        /\ UNCHANGED <<at, step, readers, queued>> /\ l \in Lock
    BY HereFacts DEF Announce, Asks
  <1>2. TypeOK'
    BY <1>1 DEF TypeOK
  <1>3. \A h \in Goroutine : Busy(h)' = Busy(h) /\ Here(h)' = Here(h)
           /\ Inside(h)' = Inside(h) /\ Asks(h, "read")' = Asks(h, "read")
    BY <1>1 DEF Busy, Here, Inside, Asks
  <1>4. ReadersInside'
    BY <1>1, <1>3 DEF ReadersInside, TypeOK
  <1>5. WritersThere'
    BY <1>1, <1>3 DEF WritersThere, TypeOK
  <1>6. QueuedAsk'
    BY <1>1, <1>3 DEF QueuedAsk, TypeOK, Asks
  <1>7. InsideWrites'
    BY <1>1, <1>3, LocksAssumption DEF InsideWrites, TypeOK
  <1> QED BY <1>2, <1>4, <1>5, <1>6, <1>7

\* Only the step of g changes, and not to "ask".
LEMMA StepInv ==
  ASSUME IInv, NEW g \in Goroutine, Busy(g), NEW s \in Step \ {"ask"},
         step' = [step EXCEPT ![g] = s], UNCHANGED <<at, mutexes>>,
         Here(g).mode # "read" \/ step[g] # "ask",
         Here(g).mode \in {"write", "held"} => writer[Here(g).on] = g
  PROVE  IInv'
  <1> USE DEF IInv, mutexes
  <1>1. TypeOK'
    BY DEF TypeOK, Step
  <1>2. \A h \in Goroutine : h # g => step'[h] = step[h]
    BY DEF TypeOK
  <1>3. step'[g] = s /\ s # "ask"
    BY DEF TypeOK
  <1>4. ReadersInside'
    BY <1>2, <1>3, StayFacts DEF ReadersInside, TypeOK, Inside
  <1>5. WritersThere'
    BY <1>2, StayFacts DEF WritersThere, TypeOK
  <1>6. QueuedAsk'
    BY <1>2, StayFacts DEF QueuedAsk, TypeOK, Asks
  <1>7. InsideWrites'
    BY <1>2, <1>3, StayFacts DEF InsideWrites, TypeOK, Inside
  <1> QED BY <1>1, <1>4, <1>5, <1>6, <1>7

LEMMA LockedInv ==
  ASSUME IInv, NEW g \in Goroutine, Locked(g)
  PROVE  IInv'
  BY StepInv DEF Locked, Asks, Step

LEMMA SendInv ==
  ASSUME IInv, NEW g \in Goroutine, Send(g)
  PROVE  IInv'
  BY StepInv DEF Send, Step, IInv, InsideWrites, Inside

LEMMA LeaveInv ==
  ASSUME IInv, NEW g \in Goroutine, Leave(g)
  PROVE  IInv'
  <1> USE DEF IInv
  <1> DEFINE l == Here(g).on
             unlocks == Here(g).mode \in {"write", "held"} /\ "keep" \notin Here(g).does
             freed == IF unlocks THEN queued[l] ELSE {}
  <1>1. /\ Busy(g) /\ step[g] # "ask" /\ l \in Lock /\ at[g] \in Place
        /\ Shape(at[g]) /\ Nesting(at[g])
    BY HereFacts DEF Leave
  <1>2. PICK y \in Here(g).then :
          /\ at' = [at EXCEPT ![g] = y]
          /\ step' = [h \in Goroutine |-> IF h = g THEN FirstStep(y)
                                          ELSE IF h \in freed THEN "in" ELSE step[h]]
    BY DEF Leave
  <1>3. /\ y \in Place \union {Idle}
        /\ y = "setScript" => at[g] = "surrogates"
        /\ y = "endSurrogates" => at[g] \in {"surrogates", "setScript"}
        /\ at[g] = "setScript" => y = "endSurrogates" /\ l = "Hosts" /\ unlocks
        /\ at[g] = "surrogates" => y \in {"setScript", "endSurrogates"} /\ ~unlocks
        /\ y # Idle => Shape(y) /\ Nesting(y)
    BY <1>1, <1>2, PlaceFacts DEF Shape, Nesting, Here
  <1>4. \A h \in freed : h \in Goroutine /\ h # g /\ Asks(h, "read") /\ Here(h).on = l
    BY <1>1 DEF QueuedAsk, Asks, TypeOK
  <1>5. \A h \in Goroutine : h # g =>
          /\ at'[h] = at[h] /\ Busy(h)' = Busy(h) /\ Here(h)' = Here(h)
          /\ step'[h] = IF h \in freed THEN "in" ELSE step[h]
    BY <1>2 DEF TypeOK, Busy, Here
  <1>6. /\ at'[g] = y /\ step'[g] = FirstStep(y)
        /\ Busy(g)' <=> y # Idle
        /\ Here(g)' = Section(y)
        /\ y \in Place /\ FirstStep(y) # "ask" => Section(y).mode \in {"held", "none"}
        /\ Section(y).mode = "held" /\ y # Idle => FirstStep(y) # "ask"
    BY <1>2, <1>3 DEF TypeOK, Busy, Here, FirstStep, Shape
  <1>7. TypeOK'
    <2>1. at' \in [Goroutine -> Place \union {Idle}]
      BY <1>2, <1>3 DEF TypeOK
    <2>2. step' \in [Goroutine -> Step]
      BY <1>2 DEF TypeOK, Step, FirstStep
    <2>3. /\ readers' \in [Lock -> SUBSET Goroutine]
          /\ writer' \in [Lock -> Goroutine \union {Nobody}]
          /\ queued' \in [Lock -> SUBSET Goroutine]
      BY <1>1 DEF Leave, TypeOK
    <2> QED BY <2>1, <2>2, <2>3 DEF TypeOK
  <1>8. CASE unlocks
    <2>1. /\ writer' = [writer EXCEPT ![l] = Nobody]
          /\ readers' = [readers EXCEPT ![l] = queued[l]]
          /\ queued' = [queued EXCEPT ![l] = {}]
          /\ writer[l] = g /\ freed = queued[l] /\ at[g] # "surrogates"
      BY <1>1, <1>3, <1>8 DEF Leave, InsideWrites, Inside
    <2>2. ReadersInside'
      <3> SUFFICES ASSUME NEW k \in Lock, NEW h \in readers'[k]
                   PROVE  Inside(h)' /\ Here(h)'.on = k /\ Here(h)'.mode = "read"
        BY DEF ReadersInside
      <3>1. CASE k = l
        BY <3>1, <2>1, <1>4, <1>5 DEF Inside, Asks, TypeOK
      <3>2. CASE k # l
        BY <3>2, <2>1, <1>5, <1>8 DEF ReadersInside, Inside, TypeOK
      <3> QED BY <3>1, <3>2
    <2>3. WritersThere'
      <3> SUFFICES ASSUME NEW k \in Lock, writer'[k] # Nobody
                   PROVE  /\ Busy(writer[k])'
                          /\ \/ (Here(writer[k]).on = k /\ Here(writer[k]).mode \in {"write", "held"})'
                             \/ k = "Surrogates" /\ at'[writer'[k]] = "setScript"
        BY DEF WritersThere
      <3>1. k # l /\ writer'[k] = writer[k] /\ writer[k] \in Goroutine
        BY <2>1, <1>1 DEF TypeOK
      <3>2. CASE writer[k] # g
        BY <3>1, <3>2, <1>5 DEF WritersThere, Busy, Here
      <3>3. CASE writer[k] = g
        <4>1. k = "Surrogates" /\ at[g] = "setScript"
          BY <3>1, <3>3 DEF WritersThere
        <4>2. /\ at'[g] = "endSurrogates" /\ "endSurrogates" # Idle
              /\ Section("endSurrogates").mode = "held"
              /\ Section("endSurrogates").on = "Surrogates"
          BY <4>1, <1>3, <1>6 DEF Nesting, Shape, Idle
        <4> QED BY <4>1, <4>2, <3>1, <3>3 DEF Busy, Here
      <3> QED BY <3>2, <3>3
    <2>4. InsideWrites'
      <3> SUFFICES ASSUME NEW h \in Goroutine, Busy(h)'
                   PROVE  /\ Inside(h)' /\ Here(h)'.mode \in {"write", "held"} => writer'[Here(h)'.on] = h
                          /\ at'[h] = "setScript" => writer'["Surrogates"] = h
                          /\ Here(h)'.mode = "held" => step'[h] # "ask"
        BY DEF InsideWrites
      <3>1. CASE h # g
        <4>1. Here(h).on \in Lock
          BY <3>1, <1>5, HereFacts
        <4>2. h \in freed => Here(h).mode = "read"
          BY <1>4 DEF Asks
        <4> QED BY <3>1, <4>1, <4>2, <2>1, <1>1, <1>5 DEF InsideWrites, Inside, TypeOK, Lock
      <3>2. CASE h = g
        <4>1. at'[h] # "setScript"
          BY <3>2, <2>1, <1>3, <1>6
        <4>2. Here(h)'.mode = "held" => y = "endSurrogates" /\ writer'["Surrogates"] = g
                                        /\ Section(y).on = "Surrogates"
          BY <3>2, <2>1, <1>1, <1>3, <1>6, HereFacts DEF Nesting, InsideWrites, Lock, TypeOK
        <4> QED BY <3>2, <4>1, <4>2, <1>3, <1>6 DEF Inside
      <3> QED BY <3>1, <3>2
    <2>5. QueuedAsk'
      BY <2>1, <1>1, <1>4, <1>5 DEF QueuedAsk, Asks, TypeOK
    <2> QED BY <1>7, <2>2, <2>3, <2>4, <2>5
  <1>9. CASE ~unlocks
    <2>1. /\ UNCHANGED <<writer, queued>> /\ freed = {}
          /\ readers' = IF Here(g).mode = "read" /\ "keep" \notin Here(g).does
                        THEN [readers EXCEPT ![l] = @ \ {g}]
                        ELSE readers
          /\ at[g] # "setScript"
          /\ Here(g).mode \in {"write", "held"} => at[g] = "surrogates" /\ l = "Surrogates"
          /\ Here(g).mode = "read" => "keep" \notin Here(g).does
      BY <1>1, <1>3, <1>9 DEF Leave, Nesting, Here
    <2>2. ReadersInside'
      <3> SUFFICES ASSUME NEW k \in Lock, NEW h \in readers'[k]
                   PROVE  Inside(h)' /\ Here(h)'.on = k /\ Here(h)'.mode = "read"
        BY DEF ReadersInside
      <3>1. h \in readers[k] /\ h # g
        BY <2>1, <1>1 DEF ReadersInside, TypeOK
      <3> QED BY <3>1, <2>1, <1>5 DEF ReadersInside, Inside, TypeOK
    <2>3. WritersThere'
      <3> SUFFICES ASSUME NEW k \in Lock, writer[k] # Nobody
                   PROVE  /\ Busy(writer[k])'
                          /\ \/ (Here(writer[k]).on = k /\ Here(writer[k]).mode \in {"write", "held"})'
                             \/ k = "Surrogates" /\ at'[writer'[k]] = "setScript"
        BY <2>1 DEF WritersThere
      <3>1. writer[k] \in Goroutine /\ writer'[k] = writer[k]
        BY <2>1 DEF TypeOK
      <3>2. CASE writer[k] # g
        BY <3>1, <3>2, <2>1, <1>5 DEF WritersThere, Busy, Here
      <3>3. CASE writer[k] = g
        <4>1. k = "Surrogates" /\ at[g] = "surrogates"
          BY <3>3, <2>1 DEF WritersThere
        <4>2. CASE y = "setScript"
          <5>1. at'[g] = "setScript" /\ "setScript" # Idle
            BY <4>2, <1>6 DEF Idle
          <5> QED BY <4>1, <5>1, <3>1, <3>3 DEF Busy
        <4>3. CASE y = "endSurrogates"
          <5>1. /\ at'[g] = "endSurrogates" /\ "endSurrogates" # Idle
                /\ Section("endSurrogates").mode = "held"
                /\ Section("endSurrogates").on = "Surrogates"
            BY <4>3, <1>3, <1>6 DEF Nesting, Shape, Idle
          <5> QED BY <4>1, <5>1, <3>1, <3>3 DEF Busy, Here
        <4> QED BY <4>1, <4>2, <4>3, <1>3
      <3> QED BY <3>2, <3>3
    <2>4. InsideWrites'
      <3> SUFFICES ASSUME NEW h \in Goroutine, Busy(h)'
                   PROVE  /\ Inside(h)' /\ Here(h)'.mode \in {"write", "held"} => writer'[Here(h)'.on] = h
                          /\ at'[h] = "setScript" => writer'["Surrogates"] = h
                          /\ Here(h)'.mode = "held" => step'[h] # "ask"
        BY DEF InsideWrites
      <3>1. CASE h # g
        BY <3>1, <2>1, <1>5 DEF InsideWrites, Inside
      <3>2. CASE h = g
        <4>1. at[g] = "surrogates" => writer'["Surrogates"] = g
          BY <2>1, <1>1 DEF Nesting, InsideWrites, Inside, Here
        <4>2. Here(h)'.mode = "held" => y = "endSurrogates" /\ at[g] = "surrogates"
                                        /\ Section(y).on = "Surrogates"
          BY <3>2, <2>1, <1>3, <1>6 DEF Nesting
        <4> QED BY <3>2, <4>1, <4>2, <1>3, <1>6 DEF Inside
      <3> QED BY <3>1, <3>2
    <2>5. QueuedAsk'
      BY <2>1, <1>1, <1>5 DEF QueuedAsk, Asks, TypeOK
    <2> QED BY <1>7, <2>2, <2>3, <2>4, <2>5
  <1> QED BY <1>8, <1>9

THEOREM LocksInvariant == Spec => []IInv
  <1>1. Init => IInv
    BY InitInv
  <1>2. IInv /\ [Next]_vars => IInv'
    <2> SUFFICES ASSUME IInv, [Next]_vars PROVE IInv'
      OBVIOUS
    <2>1. CASE Next
      <3>1. PICK g \in Goroutine : Begin(g) \/ Run(g) \/ Announce(g) \/ Send(g)
        BY <2>1 DEF Next
      <3> QED BY <3>1, BeginInv, RLockInv, AnnounceInv, LockedInv, SendInv, LeaveInv
              DEF Run
    <2>2. CASE UNCHANGED vars
      BY <2>2 DEF vars, mutexes, IInv, TypeOK, ReadersInside, WritersThere, InsideWrites,
         QueuedAsk, Inside, Asks, Busy, Here
    <2> QED BY <2>1, <2>2
  <1> QED BY <1>1, <1>2, PTL DEF Spec

-----------------------------------------------------------------------------
(* Who waits for whom *)

LEMMA ReadersFree ==
  ASSUME IInv, NEW l \in Lock, NEW h \in readers[l]
  PROVE  h \in Goroutine /\ ~Blocked(h)
  BY DEF IInv, TypeOK, ReadersInside, QueuedAsk, Inside, Asks, Blocked, WaitsFor

\* A goroutine that asks for a lock as its writer waits at most for readers.
LEMMA WriterSoon ==
  ASSUME IInv, NEW l \in Lock, NEW w \in Goroutine, writer[l] = w,
         l # "Surrogates" \/ at[w] # "setScript"
  PROVE  \E h \in Ahead({w}) : ~Blocked(h)
  <1>1. Busy(w) /\ Here(w).on = l /\ Here(w).mode \in {"write", "held"} /\ w # Nobody
    BY LocksAssumption DEF IInv, WritersThere
  <1>2. \A k \in Lock : w \notin queued[k]
    BY <1>1 DEF IInv, QueuedAsk, Asks
  <1>3. CASE Asks(w, "write")
    <2>1. WaitsFor(w) = readers[l]
      BY <1>1, <1>2, <1>3 DEF WaitsFor
    <2>2. \A h \in readers[l] : h \in Ahead({w})
      BY <2>1 DEF Ahead
    <2> QED BY <2>1, <2>2, ReadersFree DEF Blocked, Ahead
  <1>4. CASE ~Asks(w, "write")
    BY <1>1, <1>2, <1>4 DEF WaitsFor, Blocked, Ahead
  <1> QED BY <1>3, <1>4

LEMMA WriterLater ==
  ASSUME IInv, NEW l \in Lock, NEW w \in Goroutine, writer[l] = w
  PROVE  \E h \in Ahead(Ahead({w})) : ~Blocked(h)
  <1>1. CASE l # "Surrogates" \/ at[w] # "setScript"
    BY <1>1, WriterSoon DEF Ahead
  <1>2. CASE at[w] = "setScript"
    <2>1. /\ Busy(w) /\ Here(w).on = "Hosts" /\ Here(w).mode = "write"
          /\ "Hosts" \in Lock
      BY <1>2, HereFacts, LocksAssumption DEF IInv, WritersThere, Nesting, Here, Lock
    <2>2. w \notin queued["Hosts"]
      BY <2>1 DEF IInv, QueuedAsk, Asks
    <2>3. CASE Asks(w, "write") /\ writer["Hosts"] = w
      BY <2>1, <2>3, WriterSoon DEF Ahead
    <2>4. CASE Asks(w, "write") /\ writer["Hosts"] \notin {w, Nobody}
      <3>1. writer["Hosts"] \in Goroutine /\ WaitsFor(w) = {writer["Hosts"]}
        BY <2>1, <2>2, <2>4 DEF WaitsFor, IInv, TypeOK
      <3>2. \E h \in Ahead({writer["Hosts"]}) : ~Blocked(h)
        BY <3>1, <2>1, WriterSoon
      <3> QED BY <3>1, <3>2 DEF Ahead
    <2>5. CASE ~Asks(w, "write") \/ writer["Hosts"] = Nobody
      BY <2>1, <2>2, <2>5, LocksAssumption DEF WaitsFor, Blocked, Ahead
    <2> QED BY <2>3, <2>4, <2>5
  <1> QED BY <1>1, <1>2

\* From the invariant: whoever waits for a lock, waits in the end for a
\* goroutine that waits for none.
LEMMA InvNoDeadlock == IInv => NoDeadlock
  <1> SUFFICES ASSUME IInv, NEW g \in Goroutine, Blocked(g)
               PROVE  \E h \in Ahead(Ahead(Ahead({g}))) : ~Blocked(h)
    BY DEF NoDeadlock
  <1> DEFINE l == Here(g).on
  <1>1. Busy(g) /\ l \in Lock
    BY HereFacts DEF Blocked, WaitsFor, Asks, IInv
  <1>2. CASE Asks(g, "write") /\ writer[l] = g
    BY <1>1, <1>2, WriterLater DEF Ahead
  <1>3. CASE ~(Asks(g, "write") /\ writer[l] = g)
    <2>1. WaitsFor(g) = {writer[l]} /\ writer[l] \in Goroutine
      BY <1>1, <1>3 DEF Blocked, WaitsFor, IInv, TypeOK, QueuedAsk
    <2>2. \E h \in Ahead(Ahead({writer[l]})) : ~Blocked(h)
      BY <2>1, <1>1, WriterLater
    <2> QED BY <2>1, <2>2 DEF Ahead
  <1> QED BY <1>2, <1>3

\* However many requests, pages and control connections there are, nobody
\* waits in a circle for the locks of the lists and the surrogates.
THEOREM NoDeadlockHolds == Spec => []NoDeadlock
  BY LocksInvariant, InvNoDeadlock, PTL

=============================================================================
