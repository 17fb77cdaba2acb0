----------------------------- MODULE CertsProofs -----------------------------
(***************************************************************************)
(* What TLAPS proves of the certificate files, for any number of           *)
(* connections, hosts, lines and crashes: what is sent is signed for the   *)
(* root certificate and is one certificate unless two handshakes have made *)
(* the file, and only a crash leaves a file with a part missing.           *)
(***************************************************************************)
EXTENDS Certs, TLAPS

\* A line of a certificate that getCert makes as long as the root files are as
\* they are.
Genuine(x) ==
  /\ rootCert.is = "whole" /\ rootKey.key = rootCert.key
  /\ x # None => x.key = rootKey.key /\ x.issuer = rootCert.key

\* The root key is not made again once the main goroutine has gone on, and what
\* is whole was made from it.
RootOK ==
  /\ main = "createKey" => rootKey = Missing
  /\ main = "writeKey" => rootKey = Empty
  /\ main \in {"cert", "createCert", "serving"} => rootKey # Missing
  /\ main = "createCert" => rootCert = Missing
  /\ main = "writeCert" => rootCert = Empty /\ rootKey.is = "whole"
  /\ rootKey.is # "whole" => rootCert = Missing
  /\ rootCert.is = "whole" => rootKey.key = rootCert.key

CertsOK == \A n \in Host, k \in Line :
             cert[n].lines[k] # None => Genuine(cert[n].lines[k])

\* Where a handshake is, and that what it has made and read is genuine.
ConnOK(s) ==
  s.pc # "idle" =>
    /\ s.pc \in {"stat", "root", "create"} => s.k = 1
    /\ s.pc \notin {"load", "served"} => s.got = Blank
    /\ s.pc \in {"create", "write"} => s.made # None /\ Genuine(s.made)
    /\ \A k \in Line : s.got[k] # None => Genuine(s.got[k])
    /\ s.pc = "served" => Complete(s.got)

IInv == TypeOK /\ RootOK /\ CertsOK /\ \A c \in Conn : ConnOK(conn[c])

\* The handshakes that are at the file of a host.
Writes(c, n) == conn[c].pc = "write" /\ conn[c].host = n
Reads(c, n)  == conn[c].pc \in {"load", "served"} /\ conn[c].host = n

\* As long as no second handshake has created the file of a host, it has one
\* writer, whose certificate is all that there is to be read.
OneMaker(n) ==
  /\ ~cert[n].exists => cert[n].lines = Blank /\ \A c \in Conn : ~Writes(c, n) /\ ~Reads(c, n)
  /\ \A c, d \in Conn : Writes(c, n) /\ Writes(d, n) => c = d
  /\ \A c \in Conn, k \in Line : Writes(c, n) => cert[n].lines[k] \in {None, conn[c].made}
  /\ \A c \in Conn, k \in Line : Reads(c, n) => conn[c].got[k] \in {None, cert[n].lines[k]}
  /\ ~Mixed(cert[n].lines)

\* Without a crash, the handshake that created the file last has written all of
\* it, or is still writing and has left nothing out.
NothingLeftOut(n) ==
  \/ crashes > 0
  \/ ~cert[n].exists
  \/ Complete(cert[n].lines)
  \/ \E c \in Conn : /\ Writes(c, n)
                     /\ \A k \in Line : k < conn[c].k => cert[n].lines[k] # None

FilesOK == \A n \in Host : (n \notin raced => OneMaker(n)) /\ NothingLeftOut(n)

-----------------------------------------------------------------------------

\* A step of the main goroutine makes no certificate for a host, and leaves the
\* root files alone once one can have been made.
LEMMA MainKeepsIInv ==
  ASSUME IInv, Main
  PROVE  IInv'
<1>1. UNCHANGED <<cert, conn, raced, crashes>>
  BY DEF Main, Boot, StatKey, CreateKey, WriteKey, StatCert, CreateCert, WriteCert,
         handshakes
<1>2. TypeOK'
  BY <1>1 DEF IInv, TypeOK, Main, Boot, StatKey, CreateKey, WriteKey, StatCert,
         CreateCert, WriteCert, MainPC, RootFile, Empty, Whole
<1>3. RootOK'
  BY DEF IInv, TypeOK, RootOK, Main, Boot, StatKey, CreateKey, WriteKey, StatCert,
         CreateCert, WriteCert, MainPC, RootFile, Missing, Empty, Whole
<1>4. rootCert.is = "whole" => UNCHANGED <<rootKey, rootCert>>
  BY DEF IInv, RootOK, Main, Boot, StatKey, CreateKey, WriteKey, StatCert,
         CreateCert, WriteCert, Missing, Empty
<1>5. ASSUME NEW x, Genuine(x)
      PROVE  Genuine(x)'
  BY <1>4, <1>5 DEF Genuine
<1>6. CertsOK'
  BY <1>1, <1>5 DEF IInv, CertsOK
<1>7. ASSUME NEW c \in Conn
      PROVE  ConnOK(conn[c])'
  BY <1>1, <1>5 DEF IInv, ConnOK
<1> QED
  BY <1>2, <1>3, <1>6, <1>7 DEF IInv

\* Every step of a handshake changes the state of its own connection alone, and
\* leaves the root files alone.
LEMMA HandshakeFrame ==
  ASSUME IInv, NEW c \in Conn, Handshake(c) \/ \E n \in Host : Hello(c, n)
  PROVE  /\ UNCHANGED <<rootKey, rootCert, main, generated, crashes>>
         /\ \E state : conn' = [conn EXCEPT ![c] = state]
         /\ \A d \in Conn \ {c} : conn'[d] = conn[d]
         /\ \A x : Genuine(x)' <=> Genuine(x)
<1>1. UNCHANGED <<rootKey, rootCert, main, generated, crashes>>
  BY DEF Handshake, Hello, Stat, Issue, Create, Write, Close, Read, Load, Goto
<1>2. \E state : conn' = [conn EXCEPT ![c] = state]
  BY DEF Handshake, Hello, Stat, Issue, Create, Write, Close, Read, Load, Goto
<1>3. \A d \in Conn \ {c} : conn'[d] = conn[d]
  BY <1>2 DEF IInv, TypeOK
<1>4. ASSUME NEW x
      PROVE  Genuine(x)' <=> Genuine(x)
  BY <1>1 DEF Genuine
<1> QED
  BY <1>1, <1>2, <1>3, <1>4

\* What a step of a handshake does to its connection.
LEMMA GotoSets ==
  ASSUME TypeOK, NEW c \in Conn, NEW state, Goto(c, state)
  PROVE  conn'[c] = state
BY DEF TypeOK, Goto

\* A handshake that is at work has a host, a line, a certificate and a text.
LEMMA BusyConn ==
  ASSUME TypeOK, NEW c \in Conn, conn[c].pc # "idle"
  PROVE  conn[c] \in Busy
BY DEF TypeOK, ConnState, Idle

\* An idle connection has nothing made.
LEMMA IdleOK == Idle \in ConnState /\ ConnOK(Idle)
BY DEF Idle, ConnState, ConnOK

\* How the file changes when a line is written.
LEMMA LineWritten ==
  ASSUME IInv, NEW c \in Conn, Write(c), NEW n \in Host
  PROVE  /\ cert'[n].exists = cert[n].exists
         /\ n # conn[c].host => cert'[n] = cert[n]
         /\ \A k \in Line : cert'[n].lines[k] =
              IF n = conn[c].host /\ k = conn[c].k THEN conn[c].made ELSE cert[n].lines[k]
         /\ cert' \in [Host -> CertFile]
<1>1. conn[c] \in Busy /\ conn[c].k \in Line
  <2>1. conn[c] \in Busy
    BY BusyConn DEF IInv, Write
  <2> QED
    BY <2>1, CertsAssumption DEF Busy, Write, Line
<1>2. cert' = [cert EXCEPT ![conn[c].host].lines[conn[c].k] = conn[c].made]
  BY DEF Write, WriteLine
<1>3. cert \in [Host -> CertFile]
  BY DEF IInv, TypeOK
<1>4. /\ cert[n].lines \in Content
      /\ conn[c].host \in Host /\ conn[c].made \in Certificate \cup {None}
  BY <1>1, <1>3 DEF CertFile, Busy
<1>5. n # conn[c].host => cert'[n] = cert[n]
  BY <1>2, <1>3
<1>6. n = conn[c].host =>
        cert'[n] = [cert[n] EXCEPT !.lines = [cert[n].lines EXCEPT ![conn[c].k] = conn[c].made]]
  BY <1>2, <1>3
<1>7. n = conn[c].host =>
        /\ cert'[n].exists = cert[n].exists
        /\ cert'[n].lines = [cert[n].lines EXCEPT ![conn[c].k] = conn[c].made]
  BY <1>3, <1>6 DEF CertFile
<1>8. cert' \in [Host -> CertFile]
  <2> SUFFICES ASSUME NEW m \in Host
               PROVE  cert'[m] \in CertFile
    BY <1>2, <1>3
  <2>1. CASE m # conn[c].host
    BY <1>2, <1>3, <2>1
  <2>2. CASE m = conn[c].host
    <3>1. cert'[m] = [cert[m] EXCEPT !.lines = [cert[m].lines EXCEPT ![conn[c].k] = conn[c].made]]
      BY <1>2, <1>3, <2>2
    <3>2. cert[m] \in CertFile /\ cert[m].lines \in Content
      BY <1>3 DEF CertFile
    <3>3. [cert[m].lines EXCEPT ![conn[c].k] = conn[c].made] \in Content
      BY <1>4, <3>2 DEF Content
    <3> QED
      BY <3>1, <3>2, <3>3 DEF CertFile
  <2> QED
    BY <2>1, <2>2
<1> QED
  BY <1>1, <1>4, <1>5, <1>7, <1>8 DEF Content

\* A step of a handshake keeps what its connection has made and read genuine.
LEMMA HandshakeKeepsConn ==
  ASSUME IInv, NEW c \in Conn, Handshake(c) \/ \E n \in Host : Hello(c, n)
  PROVE  conn'[c] \in ConnState /\ ConnOK(conn[c])'
<1>1. \A x : Genuine(x)' <=> Genuine(x)
  BY HandshakeFrame
<1>2. TypeOK /\ ConnOK(conn[c])
  BY DEF IInv
<1>3. /\ Blank \in Content /\ \A k \in Line : Blank[k] = None
      /\ 1 \in 1..Lines+1
  BY CertsAssumption DEF Blank, Content, Line
<1>4. conn[c].pc # "idle" => conn[c] \in Busy
  BY <1>2, BusyConn
<1>5. ASSUME Goto(c, Idle)
      PROVE  conn'[c] \in ConnState /\ ConnOK(conn[c])'
  BY <1>2, <1>5, GotoSets DEF Idle, ConnState, ConnOK
<1>6. ASSUME NEW n \in Host, Hello(c, n)
      PROVE  conn'[c] \in ConnState /\ ConnOK(conn[c])'
  <2>1. conn'[c] = [pc |-> "stat", host |-> n, k |-> 1, made |-> None, got |-> Blank]
    BY <1>2, <1>6, GotoSets DEF Hello
  <2> QED
    BY <1>3, <2>1 DEF ConnState, Busy, ConnOK
<1>7. CASE Stat(c)
  <2>1. conn'[c] = [conn[c] EXCEPT !.pc = IF cert[conn[c].host].exists THEN "load" ELSE "root"]
    BY <1>2, <1>7, GotoSets DEF Stat
  <2>2. conn[c].pc = "stat" /\ conn[c] \in Busy
    BY <1>4, <1>7 DEF Stat
  <2>3. /\ conn'[c] \in Busy /\ conn'[c].pc \in {"load", "root"}
        /\ conn'[c].k = conn[c].k /\ conn'[c].got = conn[c].got
    BY <2>1, <2>2 DEF Busy
  <2> QED
    BY <1>1, <1>2, <1>3, <2>2, <2>3 DEF ConnState, ConnOK
<1>8. CASE Issue(c)
  <2> DEFINE x == [key |-> rootKey.key, issuer |-> rootCert.key, serial |-> c]
  <2>1. CASE rootCert.is = "whole" /\ Goto(c, [conn[c] EXCEPT !.pc = "create", !.made = x])
    <3>1. conn'[c] = [conn[c] EXCEPT !.pc = "create", !.made = x]
      BY <1>2, <2>1, GotoSets
    <3>2. conn[c].pc = "root" /\ conn[c] \in Busy
      BY <1>4, <1>8 DEF Issue
    <3>3. x \in Certificate
      BY <1>2 DEF TypeOK, RootFile, Certificate
    <3>4. x # None
      BY <3>3, CertsAssumption
    <3>5. Genuine(x)
      BY <2>1 DEF IInv, RootOK, Genuine
    <3> HIDE DEF x
    <3>6. /\ conn'[c] \in Busy /\ conn'[c].pc = "create" /\ conn'[c].made = x
          /\ conn'[c].k = conn[c].k /\ conn'[c].got = conn[c].got
      BY <3>1, <3>2, <3>3 DEF Busy
    <3> QED
      BY <1>1, <1>2, <1>3, <3>2, <3>4, <3>5, <3>6 DEF ConnState, ConnOK
  <2> QED
    BY <1>5, <1>8, <2>1 DEF Issue
<1>9. CASE Create(c)
  <2>1. conn'[c] = [conn[c] EXCEPT !.pc = "write"]
    BY <1>2, <1>9, GotoSets DEF Create
  <2>2. conn[c].pc = "create" /\ conn[c] \in Busy
    BY <1>4, <1>9 DEF Create
  <2>3. /\ conn'[c] \in Busy /\ conn'[c].pc = "write" /\ conn'[c].made = conn[c].made
        /\ conn'[c].got = conn[c].got
    BY <2>1, <2>2 DEF Busy
  <2> QED
    BY <1>1, <1>2, <1>3, <2>2, <2>3 DEF ConnState, ConnOK
<1>10. CASE Write(c)
  <2>1. conn'[c] = [conn[c] EXCEPT !.k = @ + 1]
    BY <1>2, <1>10, GotoSets DEF Write
  <2>2. conn[c].pc = "write" /\ conn[c].k <= Lines /\ conn[c] \in Busy
    BY <1>4, <1>10 DEF Write
  <2>3. /\ conn'[c] \in Busy /\ conn'[c].pc = "write" /\ conn'[c].made = conn[c].made
        /\ conn'[c].got = conn[c].got
    BY <2>1, <2>2, CertsAssumption DEF Busy
  <2> QED
    BY <1>1, <1>2, <1>3, <2>2, <2>3 DEF ConnState, ConnOK
<1>11. CASE Close(c)
  <2>1. conn'[c] = [conn[c] EXCEPT !.pc = "load", !.k = 1]
    BY <1>2, <1>11, GotoSets DEF Close
  <2>2. conn[c].pc = "write" /\ conn[c] \in Busy
    BY <1>4, <1>11 DEF Close
  <2>3. conn'[c] \in Busy /\ conn'[c].pc = "load" /\ conn'[c].got = conn[c].got
    BY <1>3, <2>1, <2>2 DEF Busy
  <2> QED
    BY <1>1, <1>2, <1>3, <2>2, <2>3 DEF ConnState, ConnOK
<1>12. CASE Read(c)
  <2> DEFINE x == cert[conn[c].host].lines[conn[c].k]
  <2>1. conn'[c] = [conn[c] EXCEPT !.k = @ + 1, !.got[conn[c].k] = x]
    BY <1>2, <1>12, GotoSets DEF Read
  <2>2. conn[c].pc = "load" /\ conn[c].k <= Lines /\ conn[c] \in Busy
    BY <1>4, <1>12 DEF Read
  <2>3. conn[c].k \in Line /\ conn[c].host \in Host /\ conn[c].got \in Content
    BY <2>2, CertsAssumption DEF Busy, Line
  <2>4. x \in Certificate \cup {None} /\ (x # None => Genuine(x))
    BY <1>2, <2>3 DEF IInv, TypeOK, CertsOK, CertFile, Content
  <2> HIDE DEF x
  <2>5. /\ conn'[c] \in Busy /\ conn'[c].pc = "load"
        /\ conn'[c].got = [conn[c].got EXCEPT ![conn[c].k] = x]
    <3>1. [conn[c].got EXCEPT ![conn[c].k] = x] \in Content
      BY <2>3, <2>4 DEF Content
    <3>2. conn[c].k + 1 \in 1..Lines+1
      BY <2>2, CertsAssumption DEF Busy
    <3> QED
      BY <2>1, <2>2, <3>1, <3>2 DEF Busy
  <2>6. \A k \in Line : conn'[c].got[k] # None => Genuine(conn'[c].got[k])
    BY <1>2, <2>2, <2>3, <2>4, <2>5 DEF ConnOK, Content
  <2> QED
    BY <1>1, <2>5, <2>6 DEF ConnState, ConnOK
<1>13. CASE Load(c)
  <2>1. conn[c].pc = "load" /\ conn[c] \in Busy
    BY <1>4, <1>13 DEF Load
  <2>2. CASE Complete(conn[c].got) /\ Goto(c, [conn[c] EXCEPT !.pc = "served", !.made = None])
    <3>1. conn'[c] = [conn[c] EXCEPT !.pc = "served", !.made = None]
      BY <1>2, <2>2, GotoSets
    <3>2. conn'[c] \in Busy /\ conn'[c].pc = "served" /\ conn'[c].got = conn[c].got
      BY <2>1, <3>1 DEF Busy
    <3> QED
      BY <1>1, <1>2, <2>1, <2>2, <3>2 DEF ConnState, ConnOK, Complete
  <2> QED
    BY <1>5, <1>13, <2>2 DEF Load
<1> QED
  BY <1>6, <1>7, <1>8, <1>9, <1>10, <1>11, <1>12, <1>13 DEF Handshake

\* A step of a handshake leaves every line of every file as it was, or without
\* a certificate, or with the genuine one that it has made.
LEMMA HandshakeKeepsCerts ==
  ASSUME IInv, NEW c \in Conn, Handshake(c) \/ \E n \in Host : Hello(c, n)
  PROVE  CertsOK' /\ cert' \in [Host -> CertFile] /\ raced' \subseteq Host
<1>1. \A x : Genuine(x)' <=> Genuine(x)
  BY HandshakeFrame
<1>2. TypeOK /\ CertsOK /\ ConnOK(conn[c])
  BY DEF IInv
<1>3. CASE UNCHANGED <<cert, raced>>
  BY <1>1, <1>2, <1>3 DEF TypeOK, CertsOK
<1>4. CASE Create(c)
  <2>1. cert' = [cert EXCEPT ![conn[c].host] = [exists |-> TRUE, lines |-> Blank]]
    BY <1>4 DEF Create
  <2>2. Blank \in Content /\ \A k \in Line : Blank[k] = None
    BY DEF Blank, Content
  <2>3. conn[c].host \in Host
    BY <1>2, <1>4, BusyConn DEF Create, Busy
  <2>4. cert' \in [Host -> CertFile] /\ raced' \subseteq Host
    BY <1>2, <1>4, <2>1, <2>2, <2>3 DEF TypeOK, CertFile, Create
  <2>5. \A n \in Host, k \in Line : cert'[n].lines[k] \in {None, cert[n].lines[k]}
    BY <1>2, <2>1, <2>2 DEF TypeOK
  <2> QED
    BY <1>1, <1>2, <2>4, <2>5 DEF CertsOK
<1>5. CASE Write(c)
  <2>1. /\ raced' = raced
        /\ conn[c].pc = "write"
    BY <1>5 DEF Write
  <2>2. Genuine(conn[c].made)
    BY <1>2, <2>1 DEF ConnOK
  <2>3. \A n \in Host, k \in Line : cert'[n].lines[k] \in {conn[c].made, cert[n].lines[k]}
    BY <1>5, LineWritten
  <2>4. cert' \in [Host -> CertFile]
    <3>1. CASE Host = {}
      BY <1>2, <2>1, <3>1, BusyConn DEF Busy
    <3>2. CASE \E n \in Host : TRUE
      BY <1>5, <3>2, LineWritten
    <3> QED
      BY <3>1, <3>2
  <2> QED
    BY <1>1, <1>2, <2>1, <2>2, <2>3, <2>4 DEF CertsOK, TypeOK
<1> QED
  BY <1>3, <1>4, <1>5 DEF Handshake, Hello, Stat, Issue, Close, Read, Load

\* A step of a handshake keeps the invariant.
LEMMA HandshakeKeepsIInv ==
  ASSUME IInv, NEW c \in Conn, Handshake(c) \/ \E n \in Host : Hello(c, n)
  PROVE  IInv'
<1>1. /\ UNCHANGED <<rootKey, rootCert, main, generated, crashes>>
      /\ \E state : conn' = [conn EXCEPT ![c] = state]
      /\ \A d \in Conn \ {c} : conn'[d] = conn[d]
      /\ \A x : Genuine(x)' <=> Genuine(x)
  BY HandshakeFrame
<1>2. conn'[c] \in ConnState /\ ConnOK(conn[c])'
  BY HandshakeKeepsConn
<1>3. CertsOK' /\ cert' \in [Host -> CertFile] /\ raced' \subseteq Host
  BY HandshakeKeepsCerts
<1>4. TypeOK'
  BY <1>1, <1>2, <1>3 DEF IInv, TypeOK
<1>5. RootOK'
  BY <1>1 DEF IInv, RootOK
<1>6. ASSUME NEW d \in Conn
      PROVE  ConnOK(conn[d])'
  <2>1. CASE d = c
    BY <1>2, <2>1
  <2>2. CASE d # c
    BY <1>1, <2>2 DEF IInv, ConnOK
  <2> QED
    BY <2>1, <2>2
<1> QED
  BY <1>3, <1>4, <1>5, <1>6 DEF IInv

\* A crash leaves the files as they are.
LEMMA CrashKeepsIInv ==
  ASSUME IInv, Crash
  PROVE  IInv'
<1>1. /\ UNCHANGED <<rootKey, rootCert, cert, raced, generated>>
      /\ main' = "down" /\ crashes' \in 0..MaxCrashes
      /\ conn' = [c \in Conn |-> Idle]
  BY CertsAssumption DEF Crash, IInv, TypeOK
<1>2. /\ conn' \in [Conn -> ConnState]
      /\ \A c \in Conn : conn'[c].pc = "idle"
  BY <1>1, IdleOK DEF Idle
<1> QED
  BY <1>1, <1>2 DEF IInv, TypeOK, RootOK, CertsOK, ConnOK, Genuine, MainPC

\* The inductive invariant.
LEMMA IInvInvariant == Spec => []IInv
<1>1. Init => IInv
  <2> SUFFICES ASSUME Init
               PROVE  IInv
    OBVIOUS
  <2>1. Blank \in Content /\ \A k \in Line : Blank[k] = None
    BY DEF Blank, Content
  <2>2. /\ \A n \in Host : cert[n] = [exists |-> FALSE, lines |-> Blank]
        /\ \A c \in Conn : conn[c] = Idle
    BY DEF Init
  <2>3. TypeOK
    BY <2>1, IdleOK, CertsAssumption DEF Init, TypeOK, RootFile, MainPC, CertFile, Missing
  <2>4. RootOK
    BY DEF Init, RootOK, Missing
  <2>5. CertsOK
    BY <2>1, <2>2 DEF CertsOK
  <2> QED
    BY <2>2, <2>3, <2>4, <2>5, IdleOK DEF IInv
<1>2. IInv /\ [Next]_vars => IInv'
  <2> SUFFICES ASSUME IInv, [Next]_vars
               PROVE  IInv'
    OBVIOUS
  <2>1. CASE UNCHANGED vars
    BY <2>1 DEF IInv, TypeOK, RootOK, CertsOK, ConnOK, Genuine, vars
  <2>2. CASE Main
    BY <2>2, MainKeepsIInv
  <2>3. ASSUME NEW c \in Conn, Handshake(c) \/ \E n \in Host : Hello(c, n)
        PROVE  IInv'
    BY <2>3, HandshakeKeepsIInv
  <2>4. CASE Crash
    BY <2>4, CrashKeepsIInv
  <2> QED
    BY <2>1, <2>2, <2>3, <2>4 DEF Next
<1> QED
  BY <1>1, <1>2, PTL DEF Spec

\* Type correctness of the certificate files and the goroutines that make them:
\* a file holds lines of certificates, of several perhaps, or nothing.
THEOREM CertsTypeCorrect == Spec => []TypeOK
<1>1. IInv => TypeOK
  BY DEF IInv
<1> QED
  BY <1>1, IInvInvariant, PTL

\* The steps of a handshake that leave the files alone: what is read comes from
\* a file that is there, and a writer leaves only a complete file.
LEMMA QuietKeepsFiles ==
  ASSUME IInv, FilesOK, NEW c \in Conn, UNCHANGED <<cert, raced, crashes>>,
         \A d \in Conn \ {c} : conn'[d] = conn[d],
         \A n \in Host : Writes(c, n)' => Writes(c, n) /\ conn'[c].made = conn[c].made,
         \A n \in Host : Reads(c, n)' /\ n \notin raced =>
           cert[n].exists /\ \A k \in Line : conn'[c].got[k] \in {None, cert[n].lines[k]},
         \A n \in Host : Writes(c, n) => \/ Writes(c, n)' /\ conn'[c].k = conn[c].k
                                         \/ \A k \in Line : k < conn[c].k
  PROVE  FilesOK'
<1> SUFFICES ASSUME NEW n \in Host
             PROVE  (n \notin raced => OneMaker(n)') /\ NothingLeftOut(n)'
  BY DEF FilesOK
<1>1. ASSUME n \notin raced
      PROVE  OneMaker(n)'
  <2>1. OneMaker(n)
    BY <1>1 DEF FilesOK
  <2>2. \A d \in Conn : Writes(d, n)' => Writes(d, n) /\ conn'[d].made = conn[d].made
    BY DEF Writes
  <2>3. \A d \in Conn : Reads(d, n)' =>
          cert[n].exists /\ \A k \in Line : conn'[d].got[k] \in {None, cert[n].lines[k]}
    BY <1>1, <2>1 DEF Reads, OneMaker
  <2> QED
    BY <2>1, <2>2, <2>3 DEF OneMaker
<1>2. NothingLeftOut(n)'
  <2>1. NothingLeftOut(n)
    BY DEF FilesOK
  <2>2. CASE crashes > 0 \/ ~cert[n].exists \/ Complete(cert[n].lines)
    BY <2>2 DEF NothingLeftOut
  <2>3. ASSUME NEW d \in Conn, Writes(d, n),
               \A k \in Line : k < conn[d].k => cert[n].lines[k] # None
        PROVE  NothingLeftOut(n)'
    BY <2>3 DEF NothingLeftOut, Writes, Complete
  <2> QED
    BY <2>1, <2>2, <2>3 DEF NothingLeftOut
<1> QED
  BY <1>1, <1>2

\* The second handshake that creates a file has raced; the first one is alone.
LEMMA CreateKeepsFiles ==
  ASSUME IInv, FilesOK, NEW c \in Conn, Create(c)
  PROVE  FilesOK'
<1>1. /\ crashes' = crashes
      /\ \A d \in Conn \ {c} : conn'[d] = conn[d]
  BY HandshakeFrame DEF Handshake
<1>2. conn[c].pc = "create" /\ conn[c] \in Busy
  BY BusyConn DEF Create, IInv
<1>3. conn'[c] = [conn[c] EXCEPT !.pc = "write"]
  BY GotoSets DEF Create, IInv
<1>4. /\ conn'[c].pc = "write" /\ conn'[c].host = conn[c].host /\ conn'[c].k = conn[c].k
      /\ conn[c].k = 1
  BY <1>2, <1>3 DEF Busy, IInv, ConnOK
<1>5. /\ cert' = [cert EXCEPT ![conn[c].host] = [exists |-> TRUE, lines |-> Blank]]
      /\ raced' = IF cert[conn[c].host].exists THEN raced \cup {conn[c].host} ELSE raced
  BY DEF Create
<1>6. \A k \in Line : Blank[k] = None
  BY DEF Blank
<1> SUFFICES ASSUME NEW n \in Host
             PROVE  (n \notin raced' => OneMaker(n)') /\ NothingLeftOut(n)'
  BY DEF FilesOK
<1>7. (n \notin raced => OneMaker(n)) /\ NothingLeftOut(n)
  BY DEF FilesOK
<1>8. CASE n = conn[c].host
  <2>1. cert'[n] = [exists |-> TRUE, lines |-> Blank]
    BY <1>5, <1>8 DEF IInv, TypeOK
  <2>2. Writes(c, n)'
    BY <1>4, <1>8 DEF Writes
  <2>3. NothingLeftOut(n)'
    <3>1. \A k \in Line : ~(k < conn'[c].k)
      BY <1>4 DEF Line
    <3> QED
      BY <2>2, <3>1 DEF NothingLeftOut
  <2>4. ASSUME n \notin raced'
        PROVE  OneMaker(n)'
    <3>1. ~cert[n].exists /\ OneMaker(n)
      BY <1>5, <1>7, <1>8, <2>4
    <3>2. \A d \in Conn : ~Writes(d, n) /\ ~Reads(d, n)
      BY <3>1 DEF OneMaker
    <3>3. \A d \in Conn \ {c} : ~Writes(d, n)' /\ ~Reads(d, n)'
      BY <1>1, <3>2 DEF Writes, Reads
    <3>4. ~Reads(c, n)'
      BY <1>4 DEF Reads
    <3>5. ~Mixed(cert'[n].lines)
      BY <1>6, <2>1 DEF Mixed
    <3> QED
      BY <1>6, <2>1, <3>3, <3>4, <3>5 DEF OneMaker
  <2> QED
    BY <2>3, <2>4
<1>9. CASE n # conn[c].host
  <2>1. cert'[n] = cert[n] /\ (n \in raced' <=> n \in raced)
    BY <1>5, <1>9 DEF IInv, TypeOK
  <2>2. ~Writes(c, n) /\ ~Reads(c, n) /\ ~Writes(c, n)' /\ ~Reads(c, n)'
    BY <1>2, <1>4, <1>9 DEF Writes, Reads
  <2>3. \A d \in Conn : /\ Writes(d, n)' <=> Writes(d, n)
                        /\ Reads(d, n)' <=> Reads(d, n)
                        /\ Writes(d, n) \/ Reads(d, n) => conn'[d] = conn[d]
    BY <1>1, <2>2 DEF Writes, Reads
  <2>4. OneMaker(n) => OneMaker(n)'
    BY <2>1, <2>3 DEF OneMaker
  <2>5. NothingLeftOut(n)'
    BY <1>1, <1>7, <2>1, <2>3 DEF NothingLeftOut
  <2> QED
    BY <1>7, <2>1, <2>4, <2>5
<1> QED
  BY <1>8, <1>9

\* A line that is written fills the file up; the only writer of a file writes
\* what it has written before.
LEMMA WriteKeepsFiles ==
  ASSUME IInv, FilesOK, NEW c \in Conn, Write(c)
  PROVE  FilesOK'
<1>1. /\ crashes' = crashes /\ raced' = raced
      /\ \A d \in Conn \ {c} : conn'[d] = conn[d]
  BY HandshakeFrame DEF Handshake, Write
<1>2. conn[c].pc = "write" /\ conn[c].k <= Lines /\ conn[c] \in Busy
  BY BusyConn DEF Write, IInv
<1>3. conn'[c] = [conn[c] EXCEPT !.k = @ + 1]
  BY GotoSets DEF Write, IInv
<1>4. /\ conn'[c].pc = "write" /\ conn'[c].host = conn[c].host
      /\ conn'[c].k = conn[c].k + 1 /\ conn'[c].made = conn[c].made
  BY <1>2, <1>3 DEF Busy
<1>5. conn[c].made # None /\ conn[c].k \in Int
  BY <1>2 DEF IInv, ConnOK, Busy
<1> SUFFICES ASSUME NEW n \in Host
             PROVE  (n \notin raced => OneMaker(n)') /\ NothingLeftOut(n)'
  BY <1>1 DEF FilesOK
<1>6. (n \notin raced => OneMaker(n)) /\ NothingLeftOut(n)
  BY DEF FilesOK
<1>7. /\ cert'[n].exists = cert[n].exists
      /\ n # conn[c].host => cert'[n] = cert[n]
      /\ \A k \in Line : cert'[n].lines[k] =
           IF n = conn[c].host /\ k = conn[c].k THEN conn[c].made ELSE cert[n].lines[k]
  BY LineWritten
<1>8. \A d \in Conn : /\ Writes(d, n)' <=> Writes(d, n)
                      /\ Reads(d, n)' <=> Reads(d, n)
                      /\ Reads(d, n) => conn'[d] = conn[d]
                      /\ Writes(d, n) => conn'[d].made = conn[d].made
                      /\ Writes(d, n) /\ d # c => conn'[d] = conn[d]
  BY <1>1, <1>2, <1>4 DEF Writes, Reads
<1>9. NothingLeftOut(n)'
  <2>1. \A k \in Line : cert[n].lines[k] # None => cert'[n].lines[k] # None
    BY <1>5, <1>7
  <2>2. CASE crashes > 0 \/ ~cert[n].exists \/ Complete(cert[n].lines)
    BY <1>1, <1>7, <2>1, <2>2 DEF NothingLeftOut, Complete
  <2>3. ASSUME NEW d \in Conn, Writes(d, n),
               \A k \in Line : k < conn[d].k => cert[n].lines[k] # None
        PROVE  NothingLeftOut(n)'
    <3>1. CASE d = c
      <4>1. n = conn[c].host
        BY <2>3, <3>1 DEF Writes
      <4>2. \A k \in Line : k < conn'[c].k => k < conn[c].k \/ k = conn[c].k
        BY <1>4, <1>5 DEF Line
      <4>3. \A k \in Line : k < conn'[c].k => cert'[n].lines[k] # None
        BY <1>5, <1>7, <2>1, <2>3, <3>1, <4>1, <4>2
      <4> QED
        BY <1>8, <2>3, <3>1, <4>3 DEF NothingLeftOut
    <3>2. CASE d # c
      BY <1>8, <2>1, <2>3, <3>2 DEF NothingLeftOut
    <3> QED
      BY <3>1, <3>2
  <2> QED
    BY <1>6, <2>2, <2>3 DEF NothingLeftOut
<1>10. ASSUME n \notin raced
       PROVE  OneMaker(n)'
  <2>1. OneMaker(n)
    BY <1>6, <1>10
  <2>2. CASE n # conn[c].host
    BY <1>7, <1>8, <2>1, <2>2 DEF OneMaker
  <2>3. CASE n = conn[c].host
    <3>1. Writes(c, n)
      BY <1>2, <2>3 DEF Writes
    <3>2. /\ \A k \in Line : cert[n].lines[k] \in {None, conn[c].made}
          /\ cert[n].exists
          /\ \A d \in Conn : Writes(d, n) => d = c
      BY <2>1, <3>1 DEF OneMaker
    <3>3. \A k \in Line : /\ cert'[n].lines[k] \in {None, conn[c].made}
                          /\ cert[n].lines[k] \in {None, cert'[n].lines[k]}
      BY <1>7, <3>2
    <3>4. ~Mixed(cert'[n].lines)
      BY <3>3 DEF Mixed
    <3>5. \A d \in Conn, k \in Line : Reads(d, n)' =>
            conn'[d].got[k] \in {None, cert'[n].lines[k]}
      BY <1>8, <2>1, <3>3 DEF OneMaker
    <3>6. \A d \in Conn, k \in Line : Writes(d, n)' =>
            cert'[n].lines[k] \in {None, conn'[d].made}
      BY <1>4, <1>8, <3>2, <3>3
    <3>7. cert'[n].exists
      BY <1>7, <3>2
    <3>8. \A d, e \in Conn : Writes(d, n)' /\ Writes(e, n)' => d = e
      BY <1>8, <3>2
    <3> QED
      BY <3>4, <3>5, <3>6, <3>7, <3>8 DEF OneMaker
  <2> QED
    BY <2>2, <2>3
<1> QED
  BY <1>9, <1>10

\* A step of a handshake keeps what holds of the files.
LEMMA HandshakeKeepsFiles ==
  ASSUME IInv, FilesOK, NEW c \in Conn, Handshake(c) \/ \E n \in Host : Hello(c, n)
  PROVE  FilesOK'
<1>1. crashes' = crashes /\ \A d \in Conn \ {c} : conn'[d] = conn[d]
  BY HandshakeFrame
<1>2. TypeOK
  BY DEF IInv
<1>3. conn[c].pc # "idle" => conn[c] \in Busy /\ conn[c].host \in Host
  BY <1>2, BusyConn DEF Busy
<1>4. Idle.pc = "idle" /\ \A k \in Line : Blank[k] = None
  BY DEF Idle, Blank
<1>5. \A n \in Host : n \notin raced => OneMaker(n)
  BY DEF FilesOK
<1>6. ASSUME NEW n \in Host, Hello(c, n)
      PROVE  FilesOK'
  <2>1. conn'[c].pc = "stat" /\ UNCHANGED <<cert, raced>>
    BY <1>2, <1>6, GotoSets DEF Hello
  <2>2. conn[c].pc # "write"
    BY <1>6 DEF Hello
  <2> QED
    BY <1>1, <2>1, <2>2, QuietKeepsFiles DEF Writes, Reads
<1>7. CASE Stat(c)
  <2>1. conn'[c] = [conn[c] EXCEPT !.pc = IF cert[conn[c].host].exists THEN "load" ELSE "root"]
    BY <1>2, <1>7, GotoSets DEF Stat
  <2>2. UNCHANGED <<cert, raced>> /\ conn[c].pc = "stat"
    BY <1>7 DEF Stat
  <2>3. /\ conn'[c].pc = IF cert[conn[c].host].exists THEN "load" ELSE "root"
        /\ conn'[c].host = conn[c].host /\ conn'[c].got = Blank
    BY <1>3, <2>1, <2>2 DEF Busy, IInv, ConnOK
  <2> QED
    BY <1>1, <1>4, <2>2, <2>3, QuietKeepsFiles DEF Writes, Reads
<1>8. CASE Issue(c)
  <2>1. conn'[c].pc \in {"create", "idle"}
    <3>1. conn[c] \in Busy
      BY <1>3, <1>8 DEF Issue
    <3> QED
      BY <1>2, <1>4, <1>8, <3>1, GotoSets DEF Issue, Busy
  <2>2. UNCHANGED <<cert, raced>> /\ conn[c].pc = "root"
    BY <1>8 DEF Issue
  <2> QED
    BY <1>1, <2>1, <2>2, QuietKeepsFiles DEF Writes, Reads
<1>9. CASE Close(c)
  <2>1. conn'[c] = [conn[c] EXCEPT !.pc = "load", !.k = 1]
    BY <1>2, <1>9, GotoSets DEF Close
  <2>2. UNCHANGED <<cert, raced>> /\ conn[c].pc = "write" /\ conn[c].k > Lines
    BY <1>9 DEF Close
  <2>3. /\ conn'[c].pc = "load" /\ conn'[c].host = conn[c].host /\ conn'[c].got = Blank
        /\ conn[c].k \in Int
    BY <1>3, <2>1, <2>2 DEF Busy, IInv, ConnOK
  <2>4. \A k \in Line : k < conn[c].k
    BY <2>2, <2>3, CertsAssumption DEF Line
  <2>5. \A n \in Host : Reads(c, n)' /\ n \notin raced => cert[n].exists
    BY <1>5, <2>2, <2>3 DEF Reads, Writes, OneMaker
  <2> QED
    BY <1>1, <1>4, <2>2, <2>3, <2>4, <2>5, QuietKeepsFiles DEF Writes, Reads
<1>10. CASE Read(c)
  <2> DEFINE x == cert[conn[c].host].lines[conn[c].k]
  <2>1. conn'[c] = [conn[c] EXCEPT !.k = @ + 1, !.got[conn[c].k] = x]
    BY <1>2, <1>10, GotoSets DEF Read
  <2>2. UNCHANGED <<cert, raced>> /\ conn[c].pc = "load" /\ conn[c] \in Busy
    BY <1>3, <1>10 DEF Read
  <2>3. /\ conn'[c].pc = "load" /\ conn'[c].host = conn[c].host
        /\ \A k \in Line : conn'[c].got[k] = IF k = conn[c].k THEN x ELSE conn[c].got[k]
    BY <2>1, <2>2 DEF Busy, Content
  <2>4. \A n \in Host : Reads(c, n)' /\ n \notin raced =>
          cert[n].exists /\ \A k \in Line : conn'[c].got[k] \in {None, cert[n].lines[k]}
    <3> SUFFICES ASSUME NEW n \in Host, n = conn[c].host, n \notin raced
                 PROVE  cert[n].exists /\ \A k \in Line : conn'[c].got[k] \in {None, cert[n].lines[k]}
      BY <2>3 DEF Reads
    <3>1. Reads(c, n) /\ OneMaker(n)
      BY <1>5, <2>2 DEF Reads
    <3>2. cert[n].exists /\ \A k \in Line : conn[c].got[k] \in {None, cert[n].lines[k]}
      BY <3>1 DEF OneMaker
    <3> QED
      BY <2>3, <3>2
  <2> QED
    BY <1>1, <2>2, <2>3, <2>4, QuietKeepsFiles DEF Writes
<1>11. CASE Load(c)
  <2>1. UNCHANGED <<cert, raced>> /\ conn[c].pc = "load" /\ conn[c] \in Busy
    BY <1>3, <1>11 DEF Load
  <2>2. \/ conn'[c].pc = "idle"
        \/ /\ conn'[c].pc = "served" /\ conn'[c].host = conn[c].host
           /\ conn'[c].got = conn[c].got
    <3>1. CASE Goto(c, Idle)
      BY <1>2, <1>4, <3>1, GotoSets
    <3>2. CASE Goto(c, [conn[c] EXCEPT !.pc = "served", !.made = None])
      <4>1. conn'[c] = [conn[c] EXCEPT !.pc = "served", !.made = None]
        BY <1>2, <3>2, GotoSets
      <4> QED
        BY <2>1, <4>1 DEF Busy
    <3> QED
      BY <1>11, <3>1, <3>2 DEF Load
  <2>3. \A n \in Host : Reads(c, n)' /\ n \notin raced =>
          cert[n].exists /\ \A k \in Line : conn'[c].got[k] \in {None, cert[n].lines[k]}
    BY <1>5, <2>1, <2>2 DEF Reads, OneMaker
  <2> QED
    BY <1>1, <2>1, <2>2, <2>3, QuietKeepsFiles DEF Writes
<1> QED
  BY <1>6, <1>7, <1>8, <1>9, <1>10, <1>11, CreateKeepsFiles, WriteKeepsFiles DEF Handshake

\* What holds of the files as long as the server lives, and after a crash.
LEMMA FilesInvariant == Spec => []FilesOK
<1>1. Init => FilesOK
  <2> SUFFICES ASSUME Init
               PROVE  FilesOK
    OBVIOUS
  <2>1. /\ \A n \in Host : cert[n] = [exists |-> FALSE, lines |-> Blank]
        /\ \A c \in Conn : conn[c].pc = "idle"
        /\ \A k \in Line : Blank[k] = None
    BY DEF Init, Idle, Blank
  <2> QED
    BY <2>1 DEF FilesOK, OneMaker, NothingLeftOut, Writes, Reads, Mixed
<1>2. IInv /\ FilesOK /\ [Next]_vars => FilesOK'
  <2> SUFFICES ASSUME IInv, FilesOK, [Next]_vars
               PROVE  FilesOK'
    OBVIOUS
  <2>1. CASE UNCHANGED <<cert, conn, raced, crashes>>
    BY <2>1 DEF FilesOK, OneMaker, NothingLeftOut, Writes, Reads
  <2>2. CASE Main
    <3>1. UNCHANGED <<cert, conn, raced, crashes>>
      BY <2>2 DEF Main, Boot, StatKey, CreateKey, WriteKey, StatCert, CreateCert, WriteCert,
             handshakes
    <3> QED
      BY <2>1, <3>1
  <2>3. ASSUME NEW c \in Conn, Handshake(c) \/ \E n \in Host : Hello(c, n)
        PROVE  FilesOK'
    BY <2>3, HandshakeKeepsFiles
  <2>4. CASE Crash
    <3>1. /\ UNCHANGED <<cert, raced>> /\ crashes' > 0
          /\ \A c \in Conn : conn'[c].pc = "idle"
      BY <2>4 DEF Crash, IInv, TypeOK, Idle
    <3> QED
      BY <3>1 DEF FilesOK, OneMaker, NothingLeftOut, Writes, Reads
  <2> QED
    BY <2>1, <2>2, <2>3, <2>4 DEF Next, vars
<1> QED
  BY <1>1, <1>2, IInvInvariant, PTL DEF Spec

\* Whatever was interrupted and however handshakes interleave, a certificate
\* that is sent to a client is for the server's key and signed for the root
\* certificate, and it is one certificate, which verifies, unless a second
\* handshake has created the file again (getCert, MakeRootKey, MakeRootCert).
THEOREM ServedVerifiesHolds == Spec => []ServedVerifiesUnlessRaced
<1>1. IInv /\ FilesOK => ServedVerifiesUnlessRaced
  <2> SUFFICES ASSUME IInv, FilesOK, NEW c \in Conn, conn[c].pc = "served"
               PROVE  /\ rootCert.is = "whole" /\ rootKey.key = rootCert.key
                      /\ \A k \in Line : /\ conn[c].got[k] # None
                                         /\ conn[c].got[k].key = rootKey.key
                                         /\ conn[c].got[k].issuer = rootCert.key
                      /\ Mixed(conn[c].got) => conn[c].host \in raced
    BY DEF ServedVerifiesUnlessRaced
  <2>1. conn[c] \in Busy
    BY BusyConn DEF IInv
  <2>2. /\ \A k \in Line : conn[c].got[k] # None /\ Genuine(conn[c].got[k])
        /\ 1 \in Line
    BY CertsAssumption DEF IInv, ConnOK, Complete, Line
  <2>3. ASSUME conn[c].host \notin raced
        PROVE  ~Mixed(conn[c].got)
    <3>1. /\ OneMaker(conn[c].host)
          /\ Reads(c, conn[c].host)
      BY <2>1, <2>3 DEF FilesOK, Busy, Reads
    <3>2. \A k \in Line : conn[c].got[k] \in {None, cert[conn[c].host].lines[k]}
      BY <3>1 DEF OneMaker
    <3> QED
      BY <3>1, <3>2 DEF OneMaker, Mixed
  <2> QED
    BY <2>2, <2>3 DEF Genuine
<1> QED
  BY <1>1, IInvInvariant, FilesInvariant, PTL

\* A certificate file that no handshake is writing is complete unless there was
\* a crash, and is of one certificate unless it was made twice: the writes of
\* handshakes that race leave a mixture at worst (makeCert).
THEOREM DamagedOnlyByCrashOrRaceHolds == Spec => []DamagedOnlyByCrashOrRace
<1>1. IInv /\ FilesOK => DamagedOnlyByCrashOrRace
  BY DEF IInv, TypeOK, FilesOK, OneMaker, NothingLeftOut, Writes, DamagedOnlyByCrashOrRace
<1> QED
  BY <1>1, IInvInvariant, FilesInvariant, PTL

=============================================================================
