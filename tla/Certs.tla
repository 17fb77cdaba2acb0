-------------------------------- MODULE Certs --------------------------------
(***************************************************************************)
(* The key and certificate files of the HTTPS server.  chroot()            *)
(* (cmd/helper.go) makes the root key and the root certificate when they   *)
(* are missing, and getCert (srvhttp/tls.go) makes a certificate for a     *)
(* host at the first handshake that asks for it, in the goroutine of the   *)
(* connection and without a lock.  Every file is created empty and then    *)
(* written; the process can crash in between, and a file that exists is    *)
(* never made again.                                                       *)
(*                                                                         *)
(* A certificate is what it says about keys, the key it certifies and the  *)
(* key of the certificate it names as its issuer, and its serial number,   *)
(* which stands for all in which two certificates for a host differ.       *)
(* pem.Encode writes it line by line, each handshake at the offset of its  *)
(* own descriptor, and the lines of two handshakes can alternate: the file *)
(* of a host has a certificate, or nothing, for each of its lines.         *)
(***************************************************************************)
EXTENDS Integers

CONSTANTS
  Conn,         \* the connections whose handshakes run at the same time
  Host,         \* the hosts they ask for
  Lines,        \* the lines of a certificate file
  None,         \* what a line holds that is not written
  MaxCrashes    \* bound on crashes

Line == 1..Lines
Certificate == [key : Nat, issuer : Nat, serial : Conn]
Content == [Line -> Certificate \cup {None}]

ASSUME CertsAssumption ==
  /\ Lines \in Nat \ {0} /\ MaxCrashes \in Nat
  /\ None \notin Certificate

VARIABLES
  rootKey,     \* the file root-key
  rootCert,    \* the file root-cert
  cert,        \* /cache/certs/<host>.crt for every host
  main,        \* where the main goroutine is
  conn,        \* the state of each handshake
  raced,       \* the hosts whose file a second handshake has created again
  generated,   \* how many root keys have been generated
  crashes

vars == <<rootKey, rootCert, cert, main, conn, raced, generated, crashes>>

\* A root file is written by one goroutine: it is whole, or it is no PEM block.
Missing    == [is |-> "missing", key |-> 0]
Empty      == [is |-> "empty", key |-> 0]
Whole(key) == [is |-> "whole", key |-> key]

RootFile == [is : {"missing", "empty", "whole"}, key : Nat]

Blank == [k \in Line |-> None]
CertFile == [exists : BOOLEAN, lines : Content]

MainPC == {"down", "key", "createKey", "writeKey",
           "cert", "createCert", "writeCert", "serving"}

\* A handshake is at line k, has made a certificate and has read some lines.
Idle == [pc |-> "idle"]
Busy ==
  [pc   : {"stat", "root", "create", "write", "load", "served"},
   host : Host, k : 1..Lines+1, made : Certificate \cup {None}, got : Content]
ConnState == {Idle} \cup Busy

TypeOK ==
  /\ rootKey \in RootFile /\ rootCert \in RootFile
  /\ cert \in [Host -> CertFile]
  /\ main \in MainPC
  /\ conn \in [Conn -> ConnState]
  /\ raced \subseteq Host
  /\ generated \in Nat /\ crashes \in 0..MaxCrashes

Init ==
  /\ rootKey = Missing /\ rootCert = Missing
  /\ cert = [n \in Host |-> [exists |-> FALSE, lines |-> Blank]]
  /\ main = "down"
  /\ conn = [c \in Conn |-> Idle]
  /\ raced = {} /\ generated = 0 /\ crashes = 0

-----------------------------------------------------------------------------
(* chroot(), in the main goroutine                                         *)

handshakes == <<cert, conn, raced, crashes>>

Boot ==
  /\ main = "down" /\ main' = "key"
  /\ UNCHANGED <<rootKey, rootCert, generated, handshakes>>

\* Mutant: the root key is made anew at every start.
StatKeyAlwaysNew ==
  /\ main = "key"
  /\ main' = "createKey"
  /\ UNCHANGED <<rootKey, rootCert, generated, handshakes>>

StatKey ==
  /\ main = "key"
  /\ main' = IF rootKey = Missing THEN "createKey" ELSE "cert"
  /\ UNCHANGED <<rootKey, rootCert, generated, handshakes>>

\* MakeRootKey: rsa.GenerateKey and os.Create
CreateKey ==
  /\ main = "createKey" /\ main' = "writeKey"
  /\ generated' = generated + 1
  /\ rootKey' = Empty
  /\ UNCHANGED <<rootCert, handshakes>>

\* MakeRootKey: pem.Encode
WriteKey ==
  /\ main = "writeKey" /\ main' = "cert"
  /\ rootKey' = Whole(generated)
  /\ UNCHANGED <<rootCert, generated, handshakes>>

StatCert ==
  /\ main = "cert"
  /\ main' = IF rootCert = Missing THEN "createCert" ELSE "serving"
  /\ UNCHANGED <<rootKey, rootCert, generated, handshakes>>

\* MakeRootCert reads the key before it creates the file.  In an empty key
\* file pem.Decode finds no block, and using the block ends the process.
CreateCert ==
  /\ main = "createCert"
  /\ \/ /\ rootKey.is = "whole"
        /\ main' = "writeCert" /\ rootCert' = Empty
     \/ /\ rootKey.is = "empty"
        /\ main' = "down" /\ UNCHANGED rootCert
  /\ UNCHANGED <<rootKey, generated, handshakes>>

\* MakeRootCert: pem.Encode; the certificate is signed with its own key.
WriteCert ==
  /\ main = "writeCert" /\ main' = "serving"
  /\ rootCert' = Whole(rootKey.key)
  /\ UNCHANGED <<rootKey, generated, handshakes>>

-----------------------------------------------------------------------------
(* getCert, in the goroutine of a connection                               *)

Goto(c, state) ==
  /\ main = "serving"
  /\ conn' = [conn EXCEPT ![c] = state]
  /\ UNCHANGED <<rootKey, rootCert, main, generated, crashes>>

Hello(c, n) ==
  /\ conn[c].pc \in {"idle", "served"}
  /\ Goto(c, [pc |-> "stat", host |-> n, k |-> 1, made |-> None, got |-> Blank])
  /\ UNCHANGED <<cert, raced>>

\* os.Stat(certfile)
Stat(c) ==
  /\ conn[c].pc = "stat"
  /\ Goto(c, [conn[c] EXCEPT !.pc = IF cert[conn[c].host].exists THEN "load" ELSE "root"])
  /\ UNCHANGED <<cert, raced>>

\* makeCert up to x509.CreateCertificate: the root certificate is the parent,
\* the root key is certified and signs.  An empty root file makes the handshake
\* panic; the HTTP server ends the connection.  No connection creates the file
\* of a host twice, so the connection stands for the random serial number.
Issue(c) ==
  /\ conn[c].pc = "root"
  /\ \/ /\ rootCert.is = "whole" /\ rootKey.is = "whole"
        /\ Goto(c, [conn[c] EXCEPT
                      !.pc = "create",
                      !.made = [key |-> rootKey.key, issuer |-> rootCert.key, serial |-> c]])
     \/ /\ rootCert.is # "whole" \/ rootKey.is # "whole"
        /\ Goto(c, Idle)
  /\ UNCHANGED <<cert, raced>>

\* os.Create(certfile) truncates a file that another handshake has created.
Create(c) ==
  /\ conn[c].pc = "create"
  /\ Goto(c, [conn[c] EXCEPT !.pc = "write"])
  /\ cert' = [cert EXCEPT ![conn[c].host] = [exists |-> TRUE, lines |-> Blank]]
  /\ raced' = IF cert[conn[c].host].exists THEN raced \cup {conn[c].host} ELSE raced

\* The next line of a file is written at the offset of this handshake, or read.
WriteLine(c) ==
  cert' = [cert EXCEPT ![conn[c].host].lines[conn[c].k] = conn[c].made]

\* Mutant: the last line stays in a buffer.
WriteUnflushed(c) ==
  /\ conn[c].pc = "write" /\ conn[c].k <= Lines
  /\ Goto(c, [conn[c] EXCEPT !.k = @ + 1])
  /\ IF conn[c].k < Lines THEN WriteLine(c) ELSE UNCHANGED cert
  /\ UNCHANGED raced

\* pem.Encode: the header, the lines of the text and the trailer are writes of
\* their own.
Write(c) ==
  /\ conn[c].pc = "write" /\ conn[c].k <= Lines
  /\ Goto(c, [conn[c] EXCEPT !.k = @ + 1])
  /\ WriteLine(c)
  /\ UNCHANGED raced

\* fp.Close()
Close(c) ==
  /\ conn[c].pc = "write" /\ conn[c].k > Lines
  /\ Goto(c, [conn[c] EXCEPT !.pc = "load", !.k = 1])
  /\ UNCHANGED <<cert, raced>>

\* tls.LoadX509KeyPair reads the file; a line that is not there ends it or is
\* a hole in it, and either way it holds no certificate.
Read(c) ==
  /\ conn[c].pc = "load" /\ conn[c].k <= Lines
  /\ Goto(c, [conn[c] EXCEPT !.k = @ + 1,
                             !.got[conn[c].k] = cert[conn[c].host].lines[conn[c].k]])
  /\ UNCHANGED <<cert, raced>>

Complete(text) == \A k \in Line : text[k] # None
Mixed(text)    == \E j, k \in Line : text[j] # None /\ text[k] # None /\ text[j] # text[k]

\* tls.LoadX509KeyPair: the handshake fails if the file holds no certificate or
\* one for another key.  The signature is not checked: what the lines of two
\* certificates make is accepted if it happens to parse.
Load(c) ==
  /\ conn[c].pc = "load" /\ conn[c].k > Lines
  /\ LET text == conn[c].got
         good == Complete(text) /\ \A k \in Line : text[k].key = rootKey.key
     IN  \/ good /\ Goto(c, [conn[c] EXCEPT !.pc = "served", !.made = None])
         \/ (good => Mixed(text)) /\ Goto(c, Idle)
  /\ UNCHANGED <<cert, raced>>

-----------------------------------------------------------------------------

\* The process is killed, or the power fails.
Crash ==
  /\ main # "down" /\ crashes < MaxCrashes
  /\ crashes' = crashes + 1
  /\ main' = "down" /\ conn' = [c \in Conn |-> Idle]
  /\ UNCHANGED <<rootKey, rootCert, cert, raced, generated>>

Main ==
  \/ Boot \/ StatKey \/ CreateKey \/ WriteKey
  \/ StatCert \/ CreateCert \/ WriteCert

Handshake(c) ==
  \/ Stat(c) \/ Issue(c) \/ Create(c) \/ Write(c) \/ Close(c) \/ Read(c) \/ Load(c)

Next ==
  \/ Main
  \/ \E c \in Conn : Handshake(c) \/ \E n \in Host : Hello(c, n)
  \/ Crash

Spec == Init /\ [][Next]_vars

\* The supervisor starts the server again, and every goroutine runs on.
FairSpec == Spec /\ WF_vars(Main) /\ \A c \in Conn : WF_vars(Handshake(c))

-----------------------------------------------------------------------------
(* Properties *)

\* Whatever was interrupted, a certificate that is sent to a client is for the
\* key the server has and is signed for the root certificate that users install
\* (getCert, MakeRootKey, MakeRootCert).  It is one certificate, which verifies,
\* unless two handshakes have made the file of that host at the same time: then
\* its lines may be from both, also in a later handshake, and it is sent
\* although its signature is of another certificate.
ServedVerifiesUnlessRaced ==
  \A c \in Conn : conn[c].pc = "served" =>
    /\ rootCert.is = "whole" /\ rootKey.key = rootCert.key
    /\ \A k \in Line : /\ conn[c].got[k] # None
                       /\ conn[c].got[k].key = rootKey.key
                       /\ conn[c].got[k].issuer = rootCert.key
    /\ Mixed(conn[c].got) => conn[c].host \in raced

\* A certificate file that no handshake is writing has all of its lines, unless
\* the process has crashed, and they are of one certificate unless the file was
\* made twice: handshakes that write it at the same time leave no hole in it and
\* no part of it out, however their writes alternate, but can leave a mixture
\* (makeCert).
DamagedOnlyByCrashOrRace ==
  \A n \in Host : cert[n].exists =>
    /\ \/ Complete(cert[n].lines)
       \/ crashes > 0
       \/ \E c \in Conn : conn[c].pc = "write" /\ conn[c].host = n
    /\ Mixed(cert[n].lines) => n \in raced

\* "Make sure the rootCA files exist" (cmd/helper.go): the server starts, if
\* it is not killed again.
ServerStarts == main = "down" ~> main = "serving"

=============================================================================
