-------------------------------- MODULE Startup --------------------------------
(***************************************************************************)
(* How an instance of burptui comes up and goes down: App::run,            *)
(* SslInit::initialize, ProxyServer::start and stop.                       *)
(*                                                                         *)
(* The root CA lives in two files that every instance started in the same  *)
(* directory shares.  An instance looks for both, loads and compares them, *)
(* or generates a pair and writes the key, then the certificate; only then *)
(* does it bind its port.  Nothing locks the files, what the two           *)
(* PEM_write_bio calls return is dropped, and an instance may crash        *)
(* between any two steps.                                                  *)
(*                                                                         *)
(* A pair is known by its number.  Cut is a file that was opened for       *)
(* writing and holds no whole key or certificate.                          *)
(***************************************************************************)
EXTENDS Integers, FiniteSets

CONSTANTS
    Instance,           \* the processes
    Port,               \* what --host and --port can ask for
    MaxPairs            \* bound: key pairs generated

Absent == -1
Cut    == 0
None   == Absent        \* a process without a CA in memory, or without a port

ASSUME StartupAssumption == MaxPairs \in Nat \ {0} /\ None \notin Port

VARIABLES
    dir,                \* the directory ca/ exists
    keyFile, certFile,  \* ca/ca.key and ca/ca.crt
    pairs,              \* pairs generated so far
    pc,                 \* where each instance is; "off" when it does not run
    key, cert,          \* caKey_ and caCert_ (pkey and cert while generating)
    port,               \* the port each acceptor is bound to
    alone               \* history: no other instance ran beside this one

files == <<dir, keyFile, certFile>>
vars  == <<dir, keyFile, certFile, pairs, pc, key, cert, port, alone>>

Loading    == {"loadCert", "loadKey"}
Generating == {"openKey", "writeKey", "openCert", "writeCert"}
Stages     == {"off", "findDir", "makeDir", "findCert", "findKey", "bind", "serving"}
                \cup Loading \cup Generating

Running  == {p \in Instance : pc[p] # "off"}
Contents == {Absent, Cut} \cup 1 .. pairs

TypeOK ==
    /\ dir \in BOOLEAN
    /\ pairs \in 1 .. MaxPairs
    /\ keyFile \in Contents /\ certFile \in Contents
    /\ pc \in [Instance -> Stages]
    /\ key \in [Instance -> {None} \cup 1 .. pairs]
    /\ cert \in [Instance -> {None} \cup 1 .. pairs]
    /\ port \in [Instance -> Port \cup {None}]
    /\ alone \in [Instance -> BOOLEAN]

\* The directory as an earlier run, or the user, left it: each of the files is
\* there or has been deleted.
Init ==
    /\ dir \in BOOLEAN
    /\ pairs = 1
    /\ keyFile \in {Absent, 1} /\ certFile \in {Absent, 1}
    /\ ~dir => keyFile = Absent /\ certFile = Absent
    /\ pc = [p \in Instance |-> "off"]
    /\ key = [p \in Instance |-> None] /\ cert = [p \in Instance |-> None]
    /\ port = [p \in Instance |-> None]
    /\ alone = [p \in Instance |-> TRUE]

-----------------------------------------------------------------------------
Goto(p, stage) == pc' = [pc EXCEPT ![p] = stage]

\* initialize() returns false, start() throws, or the process ends: its memory
\* and its sockets are gone, the files stay.
Gone(p) ==
    /\ Goto(p, "off")
    /\ key' = [key EXCEPT ![p] = None] /\ cert' = [cert EXCEPT ![p] = None]
    /\ port' = [port EXCEPT ![p] = None]

Exit(p) == Gone(p) /\ UNCHANGED <<files, pairs, alone>>

Launch(p) ==
    /\ pc[p] = "off"
    /\ Goto(p, "findDir")
    /\ alone' = [q \in Instance |-> IF q = p THEN Running = {}
                                    ELSE alone[q] /\ q \notin Running]
    /\ UNCHANGED <<files, pairs, key, cert, port>>

\* ensureCaDirectory: exists(), then create_directories(), which reports
\* failure when another instance was faster.
FindDir(p) ==
    /\ pc[p] = "findDir"
    /\ Goto(p, IF dir THEN "findCert" ELSE "makeDir")
    /\ UNCHANGED <<files, pairs, key, cert, port, alone>>

MakeDir(p) ==
    /\ pc[p] = "makeDir"
    /\ \/ /\ ~dir /\ dir' = TRUE
          /\ Goto(p, "findCert")
          /\ UNCHANGED <<keyFile, certFile, pairs, key, cert, port, alone>>
       \/ Exit(p)

FindCert(p) ==
    /\ pc[p] = "findCert"
    /\ Goto(p, IF certFile # Absent THEN "findKey" ELSE "openKey")
    /\ UNCHANGED <<files, pairs, key, cert, port, alone>>

\* Variant with a bug: the key is looked for under the wrong name.
FindKeyElsewhere(p) ==
    /\ pc[p] = "findKey"
    /\ Goto(p, "openKey")
    /\ UNCHANGED <<files, pairs, key, cert, port, alone>>

FindKey(p) ==
    /\ pc[p] = "findKey"
    /\ Goto(p, IF keyFile # Absent THEN "loadCert" ELSE "openKey")
    /\ UNCHANGED <<files, pairs, key, cert, port, alone>>

\* loadRootCA reads the certificate,
LoadCert(p) ==
    /\ pc[p] = "loadCert"
    /\ IF certFile > 0
       THEN /\ cert' = [cert EXCEPT ![p] = certFile]
            /\ Goto(p, "loadKey")
            /\ UNCHANGED <<files, pairs, key, port, alone>>
       ELSE Exit(p)

\* Variant with a bug: X509_check_private_key is not called.
LoadKeyUnchecked(p) ==
    /\ pc[p] = "loadKey"
    /\ IF keyFile > 0
       THEN /\ key' = [key EXCEPT ![p] = keyFile]
            /\ Goto(p, "bind")
            /\ UNCHANGED <<files, pairs, cert, port, alone>>
       ELSE Exit(p)

\* then the key, and compares the two.
LoadKey(p) ==
    /\ pc[p] = "loadKey"
    /\ IF keyFile > 0 /\ keyFile = cert[p]
       THEN /\ key' = [key EXCEPT ![p] = keyFile]
            /\ Goto(p, "bind")
            /\ UNCHANGED <<files, pairs, cert, port, alone>>
       ELSE Exit(p)

\* generateRootCA makes a pair in memory and opens the key file, truncating it.
OpenKey(p) ==
    /\ pc[p] = "openKey"
    /\ \/ /\ pairs < MaxPairs
          /\ pairs' = pairs + 1
          /\ key' = [key EXCEPT ![p] = pairs + 1] /\ cert' = [cert EXCEPT ![p] = pairs + 1]
          /\ keyFile' = Cut
          /\ Goto(p, "writeKey")
          /\ UNCHANGED <<dir, certFile, port, alone>>
       \/ Exit(p)

\* What PEM_write_bio_PrivateKey returns is not looked at.
WriteKey(p) ==
    /\ pc[p] = "writeKey"
    /\ keyFile' \in {key[p], Cut}
    /\ Goto(p, "openCert")
    /\ UNCHANGED <<dir, certFile, pairs, key, cert, port, alone>>

OpenCert(p) ==
    /\ pc[p] = "openCert"
    /\ \/ /\ certFile' = Cut
          /\ Goto(p, "writeCert")
          /\ UNCHANGED <<dir, keyFile, pairs, key, cert, port, alone>>
       \/ Exit(p)

\* Variant with a bug: a second pair is signed for the file.
WriteCertAnew(p) ==
    /\ pc[p] = "writeCert"
    /\ pairs < MaxPairs
    /\ pairs' = pairs + 1
    /\ certFile' = pairs + 1
    /\ Goto(p, "bind")
    /\ UNCHANGED <<dir, keyFile, key, cert, port, alone>>

WriteCert(p) ==
    /\ pc[p] = "writeCert"
    /\ certFile' \in {cert[p], Cut}
    /\ Goto(p, "bind")
    /\ UNCHANGED <<dir, keyFile, pairs, key, cert, port, alone>>

\* ProxyServer::start on the port of the command line: bind() fails when another
\* instance has it, start() leaves running_ false, and App::run gives up.
Bind(p) ==
    /\ pc[p] = "bind"
    /\ \/ \E n \in Port :
             /\ \A q \in Instance : port[q] # n
             /\ port' = [port EXCEPT ![p] = n]
             /\ Goto(p, "serving")
             /\ UNCHANGED <<files, pairs, key, cert, alone>>
       \/ Exit(p)

\* The user leaves the TUI: stop() closes the acceptor and joins the thread.
Quit(p) ==
    /\ pc[p] = "serving"
    /\ Exit(p)

\* The process is killed between two steps.
Crash(p) ==
    /\ pc[p] # "off"
    /\ Exit(p)

InitSsl(p) == FindDir(p) \/ MakeDir(p) \/ FindCert(p) \/ FindKey(p)
Load(p)    == LoadCert(p) \/ LoadKey(p)
Generate(p) == OpenKey(p) \/ WriteKey(p) \/ OpenCert(p) \/ WriteCert(p)

Next ==
    \E p \in Instance :
        \/ Launch(p) \/ InitSsl(p) \/ Load(p) \/ Generate(p)
        \/ Bind(p) \/ Quit(p) \/ Crash(p)

Spec == Init /\ [][Next]_vars

-----------------------------------------------------------------------------
\* An instance that has passed initialize() holds a certificate and the key it
\* was signed with, whatever other instances did to the two files while it
\* read them one after the other (loadRootCA).
Paired ==
    \A p \in Instance :
        pc[p] \in {"bind", "serving"} => key[p] > 0 /\ cert[p] = key[p]

\* What the files hold at each stage of an instance that runs alone: it writes
\* only where something is missing, the key before the certificate.
Alone ==
    \A p \in Instance : pc[p] # "off" /\ alone[p] =>
        /\ \A q \in Instance \ {p} : pc[q] = "off"
        /\ pc[p] = "openKey" => keyFile = Absent \/ certFile = Absent
        /\ pc[p] = "writeKey" => keyFile = Cut
        /\ pc[p] = "openCert" => keyFile \in {Cut, key[p]}
        /\ pc[p] \in {"writeKey", "openCert"} => certFile # key[p]
        /\ pc[p] = "writeCert" => certFile = Cut
        /\ pc[p] = "loadKey" => certFile = cert[p]
        /\ pc[p] \in {"bind", "serving"} => certFile \in {cert[p], Cut}

\* What a process holds while it generates or loads, and who has which port.
Held ==
    /\ \A p \in Instance : pc[p] \in Generating \ {"openKey"} =>
          key[p] > 0 /\ cert[p] = key[p]
    /\ \A p \in Instance : pc[p] = "loadKey" => cert[p] > 0
    /\ \A p \in Instance : port[p] # None <=> pc[p] = "serving"
    /\ \A p, q \in Instance : port[p] # None /\ port[p] = port[q] => p = q

IInv == TypeOK /\ Paired /\ Alone /\ Held

\* The certificate the user is told to import (README: "Import ca.crt") is the
\* one that an instance which came up alone signs with, as far as there is a
\* whole certificate in the file.
SignsWithTheFile ==
    \A p \in Instance :
        pc[p] = "serving" /\ alone[p] /\ certFile # Cut => certFile = cert[p]

\* Both files are whole and belong together.
Whole == dir /\ keyFile > 0 /\ certFile = keyFile

\* Once the CA is whole on disk, no launch, failed load or crash sends anybody
\* off to generate another (initialize() does so only when it finds a file
\* missing); the pair is replaced only by an instance that was inside
\* generateRootCA already, and only if it ran beside another one.
KeepsWhole ==
    Whole =>
        /\ \A p \in Instance : pc'[p] \in Generating => pc[p] \in Generating
        /\ files' # files =>
              \E p \in Instance : pc[p] \in Generating /\ pc'[p] # pc[p] /\ ~alone[p]
ReplacedOnlyInRace == [][KeepsWhole]_vars
==============================================================================
