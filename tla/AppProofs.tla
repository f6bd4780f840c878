------------------------------- MODULE AppProofs -------------------------------
(***************************************************************************)
(* How an instance comes up (Startup.tla), and how its accept loop serves  *)
(* and is taken down (Server.tla).                                         *)
(*                                                                         *)
(* For every number of instances and of generated pairs, with a crash      *)
(* possible anywhere: who passes initialize() holds a matching pair, and a *)
(* CA that is whole on disk is replaced only by an instance that was inside*)
(* generateRootCA already, beside another one.                             *)
(*                                                                         *)
(* For every set of connections: the loop listens while the server runs,   *)
(* and the network thread has ended before anything it uses goes.          *)
(***************************************************************************)
EXTENDS Startup, Server, TLAPS

\* The initial state: nothing runs, the files are what an earlier run left.
LEMMA InitIInv == Init => IInv
<1> SUFFICES ASSUME Init PROVE IInv
  OBVIOUS
<1>1. TypeOK
  BY StartupAssumption DEF Init, TypeOK, Contents, Stages, Absent, Cut, None, Loading, Generating
<1>2. Paired /\ Alone /\ Held
  BY DEF Init, Paired, Alone, Held, Generating
<1> QED
  BY <1>1, <1>2 DEF IInv

\* A process that ends leaves the invariant as it is: what the others hold, and
\* what it says of instances that run alone, does not mention it.
LEMMA ExitStep ==
    ASSUME IInv, NEW p \in Instance, Exit(p) PROVE IInv'
<1> USE DEF IInv
<1>1. TypeOK'
  BY DEF Exit, Gone, Goto, files, TypeOK, Contents, Stages
<1>2. Paired'
  BY DEF Exit, Gone, Goto, Paired, TypeOK
<1>3. Alone'
  BY DEF Exit, Gone, Goto, files, Alone, TypeOK
<1>4. Held'
  BY DEF Exit, Gone, Goto, Held, TypeOK, Generating
<1> QED
  BY <1>1, <1>2, <1>3, <1>4

\* A launch ends the solitude of those who run.
LEMMA LaunchStep ==
    ASSUME IInv, NEW p \in Instance, Launch(p) PROVE IInv'
<1> USE DEF IInv
<1>1. TypeOK'
  BY DEF Launch, Goto, files, TypeOK, Contents, Stages
<1>2. Paired'
  BY DEF Launch, Goto, Paired, TypeOK
<1>3. Alone'
  BY DEF Launch, Goto, files, Alone, TypeOK, Running
<1>4. Held'
  BY DEF Launch, Goto, Held, TypeOK, Generating
<1> QED
  BY <1>1, <1>2, <1>3, <1>4

\* Looking for the directory and the files.
LEMMA InitSslStep ==
    ASSUME IInv, NEW p \in Instance, InitSsl(p) PROVE IInv'
<1> USE DEF IInv
<1>1. CASE MakeDir(p) /\ Exit(p)
  BY <1>1, ExitStep
<1>2. CASE FindDir(p) \/ FindCert(p) \/ FindKey(p) \/ (MakeDir(p) /\ ~Exit(p))
  <2>1. TypeOK'
    BY <1>2 DEF FindDir, MakeDir, FindCert, FindKey, Goto, files, TypeOK, Contents, Stages,
                Loading, Generating
  <2>2. Paired'
    BY <1>2 DEF FindDir, MakeDir, FindCert, FindKey, Goto, Paired, TypeOK
  <2>3. Alone'
    BY <1>2 DEF FindDir, MakeDir, FindCert, FindKey, Goto, files, Alone, TypeOK
  <2>4. Held'
    BY <1>2 DEF FindDir, MakeDir, FindCert, FindKey, Goto, Held, TypeOK, Generating
  <2> QED
    BY <2>1, <2>2, <2>3, <2>4
<1> QED
  BY <1>1, <1>2 DEF InitSsl

\* Reading the certificate, then the key that must match it.
LEMMA LoadStep ==
    ASSUME IInv, NEW p \in Instance, Load(p) PROVE IInv'
<1> USE DEF IInv
<1>1. CASE Exit(p)
  BY <1>1, ExitStep
<1>2. CASE LoadCert(p) /\ ~Exit(p)
  <2>1. certFile \in 1 .. pairs
    BY <1>2 DEF LoadCert, TypeOK, Contents, Absent, Cut
  <2>2. TypeOK'
    BY <1>2, <2>1 DEF LoadCert, Goto, files, TypeOK, Contents, Stages, Loading
  <2>3. Paired'
    BY <1>2 DEF LoadCert, Goto, Paired, TypeOK
  <2>4. Alone'
    BY <1>2 DEF LoadCert, Goto, files, Alone, TypeOK
  <2>5. Held'
    BY <1>2, <2>1 DEF LoadCert, Goto, Held, TypeOK, Generating
  <2> QED
    BY <2>2, <2>3, <2>4, <2>5
<1>3. CASE LoadKey(p) /\ ~Exit(p)
  <2>1. keyFile \in 1 .. pairs /\ keyFile = cert[p]
    BY <1>3 DEF LoadKey, TypeOK, Contents, Absent, Cut
  <2>2. TypeOK'
    BY <1>3, <2>1 DEF LoadKey, Goto, files, TypeOK, Contents, Stages
  <2>3. Paired'
    BY <1>3, <2>1 DEF LoadKey, Goto, Paired, TypeOK
  <2>4. Alone'
    BY <1>3, <2>1 DEF LoadKey, Goto, files, Alone, TypeOK
  <2>5. Held'
    BY <1>3, <2>1 DEF LoadKey, Goto, Held, TypeOK, Generating
  <2> QED
    BY <2>2, <2>3, <2>4, <2>5
<1> QED
  BY <1>1, <1>2, <1>3 DEF Load

\* Making a pair and writing its two files.
LEMMA GenerateStep ==
    ASSUME IInv, NEW p \in Instance, Generate(p) PROVE IInv'
<1> USE DEF IInv
<1>1. CASE Exit(p)
  BY <1>1, ExitStep
<1>2. CASE OpenKey(p) /\ ~Exit(p)
  <2>1. TypeOK'
    BY <1>2, StartupAssumption
       DEF OpenKey, Goto, TypeOK, Contents, Stages, Generating, Cut, Absent, None
  <2>2. Paired'
    BY <1>2 DEF OpenKey, Goto, Paired, TypeOK
  <2>3. Alone'
    BY <1>2 DEF OpenKey, Goto, Alone, TypeOK, Contents, Cut, Absent
  <2>4. Held'
    BY <1>2 DEF OpenKey, Goto, Held, TypeOK, Generating
  <2> QED
    BY <2>1, <2>2, <2>3, <2>4
<1>3. CASE WriteKey(p)
  <2>1. key[p] \in 1 .. pairs
    BY <1>3 DEF WriteKey, Held, TypeOK, Generating, None, Absent
  <2>2. TypeOK'
    BY <1>3, <2>1 DEF WriteKey, Goto, TypeOK, Contents, Stages, Generating
  <2>3. Paired'
    BY <1>3 DEF WriteKey, Goto, Paired, TypeOK
  <2>4. Alone'
    BY <1>3 DEF WriteKey, Goto, Alone, TypeOK
  <2>5. Held'
    BY <1>3 DEF WriteKey, Goto, Held, TypeOK, Generating
  <2> QED
    BY <2>2, <2>3, <2>4, <2>5
<1>4. CASE OpenCert(p) /\ ~Exit(p)
  <2>1. TypeOK'
    BY <1>4 DEF OpenCert, Goto, TypeOK, Contents, Stages, Generating
  <2>2. Paired'
    BY <1>4 DEF OpenCert, Goto, Paired, TypeOK
  <2>3. Alone'
    BY <1>4 DEF OpenCert, Goto, Alone, TypeOK
  <2>4. Held'
    BY <1>4 DEF OpenCert, Goto, Held, TypeOK, Generating
  <2> QED
    BY <2>1, <2>2, <2>3, <2>4
<1>5. CASE WriteCert(p)
  <2>1. key[p] \in 1 .. pairs /\ cert[p] = key[p]
    BY <1>5 DEF WriteCert, Held, TypeOK, Generating, None, Absent
  <2>2. TypeOK'
    BY <1>5, <2>1 DEF WriteCert, Goto, TypeOK, Contents, Stages
  <2>3. Paired'
    BY <1>5, <2>1 DEF WriteCert, Goto, Paired, TypeOK
  <2>4. Alone'
    BY <1>5, <2>1 DEF WriteCert, Goto, Alone, TypeOK
  <2>5. Held'
    BY <1>5, <2>1 DEF WriteCert, Goto, Held, TypeOK, Generating
  <2> QED
    BY <2>2, <2>3, <2>4, <2>5
<1> QED
  BY <1>1, <1>2, <1>3, <1>4, <1>5 DEF Generate

\* A port nobody has, or none.
LEMMA BindStep ==
    ASSUME IInv, NEW p \in Instance, Bind(p) PROVE IInv'
<1> USE DEF IInv
<1>1. CASE Exit(p)
  BY <1>1, ExitStep
<1>2. CASE ~Exit(p)
  <2>1. PICK n \in Port :
            /\ \A q \in Instance : port[q] # n
            /\ port' = [port EXCEPT ![p] = n]
            /\ Goto(p, "serving")
            /\ UNCHANGED <<files, pairs, key, cert, alone>>
    BY <1>2 DEF Bind
  <2>2. TypeOK'
    BY <2>1 DEF Goto, files, TypeOK, Contents, Stages
  <2>3. Paired'
    BY <1>2, <2>1 DEF Bind, Goto, Paired, TypeOK
  <2>4. Alone'
    BY <1>2, <2>1 DEF Bind, Goto, files, Alone, TypeOK
  <2>5. Held'
    BY <1>2, <2>1, StartupAssumption DEF Bind, Goto, Held, TypeOK, Generating
  <2> QED
    BY <2>2, <2>3, <2>4, <2>5
<1> QED
  BY <1>1, <1>2

LEMMA NextIInv == IInv /\ [Next]_vars => IInv'
<1> SUFFICES ASSUME IInv, [Next]_vars PROVE IInv'
  OBVIOUS
<1>1. ASSUME NEW p \in Instance,
             Launch(p) \/ InitSsl(p) \/ Load(p) \/ Generate(p) \/ Bind(p) \/ Quit(p) \/ Crash(p)
      PROVE  IInv'
  BY <1>1, LaunchStep, InitSslStep, LoadStep, GenerateStep, BindStep, ExitStep DEF Quit, Crash
<1>2. CASE UNCHANGED vars
  BY <1>2 DEF vars, IInv, TypeOK, Paired, Alone, Held, Contents
<1> QED
  BY <1>1, <1>2 DEF Next

\* Every instance that passed SslInit::initialize holds a certificate and the
\* key it was signed with; no two of them have the same port.
THEOREM StartupInvariant == Spec => []IInv
<1> QED
  BY InitIInv, NextIInv, PTL DEF Spec

\* An instance that came up alone signs with the certificate in the file.
THEOREM StartupSignsWithTheFile == Spec => []SignsWithTheFile
<1>1. IInv => SignsWithTheFile
  BY DEF IInv, Alone, SignsWithTheFile
<1> QED
  BY <1>1, StartupInvariant, PTL

\* Where the files change, the instance that writes is inside generateRootCA;
\* if it ran alone, it found a file missing and has not written both yet.
LEMMA WriterRaced ==
    ASSUME IInv, Whole, NEW p \in Instance, Generate(p), ~Exit(p)
    PROVE  pc[p] \in Generating /\ pc'[p] # pc[p] /\ ~alone[p]
<1> USE DEF IInv, Whole, Generating
<1>1. CASE OpenKey(p)
  <2>1. pc[p] = "openKey" /\ Goto(p, "writeKey")
    BY <1>1 DEF OpenKey
  <2>2. keyFile # Absent /\ certFile # Absent
    BY DEF TypeOK, Contents, Absent, Cut
  <2>3. ~alone[p]
    BY <2>1, <2>2 DEF Alone
  <2> QED
    BY <2>1, <2>3 DEF Goto, TypeOK
<1>2. CASE WriteKey(p)
  BY <1>2 DEF WriteKey, Goto, Alone, TypeOK, Cut
<1>3. CASE OpenCert(p)
  <2>1. pc[p] = "openCert" /\ Goto(p, "writeCert")
    BY <1>3 DEF OpenCert
  <2>2. ~(keyFile \in {Cut, key[p]} /\ certFile # key[p])
    BY DEF Cut
  <2>3. ~alone[p]
    BY <2>1, <2>2 DEF Alone
  <2> QED
    BY <2>1, <2>3 DEF Goto, TypeOK
<1>4. CASE WriteCert(p)
  BY <1>4 DEF WriteCert, Goto, Alone, TypeOK, Cut
<1> QED
  BY <1>1, <1>2, <1>3, <1>4 DEF Generate

\* From a whole CA, only generateRootCA changes a file, and no step enters it.
LEMMA WholeStep == IInv /\ [Next]_vars => KeepsWhole
<1> SUFFICES ASSUME IInv, Whole, [Next]_vars
             PROVE  /\ \A q \in Instance : pc'[q] \in Generating => pc[q] \in Generating
                    /\ files' # files =>
                          \E q \in Instance : pc[q] \in Generating /\ pc'[q] # pc[q] /\ ~alone[q]
  BY DEF KeepsWhole
<1> DEFINE Calm == /\ UNCHANGED files
                   /\ \A q \in Instance : pc'[q] \in Generating => pc[q] \in Generating
<1>1. ASSUME NEW p \in Instance, Exit(p) PROVE Calm
  BY <1>1 DEF Exit, Gone, Goto, IInv, TypeOK, Generating
<1>2. ASSUME NEW p \in Instance, Launch(p) \/ FindDir(p) \/ FindCert(p) \/ FindKey(p)
      PROVE  Calm
  <2>1. certFile # Absent /\ keyFile # Absent
    BY DEF IInv, Whole, TypeOK, Absent, Contents, Cut
  <2>2. \E stage \in {"findDir", "findCert", "findKey", "loadCert", "makeDir"} : Goto(p, stage)
    BY <1>2, <2>1 DEF Launch, FindDir, FindCert, FindKey
  <2>3. UNCHANGED files
    BY <1>2 DEF Launch, FindDir, FindCert, FindKey
  <2> QED
    BY <2>2, <2>3 DEF Goto, IInv, TypeOK, Generating
<1>3. ASSUME NEW p \in Instance, MakeDir(p) \/ Load(p) \/ Bind(p), ~Exit(p) PROVE Calm
  BY <1>3 DEF MakeDir, Load, LoadCert, LoadKey, Bind, Goto, files, IInv, TypeOK, Whole, Generating
<1>4. ASSUME NEW p \in Instance, Generate(p), ~Exit(p)
      PROVE  \A q \in Instance : pc'[q] \in Generating => pc[q] \in Generating
  BY <1>4 DEF Generate, OpenKey, WriteKey, OpenCert, WriteCert, Goto, IInv, TypeOK, Generating
<1>5. CASE UNCHANGED vars
  BY <1>5 DEF vars, files
<1>6. ASSUME NEW p \in Instance,
             Launch(p) \/ InitSsl(p) \/ Load(p) \/ Bind(p) \/ Quit(p) \/ Crash(p)
      PROVE  Calm
  BY <1>1, <1>2, <1>3, <1>6 DEF InitSsl, Quit, Crash
<1> QED
  BY <1>1, <1>4, <1>5, <1>6, WriterRaced DEF Next

\* SslInit::initialize: a pair that is whole on disk is what every later launch
\* finds and loads; who replaces it had found a file missing before, and ran
\* beside the instance that wrote the pair.
THEOREM StartupReplacedOnlyInRace == Spec => ReplacedOnlyInRace
<1>1. IInv /\ [Next]_vars => [KeepsWhole]_vars
  BY WholeStep
<1>2. Spec => [][KeepsWhole]_vars
  BY <1>1, StartupInvariant, PTL DEF Spec
<1> QED
  BY <1>2 DEF ReplacedOnlyInRace

-----------------------------------------------------------------------------
(* The accept loop *)

\* The server as start() leaves it: the loop runs and an accept is armed.
LEMMA InitServerInv == ServerInit => ServerInv
<1> SUFFICES ASSUME ServerInit PROVE ServerInv
  OBVIOUS
<1> QED
  BY DEF ServerInit, ServerInv, ServerTypes, TakeDown, Listens, Quiet, OnlyHeldOutlive, Order

\* The network thread: doAccept is entered again after every accept, and none
\* of its handlers runs once the loop was stopped.
LEMMA NetworkStep == ASSUME ServerInv, Network PROVE ServerInv'
<1> USE DEF ServerInv, Free, server, objects
<1>1. CASE Accepted \/ AcceptFailed
  BY <1>1 DEF Accepted, AcceptFailed, ServerTypes, Listens, Quiet, OnlyHeldOutlive, Order
<1>2. CASE Again \/ Arm
  BY <1>2 DEF Again, Arm, ServerTypes, Listens, Quiet, OnlyHeldOutlive, Order
<1>3. CASE Notify \/ EndLoop
  BY <1>3 DEF Notify, EndLoop, ServerTypes, Listens, Quiet, OnlyHeldOutlive, Order
<1>4. ASSUME NEW c \in Conn, Serve(c) \/ Throw(c) PROVE ServerInv'
  BY <1>4 DEF Serve, Throw, ServerTypes, Listens, Quiet, OnlyHeldOutlive, Order
<1> QED
  BY <1>1, <1>2, <1>3, <1>4 DEF Network

\* Clients, the user and the worker leave the stages of the two threads alone.
LEMMA OutsideStep ==
    ASSUME ServerInv,
           \/ Connect \/ Refuse \/ Send \/ Answer \/ UserQuits
           \/ \E c \in Conn : Decide(c)
    PROVE  ServerInv'
<1> USE DEF ServerInv, server, objects
<1>1. CASE Connect \/ Refuse
  BY <1>1 DEF Connect, Refuse, ServerTypes, Listens, Quiet, OnlyHeldOutlive, Order
<1>2. CASE Send \/ Answer
  BY <1>2 DEF Send, Answer, ServerTypes, Listens, Quiet, OnlyHeldOutlive, Order
<1>3. CASE UserQuits
  BY <1>3 DEF UserQuits, ServerTypes, TakeDown, Listens, Quiet, OnlyHeldOutlive, Order
<1>4. ASSUME NEW c \in Conn, Decide(c) PROVE ServerInv'
  BY <1>4 DEF Decide, ServerTypes, Listens, Quiet, OnlyHeldOutlive, Order
<1> QED
  BY <1>1, <1>2, <1>3, <1>4

\* The main thread takes one thing down after the other.
LEMMA MainThreadStep == ASSUME ServerInv, MainThread PROVE ServerInv'
<1> USE DEF ServerInv, server, objects, TakeDown
<1>1. CASE StopRunning \/ CloseAcceptor \/ Halt
  <2>1. CASE StopRunning
    BY <2>1 DEF StopRunning, ServerTypes, Listens, Quiet, OnlyHeldOutlive, Order
  <2>2. CASE CloseAcceptor
    BY <2>2 DEF CloseAcceptor, ServerTypes, Listens, Quiet, OnlyHeldOutlive, Order
  <2>3. CASE Halt
    BY <2>3 DEF Halt, ServerTypes, Listens, Quiet, OnlyHeldOutlive, Order
  <2> QED
    BY <1>1, <2>1, <2>2, <2>3
<1>2. CASE Join
  BY <1>2 DEF Join, ServerTypes, Listens, Quiet, OnlyHeldOutlive, Order
<1>3. CASE EndRun \/ EndApp \/ EndStatics
  <2>1. CASE EndRun
    BY <2>1 DEF EndRun, ServerTypes, Listens, Quiet, OnlyHeldOutlive, Order
  <2>2. CASE EndApp
    BY <2>2 DEF EndApp, ServerTypes, Listens, Quiet, OnlyHeldOutlive, Order
  <2>3. CASE EndStatics
    BY <2>3 DEF EndStatics, ServerTypes, Listens, Quiet, OnlyHeldOutlive, Order
  <2> QED
    BY <1>3, <2>1, <2>2, <2>3
<1> QED
  BY <1>1, <1>2, <1>3 DEF MainThread

\* ProxyServer::doAccept and stop(), App::run's end: in every reachable state an
\* accept is under way or about to be while the server runs, and once join()
\* returned no handler uses TuiApp, the io_context or a session any more.
THEOREM ServerInvariant == ServerSpec => []ServerInv
<1>1. ServerInit => ServerInv
  BY InitServerInv
<1>2. ServerInv /\ [ServerNext]_serverVars => ServerInv'
  <2> SUFFICES ASSUME ServerInv, [ServerNext]_serverVars PROVE ServerInv'
    OBVIOUS
  <2>1. CASE UNCHANGED serverVars
    BY <2>1 DEF serverVars, ServerInv, ServerTypes, Listens, Quiet, OnlyHeldOutlive, Order
  <2> QED
    BY <2>1, NetworkStep, OutsideStep, MainThreadStep DEF ServerNext
<1> QED
  BY <1>1, <1>2, PTL DEF ServerSpec
=============================================================================
