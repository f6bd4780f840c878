-------------------------------- MODULE Server --------------------------------
(***************************************************************************)
(* ProxyServer's accept loop and what App::run takes down at the end, in   *)
(* which order, while the network thread and a Repeater worker go on.      *)
(*                                                                         *)
(* A session lives as long as something refers to it: an operation or a    *)
(* handler in the io_context, or the callback of a request that            *)
(* InterceptManager holds.  What a session does otherwise is the subject   *)
(* of Session and MitmSession; here a handler may go on, close, hold its   *)
(* request, report a transaction, or throw (std::stoi on the port).        *)
(***************************************************************************)
EXTENDS Naturals

CONSTANT Conn       \* bound: the connections accepted

VARIABLES
    main,           \* how far the main thread is
    net,            \* what the network thread does
    running,        \* running_
    open,           \* acceptor_ is open
    stopped,        \* io_context::stop was called
    accept,         \* the accept operation
    session,        \* per connection, what keeps its session alive
    worker,         \* the Repeater worker
    tui, ioc        \* TuiApp and the io_context exist

server == <<running, open, stopped, accept>>
objects == <<tui, ioc>>
serverVars == <<main, net, running, open, stopped, accept, session, worker, tui, ioc>>

\* The main thread, in order: tui.run, then stop() in four steps, the end of
\* run()'s locals, ~App, the statics.
TakeDown == {"ui", "stop", "close", "halt", "join", "locals", "app", "statics", "exited"}

\* App::run, once start() has bound the port.
ServerInit ==
    /\ main = "ui" /\ net = "loop"
    /\ running = TRUE /\ open = TRUE /\ stopped = FALSE
    /\ accept = "armed"
    /\ session = [c \in Conn |-> "none"]
    /\ worker = "none"
    /\ tui = TRUE /\ ioc = TRUE

-----------------------------------------------------------------------------
\* The network thread

\* io_context::run takes the next handler, unless it was stopped.
Free == net = "loop" /\ ~stopped

\* The session starts inside this handler, before doAccept() is reached:
\* remote_endpoint() throws when the client has gone already.
Accepted ==
    /\ Free /\ accept = "ready"
    /\ \E c \in Conn :
          /\ session[c] = "none"
          /\ \/ net' = "again" /\ session' = [session EXCEPT ![c] = "io"]
             \/ net' = "dead" /\ session' = [session EXCEPT ![c] = "gone"]
    /\ accept' = "none"
    /\ UNCHANGED <<main, running, open, stopped, worker, objects>>

\* An error, too, is followed by doAccept().
AcceptFailed ==
    /\ Free /\ accept = "failed"
    /\ accept' = "none"
    /\ net' = "again"
    /\ UNCHANGED <<main, running, open, stopped, session, worker, objects>>

\* doAccept reads running_,
Again ==
    /\ net = "again"
    /\ net' = IF running THEN "arm" ELSE "loop"
    /\ UNCHANGED <<main, server, session, worker, objects>>

\* and starts the operation, on an acceptor that the main thread may be closing.
Arm ==
    /\ net = "arm"
    /\ accept' = IF open THEN "armed" ELSE "failed"
    /\ net' = "loop"
    /\ UNCHANGED <<main, running, open, stopped, session, worker, objects>>

\* A handler of a session runs.
Serve(c) ==
    /\ Free /\ session[c] = "io"
    /\ \/ net' = "loop" /\ session' = [session EXCEPT ![c] = "gone"]
       \/ net' = "notify" /\ UNCHANGED session
       \/ net' = "notify" /\ session' = [session EXCEPT ![c] = "held"]
    /\ UNCHANGED <<main, server, worker, objects>>

\* A malformed port: the exception leaves run() and the thread ends; running_
\* stays as it is.
Throw(c) ==
    /\ Free /\ session[c] = "io"
    /\ net' = "dead"
    /\ UNCHANGED <<main, server, session, worker, objects>>

\* The transaction, or the held request, is announced: the trigger uses TuiApp.
Notify ==
    /\ net = "notify"
    /\ net' = "loop"
    /\ UNCHANGED <<main, server, session, worker, objects>>

EndLoop ==
    /\ net = "loop" /\ stopped
    /\ net' = "ended"
    /\ UNCHANGED <<main, server, session, worker, objects>>

-----------------------------------------------------------------------------
\* Clients, the user, the worker

Connect ==
    /\ accept = "armed" /\ open
    /\ accept' = IF \E c \in Conn : session[c] = "none" THEN "ready" ELSE "failed"
    /\ UNCHANGED <<main, net, running, open, stopped, session, worker, objects>>

\* accept() fails, for want of file descriptors for instance.
Refuse ==
    /\ accept = "armed" /\ open
    /\ accept' = "failed"
    /\ UNCHANGED <<main, net, running, open, stopped, session, worker, objects>>

\* The user decides: the callback posts a handler that holds the session.
Decide(c) ==
    /\ main = "ui" /\ session[c] = "held"
    /\ session' = [session EXCEPT ![c] = "io"]
    /\ UNCHANGED <<main, net, server, worker, objects>>

Send ==
    /\ main = "ui" /\ worker = "none"
    /\ worker' = "busy"
    /\ UNCHANGED <<main, net, server, session, objects>>

\* The detached worker has its answer and pulls the trigger, whatever has been
\* taken down meanwhile; only the end of the process stops it.
Answer ==
    /\ worker = "busy" /\ main # "exited"
    /\ worker' = "none"
    /\ UNCHANGED <<main, net, server, session, objects>>

-----------------------------------------------------------------------------
\* The main thread

UserQuits ==
    /\ main = "ui" /\ main' = "stop"
    /\ UNCHANGED <<net, server, session, worker, objects>>

StopRunning ==
    /\ main = "stop" /\ main' = "close"
    /\ running' = FALSE
    /\ UNCHANGED <<net, open, stopped, accept, session, worker, objects>>

CloseAcceptor ==
    /\ main = "close" /\ main' = "halt"
    /\ open' = FALSE
    /\ accept' = IF accept = "armed" THEN "failed" ELSE accept
    /\ UNCHANGED <<net, running, stopped, session, worker, objects>>

\* Variant with a bug: the loop is left to end when it has nothing to do.
HaltNot ==
    /\ main = "halt" /\ main' = "join"
    /\ UNCHANGED <<net, server, session, worker, objects>>

Halt ==
    /\ main = "halt" /\ main' = "join"
    /\ stopped' = TRUE
    /\ UNCHANGED <<net, running, open, accept, session, worker, objects>>

\* Variant with a bug: the thread is detached.
JoinNot ==
    /\ main = "join"
    /\ main' = "locals"
    /\ UNCHANGED <<net, server, session, worker, objects>>

Join ==
    /\ main = "join" /\ net \in {"ended", "dead"}
    /\ main' = "locals"
    /\ UNCHANGED <<net, server, session, worker, objects>>

\* run() returns: TuiApp is the last of its locals to go.
EndRun ==
    /\ main = "locals" /\ main' = "app"
    /\ tui' = FALSE
    /\ UNCHANGED <<net, server, session, worker, ioc>>

\* ~App: the io_context goes, its operations and handlers with it, and the
\* sessions that nothing else refers to.
EndApp ==
    /\ main = "app" /\ main' = "statics"
    /\ ioc' = FALSE
    /\ session' = [c \in Conn |-> IF session[c] = "io" THEN "gone" ELSE session[c]]
    /\ UNCHANGED <<net, server, worker, tui>>

\* InterceptManager's queue goes, and with it the sessions it held: their
\* close() cancels a timer of the io_context that is gone.
EndStatics ==
    /\ main = "statics" /\ main' = "exited"
    /\ session' = [c \in Conn |-> IF session[c] = "held" THEN "gone" ELSE session[c]]
    /\ UNCHANGED <<net, server, worker, objects>>

Network  == Accepted \/ AcceptFailed \/ Again \/ Arm \/ Notify \/ EndLoop
                \/ \E c \in Conn : Serve(c) \/ Throw(c)
MainThread == StopRunning \/ CloseAcceptor \/ Halt \/ Join \/ EndRun \/ EndApp \/ EndStatics

ServerNext ==
    \/ Network \/ MainThread
    \/ Connect \/ Refuse \/ Send \/ Answer \/ UserQuits
    \/ \E c \in Conn : Decide(c)

\* Threads that can go on do; clients, worker and user need not.
ServerSpec == ServerInit /\ [][ServerNext]_serverVars /\ WF_serverVars(Network) /\ WF_serverVars(MainThread)

-----------------------------------------------------------------------------
ServerTypes ==
    /\ main \in TakeDown
    /\ net \in {"loop", "again", "arm", "notify", "ended", "dead"}
    /\ running \in BOOLEAN /\ open \in BOOLEAN /\ stopped \in BOOLEAN
    /\ accept \in {"none", "armed", "ready", "failed"}
    /\ session \in [Conn -> {"none", "io", "held", "gone"}]
    /\ worker \in {"none", "busy"}
    /\ tui \in BOOLEAN /\ ioc \in BOOLEAN

\* While the server runs and no exception has ended its thread, an accept is
\* under way or about to be: neither an error nor a stop that raced with a
\* handler loses the loop early (doAccept).
Listens ==
    running /\ net # "dead" => accept # "none" \/ net \in {"again", "arm"}

\* Once join() has returned, the network thread is at its end: no handler
\* accepts, touches a session or pulls the trigger while main takes down TuiApp
\* and the io_context.
Quiet ==
    main \in {"locals", "app", "statics", "exited"} => net \in {"ended", "dead"}

\* Of the sessions, only one whose request was held for the user at the end
\* outlives the io_context; every other one is torn down with it.
OnlyHeldOutlive ==
    ~ioc => \A c \in Conn : session[c] \in {"none", "held", "gone"}

\* What ties the stages together.
Order ==
    /\ running <=> main \in {"ui", "stop"}
    /\ open <=> main \in {"ui", "stop", "close"}
    /\ ~stopped <=> main \in {"ui", "stop", "close", "halt"}
    /\ tui <=> main \notin {"app", "statics", "exited"}
    /\ ioc <=> main \notin {"statics", "exited"}
    /\ net = "ended" => stopped

ServerInv == ServerTypes /\ Listens /\ Quiet /\ OnlyHeldOutlive /\ Order

\* Quitting comes to an end whatever the network thread was doing: stop() waits
\* for one handler and for none of the operations.
Quits == main = "stop" ~> main = "exited"
=============================================================================
