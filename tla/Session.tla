------------------------------- MODULE Session -------------------------------
(***************************************************************************)
(* One Session: a client connection and the plain-HTTP requests (or the    *)
(* blind CONNECT tunnel) it carries, as the executor runs it.              *)
(*                                                                         *)
(* Every handler of a Session runs on the single io_context thread.  What  *)
(* makes it hard is between the handlers: an operation that has completed  *)
(* but whose handler has not run yet can no longer be cancelled, so a      *)
(* handler may run after close(), after another request began, or (the     *)
(* timer) after the timer was armed again.  s.ops counts the operations    *)
(* under way; s.done is the executor's queue of handlers ready to run.     *)
(*                                                                         *)
(* Data is reduced to what the control flow looks at.  What a read brings  *)
(* is part of its completion:                                              *)
(*   readClient  "part" bytes that complete no request (or tunnel bytes),  *)
(*               "big" the 64 KiB limit, "connect", "nohost", "page" (the  *)
(*               CA pages), "plain" a request to proxy                     *)
(*   readUp      "part", or a complete response: "keep" (the connection is *)
(*               kept alive) or "last"                                     *)
(***************************************************************************)
EXTENDS Naturals, Sequences

CONSTANTS
    MaxReq,     \* bound: requests the client sends on the connection
    MaxReads    \* bound: other reads that bring data, from either side

ASSUME SessionAssumption == MaxReq \in Nat \ {0} /\ MaxReads \in Nat

VARIABLES
    s,          \* the Session object, its sockets, its pending handlers
    mitm,       \* certCache_ is set: CONNECT is handed to a MitmSession
    asked,      \* requests sent so far
    reads       \* other reads so far

env  == <<mitm, asked, reads>>
vars == <<s, mitm, asked, reads>>

ClientOps == {"readClient", "writeClient"}
ServerOps == {"readUp", "connect", "writeUp", "writeSrv"}
Ops       == ClientOps \cup ServerOps \cup {"resolve"}

Requests == {"connect", "nohost", "page", "plain"}
Failed   == {"err", "eof", "aborted"}
Results  == Requests \cup Failed \cup {"ok", "part", "big", "keep", "last", "forward", "drop"}

Statuses == {"tunnel", "response", "page", "400", "500", "502", "504", "dropped"}
Entry    == [id : Nat, status : Statuses]
\* What is written for the client, whether it completes the answer to request
\* id, and what it is part of: the upstream's "response", the "tunnel", or one
\* of the proxy's own pages.
Chunk    == [id : Nat, last : BOOLEAN, status : Statuses]
Handler  == [op : Ops \cup {"timer", "decision"}, res : Results]

\* The fields: the client socket (moved: into a MitmSession), the upstream
\* socket open, the timer armed, the item held by InterceptManager, the number
\* of the transaction and of all so far, its response set, isConnect_,
\* closeAfterWrite_, all chunks queued for the client and how many of them are
\* still in writeQueue_, the length of writeServerQueue_.
Object ==
    [cli : {"open", "closed", "moved"}, srv : BOOLEAN, timer : BOOLEAN, held : BOOLEAN,
     id : Nat, n : Nat, resp : BOOLEAN, tunnel : BOOLEAN, caw : BOOLEAN,
     out : Seq(Chunk), wq : Nat, swq : Nat, log : Seq(Entry),
     done : Seq(Handler), ops : [Ops -> {0, 1}]]

TypeOK ==
    /\ s \in Object
    /\ s.id \in {0, s.n} /\ s.wq <= Len(s.out)
    /\ mitm \in BOOLEAN /\ asked \in 0 .. MaxReq /\ reads \in 0 .. MaxReads

-----------------------------------------------------------------------------
(* Asynchronous operations, and the functions of Session that start or     *)
(* cancel them: each maps the Session to what it is afterwards.            *)

Completion(op, res) == [op |-> op, res |-> res]
Finish(t, op, res)  == [t EXCEPT !.done = Append(@, Completion(op, res))]

Usable(t, op) ==
    CASE op \in ClientOps                -> t.cli = "open"
      [] op \in ServerOps \ {"connect"}  -> t.srv
      [] OTHER                           -> TRUE

\* On a socket that is not open an operation fails at once.
Start(t, op) ==
    IF ~Usable(t, op) THEN Finish(t, op, "err")
    ELSE [t EXCEPT !.ops[op] = @ + 1, !.srv = @ \/ op = "connect"]

\* What is under way on a socket that is closed completes as aborted; what has
\* completed already is not affected.
GiveUp(t, op) ==
    IF t.ops[op] = 0 THEN t ELSE Finish([t EXCEPT !.ops[op] = 0], op, "aborted")

GiveUpClient(t) == GiveUp(GiveUp(t, "readClient"), "writeClient")
GiveUpServer(t) ==
    GiveUp(GiveUp(GiveUp(GiveUp(t, "readUp"), "connect"), "writeUp"), "writeSrv")

ResetTimer(t)  == [t EXCEPT !.timer = TRUE]
CancelTimer(t) == [t EXCEPT !.timer = FALSE]

CloseServer(t) ==
    IF t.srv THEN GiveUpServer([t EXCEPT !.srv = FALSE]) ELSE t
CloseClient(t) ==
    IF t.cli = "open" THEN GiveUpClient([t EXCEPT !.cli = "closed"]) ELSE t

\* Variant with a bug: the upstream socket is left open.
CloseClientOnly(t) ==
    CloseClient([CancelTimer(t) EXCEPT !.held = @ /\ t.id = 0])

\* close() leaves the resolver alone.
Close(t) ==
    CloseServer(CloseClient([CancelTimer(t) EXCEPT !.held = @ /\ t.id = 0]))

\* Variant with a bug: a write is started although one is under way.
WriteClientAtOnce(t, chunk) ==
    Start([t EXCEPT !.wq = @ + 1, !.out = Append(@, chunk)], "writeClient")

WriteClient(t, chunk) ==
    LET u == [t EXCEPT !.wq = @ + 1, !.out = Append(@, chunk)]
    IN IF t.wq = 0 THEN Start(u, "writeClient") ELSE u

WriteServerBlind(t) ==
    LET u == [t EXCEPT !.swq = @ + 1]
    IN IF t.swq = 0 THEN Start(u, "writeSrv") ELSE u

\* Every caller sets currentTransaction_.response before onTransaction_.
LogAs(t, status) ==
    [t EXCEPT !.resp = TRUE, !.log = Append(@, [id |-> t.id, status |-> status])]

\* Variant with a bug: the connection is not closed after the page.
SendPageAndStay(t, status) ==
    WriteClient(LogAs(t, status), [id |-> t.id, last |-> TRUE, status |-> status])

\* sendErrorResponse, serveCaCert, serveBurpHelpPage: log, answer, close.
SendPage(t, status) ==
    WriteClient([LogAs(t, status) EXCEPT !.caw = TRUE], [id |-> t.id, last |-> TRUE, status |-> status])

ConnectUpstream(t) == Start(t, "resolve")

ForwardRequest(t) ==
    IF t.cli # "open" THEN t ELSE ConnectUpstream(CloseServer(t))

-----------------------------------------------------------------------------
Init ==
    /\ s = [cli |-> "open", srv |-> FALSE, timer |-> TRUE,
            ops |-> [op \in Ops |-> IF op = "readClient" THEN 1 ELSE 0],
            done |-> <<>>, held |-> FALSE,
            id |-> 0, n |-> 0, resp |-> FALSE, tunnel |-> FALSE,
            caw |-> FALSE, out |-> <<>>, wq |-> 0, swq |-> 0, log |-> <<>>]
    /\ mitm \in BOOLEAN
    /\ asked = 0 /\ reads = 0

(* The network, the timer and the user *)

Completes(op, res) ==
    /\ s.ops[op] > 0
    /\ s' = Finish([s EXCEPT !.ops[op] = @ - 1], op, res)
    /\ UNCHANGED mitm

ClientSends ==
    \E res \in Requests :
        /\ asked < MaxReq /\ ~s.tunnel
        /\ Completes("readClient", res)
        /\ asked' = asked + 1
        /\ UNCHANGED reads

DataArrives ==
    /\ reads < MaxReads
    /\ \/ Completes("readClient", "part")
       \/ ~s.tunnel /\ Completes("readClient", "big")
       \/ Completes("readUp", "part")
       \/ ~s.tunnel /\ \E res \in {"keep", "last"} : Completes("readUp", res)
    /\ reads' = reads + 1
    /\ UNCHANGED asked

Succeeds ==
    /\ \E op \in Ops \ {"readClient", "readUp"} : Completes(op, "ok")
    /\ UNCHANGED <<asked, reads>>

Fails ==
    /\ \/ \E op \in Ops : Completes(op, "err")
       \/ Completes("readUp", "eof")
    /\ UNCHANGED <<asked, reads>>

TimerExpires ==
    /\ s.timer
    /\ s' = Finish(CancelTimer(s), "timer", "ok")
    /\ UNCHANGED env

\* InterceptManager takes the item and calls onDecision, which posts.
Decide ==
    /\ s.held
    /\ \E act \in {"forward", "drop"} :
         s' = Finish([s EXCEPT !.held = FALSE], "decision", act)
    /\ UNCHANGED env

-----------------------------------------------------------------------------
(* The handlers: the executor takes the one at the head of its queue *)

Due(op) == s.done # <<>> /\ Head(s.done).op = op
Result  == Head(s.done).res
Ran     == [s EXCEPT !.done = Tail(@)]

NewTransaction(t) == [t EXCEPT !.id = t.n + 1, !.n = t.n + 1]

\* CONNECT is logged as established before anything else happens.
AcceptConnect(t) ==
    LET u == LogAs(t, "tunnel")
    IN IF mitm THEN [CancelTimer(u) EXCEPT !.cli = "moved"]
       ELSE ConnectUpstream([u EXCEPT !.tunnel = TRUE])

HandleClientRead ==
    /\ Due("readClient")
    /\ LET t == ResetTimer(Ran) IN
       \/ Result \in Failed    /\ s' = Close(Ran)
       \/ Result = "part"      /\ s' = Start(IF t.tunnel THEN WriteServerBlind(t) ELSE t,
                                             "readClient")
       \/ Result = "big"       /\ s' = SendPage(t, "400")
       \/ Result = "connect"   /\ s' = AcceptConnect(NewTransaction(t))
       \/ Result = "nohost"    /\ s' = SendPage(NewTransaction(t), "400")
       \/ Result = "page"      /\ \E st \in {"page", "500"} :
                                    s' = SendPage(NewTransaction(t), st)
       \/ Result = "plain"     /\ \/ s' = ForwardRequest(NewTransaction(t))
                                  \/ s' = [CancelTimer(NewTransaction(t)) EXCEPT !.held = TRUE]
    /\ UNCHANGED env

\* Cancelling does not stop a lookup the resolver thread has begun, nor a
\* connect that has another endpoint to go on to.
CancelUpstream(t) ==
    LET u == GiveUp(GiveUp(GiveUp(t, "readUp"), "writeUp"), "writeSrv")
    IN {u, GiveUp(GiveUp(u, "resolve"), "connect")}

\* Variant with a bug: a request that was answered is not told apart.
HandleTimeoutAnswered ==
    /\ Due("timer")
    /\ IF s.id # 0 /\ ~s.tunnel
       THEN \E t \in CancelUpstream(Ran) : s' = SendPage(t, "504")
       ELSE s' = Close(Ran)
    /\ UNCHANGED env

\* The expiry handler, which also runs when the timer was armed or cancelled
\* after it was queued.
HandleTimeout ==
    /\ Due("timer")
    /\ IF s.id # 0 /\ ~s.resp /\ ~s.tunnel
       THEN \E t \in CancelUpstream(Ran) : s' = SendPage(t, "504")
       ELSE s' = Close(Ran)
    /\ UNCHANGED env

\* Variant with a bug: the timer is not armed again.
HandleDecisionNoTimer ==
    /\ Due("decision")
    /\ s' = IF s.cli # "open" THEN Ran
            ELSE IF Result = "forward" THEN ForwardRequest(Ran)
            ELSE SendPage(Ran, "dropped")
    /\ UNCHANGED env

HandleDecision ==
    /\ Due("decision")
    /\ s' = IF s.cli # "open" THEN Ran
            ELSE IF Result = "forward" THEN ForwardRequest(ResetTimer(Ran))
            ELSE SendPage(ResetTimer(Ran), "dropped")
    /\ UNCHANGED env

HandleResolve ==
    /\ Due("resolve")
    /\ s' = IF Result \in Failed THEN SendPage(Ran, "502") ELSE Start(Ran, "connect")
    /\ UNCHANGED env

HandleUpstreamConnect ==
    /\ Due("connect")
    /\ s' = IF Result \in Failed THEN SendPage(Ran, "502")
            ELSE IF s.tunnel
            THEN Start(Start(WriteClient(Ran, [id |-> s.id, last |-> FALSE, status |-> "tunnel"]),
                             "readClient"), "readUp")
            ELSE Start(Ran, "writeUp")
    /\ UNCHANGED env

HandleUpstreamWrite ==
    /\ Due("writeUp")
    /\ s' = IF Result \in Failed THEN SendPage(Ran, "502") ELSE Start(Ran, "readUp")
    /\ UNCHANGED env

\* Variant with a bug: the upstream is read on after a complete response.
NextRequestReadsOn(t) ==
    Start(Start([t EXCEPT !.id = 0, !.resp = FALSE, !.tunnel = FALSE], "readClient"), "readUp")

\* currentTransaction_ = {} and the parser reset, then the next request.
NextRequest(t) ==
    Start([t EXCEPT !.id = 0, !.resp = FALSE, !.tunnel = FALSE], "readClient")

\* Variant with a bug: the client is asked for its next request at once.
HandleUpstreamReadEarly ==
    /\ Due("readUp")
    /\ LET t == WriteClient(ResetTimer(Ran),
                            [id |-> s.id, last |-> FALSE, status |-> "response"]) IN
       s' = IF Result \in Failed THEN Close(Ran) ELSE NextRequest(t)
    /\ UNCHANGED env

\* serverData_ was cleared when the request had been written, so the end of
\* the stream has nothing to feed to the parser.
HandleUpstreamRead ==
    /\ Due("readUp")
    /\ LET t == WriteClient(ResetTimer(Ran),
                            [id |-> s.id, last |-> Result \in {"keep", "last"},
                             status |-> "response"]) IN
       \/ Result \in Failed /\ s' = Close(Ran)
       \/ Result = "part"   /\ s' = Start(t, "readUp")
       \/ Result = "keep"   /\ s' = NextRequest(LogAs(t, "response"))
       \/ Result = "last"   /\ s' = [LogAs(t, "response") EXCEPT !.caw = TRUE]
    /\ UNCHANGED env

HandleClientWrite ==
    /\ Due("writeClient")
    /\ LET t == [Ran EXCEPT !.wq = @ - 1] IN
       s' = IF Result \in Failed THEN Close(Ran)
            ELSE IF t.wq > 0 THEN Start(t, "writeClient")
            ELSE IF t.caw THEN Close(t) ELSE t
    /\ UNCHANGED env

HandleServerWrite ==
    /\ Due("writeSrv")
    /\ LET t == [Ran EXCEPT !.swq = @ - 1] IN
       s' = CASE Result = "ok"      -> IF t.swq > 0 THEN Start(t, "writeSrv") ELSE t
              [] Result = "aborted" -> Ran
              [] OTHER              -> Close(Ran)
    /\ UNCHANGED env

\* The last handler that held the shared_ptr is gone: ~Session closes.
Unreferenced == s.done = <<>> /\ ~s.timer /\ ~s.held /\ \A op \in Ops : s.ops[op] = 0
Destroy ==
    /\ Unreferenced
    /\ s.cli = "open" \/ s.srv
    /\ s' = Close(s)
    /\ UNCHANGED env

-----------------------------------------------------------------------------
Handlers ==
    \/ HandleClientRead \/ HandleTimeout \/ HandleDecision \/ HandleResolve
    \/ HandleUpstreamConnect \/ HandleUpstreamWrite \/ HandleUpstreamRead
    \/ HandleClientWrite \/ HandleServerWrite \/ Destroy

Environment == ClientSends \/ DataArrives \/ Succeeds \/ Fails \/ TimerExpires \/ Decide

Next == Handlers \/ Environment
Spec == Init /\ [][Next]_vars

\* The executor runs what is ready and an armed timer expires.  Nothing is
\* assumed of the client, the upstream server, the resolver or the user.
FairSpec == Spec /\ WF_vars(Handlers) /\ WF_vars(TimerExpires)

-----------------------------------------------------------------------------
(* Properties *)

\* An operation is live until its handler has run.
Queued(t, op) == \E i \in DOMAIN t.done : t.done[i].op = op
Live(t, op)   == (op \in Ops /\ t.ops[op] = 1) \/ Queued(t, op)
Paused        == s.held \/ Queued(s, "decision")

\* No operation is started twice, nor again before its handler has run.
Once(t, op) ==
    /\ op \in Ops /\ t.ops[op] = 1 => ~Queued(t, op)
    /\ \A i, j \in DOMAIN t.done : t.done[i].op = op /\ t.done[j].op = op => i = j

\* The request/response turn is in one place at a time: reading the client,
\* held, resolving, connecting, writing or reading upstream.  Two of them at
\* once would share parser_, currentTransaction_ and the buffers.  (A tunnel
\* reads both sides at once.)
Turn == {"readClient", "resolve", "connect", "writeUp", "readUp"}
OneTurn ==
    /\ \A a, b \in Turn :
         Live(s, a) /\ Live(s, b) => a = b \/ (s.tunnel /\ {a, b} = {"readClient", "readUp"})
    /\ \A op \in Ops : Once(s, op)
    /\ Paused => \A a \in Turn : ~Live(s, a)
    /\ Live(s, "writeClient") => s.wq > 0
    /\ Live(s, "writeSrv") => s.swq > 0

\* An open connection is never left unwatched: its timer is armed or has just
\* fired, or its request waits for the user, or its last page is being written.
Watched ==
    s.cli = "open" =>
        s.timer \/ Queued(s, "timer") \/ Paused \/ (s.caw /\ Live(s, "writeClient"))

\* The client receives the answers in the order of its requests, each one
\* complete before the next begins, however writes and reads interleave.  Within
\* one request only the timeout breaks the rule: its 504 page may cut into a
\* response that was partly relayed (handleTimeout asks whether the response was
\* parsed to its end, not whether some of it was sent), and what was under way
\* may follow it.  No other page is put into a response, and nothing follows an
\* answer that is complete.
Relayed == {"tunnel", "response"}
StreamInOrder ==
    \A i, j \in DOMAIN s.out : i < j =>
        LET c == s.out[i]
            d == s.out[j]
        IN  IF c.id = d.id
            THEN c.status = "504" \/ (~c.last /\ d.status \in Relayed \cup {"504"})
            ELSE /\ c.id < d.id \/ d.id = 0
                 /\ \E k \in i .. (j - 1) : s.out[k].id = c.id /\ s.out[k].last

\* A request reaches the History tab twice only if the first entry was the
\* CONNECT or the 504, and never three times; entries are in request order.
LogShape ==
    \A i, j \in DOMAIN s.log :
        i < j /\ s.log[j].id # 0 =>
            /\ s.log[i].id <= s.log[j].id
            /\ s.log[i].id = s.log[j].id => /\ s.log[i].status \in {"tunnel", "504"}
                                            /\ j = i + 1

\* An accepted request that interception does not hold is logged, or its
\* connection is given up: resolver, upstream and client may all stay silent.
Logged(r) == \E i \in DOMAIN s.log : s.log[i].id = r
Answered ==
    \A r \in 1 .. MaxReq :
        (s.id = r /\ ~s.held) ~> (Logged(r) \/ s.cli # "open" \/ s.held)

\* "If a keep-alive connection remains idle beyond a specific threshold, safely
\* close both client and upstream sockets and cleanly destroy the session."
IdleTornDown ==
    (s.cli = "open" /\ s.id = 0) ~> (s.id # 0 \/ (Unreferenced /\ s.cli # "open" /\ ~s.srv))

\* When the server closes the connection, "if we haven't parsed a response
\* yet, feed what we have and emit it": a request some of whose response was
\* relayed does not leave the session unlogged when upstream ends the stream.
RelayedSome == \E i \in DOMAIN s.out : s.out[i].id = s.id
EmittedAtEof ==
    [][HandleUpstreamRead /\ Result = "eof" /\ ~s.tunnel /\ ~s.resp /\ RelayedSome
         => s'.resp /\ Logged(s.id)']_vars
=============================================================================
