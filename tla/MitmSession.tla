----------------------------- MODULE MitmSession -----------------------------
(***************************************************************************)
(* One MitmSession: a client's CONNECT that Session handed over, answered, *)
(* upgraded to TLS on both sides, and the HTTPS requests it carries.       *)
(*                                                                         *)
(* As in module Session, m.ops counts the asynchronous operations under    *)
(* way and m.done is the executor's queue of handlers ready to run, some   *)
(* of which run after close().  Here close() sets isClosed_, which every   *)
(* handler must look at first.  The operations are                         *)
(*   resolve, connect         towards the target                           *)
(*   tell                     a plain write of CONNECT's answer, 200 or 502 *)
(*   shakeClient, shakeUp     the two TLS handshakes                       *)
(*   readClient, writeClient, writeUp, readUp      within TLS              *)
(* A read brings "part" of a message, a whole request "plain", the 1 MiB   *)
(* limit "big", or a response: "keep" (keep-alive) or "last".              *)
(***************************************************************************)
EXTENDS Naturals, Sequences

CONSTANTS
    MaxReq,     \* bound: requests the client sends on the connection
    MaxReads    \* bound: other reads that bring data, from either side

ASSUME MitmAssumption == MaxReq \in Nat \ {0} /\ MaxReads \in Nat

VARIABLES
    m,          \* the MitmSession object, its streams, its pending handlers
    asked,      \* requests sent so far
    reads       \* other reads so far

env  == <<asked, reads>>
vars == <<m, asked, reads>>

ClientOps   == {"tell", "shakeClient", "readClient", "writeClient"}
UpstreamOps == {"connect", "shakeUp", "readUp", "writeUp"}
Ops         == ClientOps \cup UpstreamOps \cup {"resolve"}
TlsOps      == {"readClient", "writeClient", "readUp", "writeUp"}

Failed    == {"err", "eof", "aborted"}
Results   == Failed \cup {"ok", "plain", "part", "big", "keep", "last", "forward", "drop"}
Statuses  == {"response", "replayed", "502", "dropped"}
Chunk     == [id : Nat \ {0}, last : BOOLEAN]
Entry     == [id : Nat, status : Statuses]
Handler   == [op : Ops \cup {"timer", "decision"}, res : Results]

\* The fields: isClosed_, the two TLS streams made, the handshakes done,
\* closeAfterWrite_, the timer armed, the item held by InterceptManager, the
\* number of the transaction and of all so far, its response set,
\* upstreamData_ not empty, the lengths of the two write queues.
Object ==
    [closed : BOOLEAN, tls : BOOLEAN, client : BOOLEAN, up : BOOLEAN,
     caw : BOOLEAN, timer : BOOLEAN, held : BOOLEAN,
     id : Nat, n : Nat, resp : BOOLEAN, acc : BOOLEAN,
     wq : Nat, uq : {0, 1}, out : Seq(Chunk), log : Seq(Entry),
     done : Seq(Handler), ops : [Ops -> {0, 1}]]

TypeOK ==
    /\ m \in Object
    /\ m.id \in {0, m.n} /\ m.wq <= Len(m.out)
    /\ asked \in 0 .. MaxReq /\ reads \in 0 .. MaxReads

-----------------------------------------------------------------------------
(* What the handlers are built from: MitmSession to MitmSession *)

Completion(op, res) == [op |-> op, res |-> res]
Finish(t, op, res)  == [t EXCEPT !.done = Append(@, Completion(op, res))]
Start(t, op)        == [t EXCEPT !.ops[op] = @ + 1]

ResetTimer(t)  == [t EXCEPT !.timer = TRUE]
CancelTimer(t) == [t EXCEPT !.timer = FALSE]

\* What is under way on a socket that is closed completes as aborted; what has
\* completed already still runs its handler.
GiveUp(t, op) ==
    IF t.ops[op] = 0 THEN t ELSE Finish([t EXCEPT !.ops[op] = 0], op, "aborted")

GiveUpClient(t) ==
    GiveUp(GiveUp(GiveUp(GiveUp(t, "tell"), "shakeClient"), "readClient"), "writeClient")
GiveUpUpstream(t) ==
    GiveUp(GiveUp(GiveUp(GiveUp(t, "connect"), "shakeUp"), "readUp"), "writeUp")

\* Variant with a bug: the intercepted request is left in the queue.
CloseKeepsItem(t) ==
    IF t.closed THEN t
    ELSE GiveUpUpstream(GiveUpClient([CancelTimer(t) EXCEPT !.closed = TRUE]))

\* The resolver is not cancelled.
Close(t) ==
    IF t.closed THEN t
    ELSE GiveUpUpstream(GiveUpClient(
            [CancelTimer(t) EXCEPT !.closed = TRUE, !.held = @ /\ t.id = 0]))

\* Variant with a bug: a write is started although one is under way.
WriteClientAtOnce(t, chunk) ==
    Start([t EXCEPT !.wq = @ + 1, !.out = Append(@, chunk)], "writeClient")

WriteClient(t, chunk) ==
    LET u == [t EXCEPT !.wq = @ + 1, !.out = Append(@, chunk)]
    IN IF t.wq = 0 THEN Start(u, "writeClient") ELSE u

WriteUpstream(t) ==
    LET u == [t EXCEPT !.uq = @ + 1]
    IN IF t.uq = 0 THEN Start(u, "writeUp") ELSE u

LogAs(t, status) ==
    [t EXCEPT !.resp = TRUE, !.log = Append(@, [id |-> t.id, status |-> status])]

SendErrorResponse(t, status) ==
    LET u == [LogAs(t, status) EXCEPT !.caw = TRUE] IN
    IF t.client /\ t.tls THEN WriteClient(u, [id |-> t.id, last |-> TRUE])
    ELSE Start(u, "tell")

NewTransaction(t) == [t EXCEPT !.id = t.n + 1, !.n = t.n + 1]

-----------------------------------------------------------------------------
\* start() has armed the timer and begun to resolve the target.
Init ==
    /\ m = [closed |-> FALSE, tls |-> FALSE, client |-> FALSE, up |-> FALSE,
            caw |-> FALSE, timer |-> TRUE, held |-> FALSE,
            id |-> 0, n |-> 0, resp |-> FALSE, acc |-> FALSE,
            wq |-> 0, uq |-> 0, out |-> <<>>, log |-> <<>>, done |-> <<>>,
            ops |-> [op \in Ops |-> IF op = "resolve" THEN 1 ELSE 0]]
    /\ asked = 0 /\ reads = 0

(* The network, the timer and the user *)

Completes(op, res) ==
    /\ m.ops[op] > 0
    /\ m' = Finish([m EXCEPT !.ops[op] = @ - 1], op, res)

ClientSends ==
    /\ asked < MaxReq
    /\ Completes("readClient", "plain")
    /\ asked' = asked + 1
    /\ UNCHANGED reads

DataArrives ==
    /\ reads < MaxReads
    /\ \/ \E res \in {"part", "big"} : Completes("readClient", res)
       \/ \E res \in {"part", "keep", "last"} : Completes("readUp", res)
    /\ reads' = reads + 1
    /\ UNCHANGED asked

Succeeds ==
    /\ \E op \in Ops \ {"readClient", "readUp"} : Completes(op, "ok")
    /\ UNCHANGED env

Fails ==
    /\ \/ \E op \in Ops : Completes(op, "err")
       \/ Completes("readUp", "eof")
    /\ UNCHANGED env

TimerExpires ==
    /\ m.timer
    /\ m' = Finish(CancelTimer(m), "timer", "ok")
    /\ UNCHANGED env

Decide ==
    /\ m.held
    /\ \E act \in {"forward", "drop"} :
         m' = Finish([m EXCEPT !.held = FALSE], "decision", act)
    /\ UNCHANGED env

-----------------------------------------------------------------------------
(* The handlers: the executor takes the one at the head of its queue *)

Due(op) == m.done # <<>> /\ Head(m.done).op = op
Result  == Head(m.done).res
Ran     == [m EXCEPT !.done = Tail(@)]

\* Every handler begins with  if (isClosed_) return;
UnlessClosed(next) == m' = IF m.closed THEN Ran ELSE next

\* Variant with a bug: isClosed_ is not looked at.
HandleResolveUnchecked ==
    /\ Due("resolve")
    /\ m' = IF Result \in Failed THEN SendErrorResponse(Ran, "502") ELSE Start(Ran, "connect")
    /\ UNCHANGED env

HandleResolve ==
    /\ Due("resolve")
    /\ UnlessClosed(IF Result \in Failed THEN SendErrorResponse(Ran, "502")
                    ELSE Start(Ran, "connect"))
    /\ UNCHANGED env

HandleUpstreamConnect ==
    /\ Due("connect")
    /\ UnlessClosed(IF Result \in Failed THEN SendErrorResponse(Ran, "502")
                    ELSE Start(Ran, "tell"))
    /\ UNCHANGED env

\* There may be no certificate for the target.
StartTlsHandshakes(t) ==
    {Close(t), Start(Start([t EXCEPT !.tls = TRUE], "shakeClient"), "shakeUp")}

\* The write of a 502 was told apart by closeAfterWrite_.
HandleTold ==
    /\ Due("tell")
    /\ IF m.caw \/ m.closed \/ Result \in Failed THEN m' = Close(Ran)
       ELSE m' \in StartTlsHandshakes(Ran)
    /\ UNCHANGED env

\* Variant with a bug: the upstream handshake is not waited for.
HandleClientHandshakeAlone ==
    /\ Due("shakeClient")
    /\ UnlessClosed(IF Result \in Failed THEN Close(Ran)
                    ELSE Start([Ran EXCEPT !.client = TRUE], "readClient"))
    /\ UNCHANGED env

HandleClientHandshake ==
    /\ Due("shakeClient")
    /\ LET t == [Ran EXCEPT !.client = TRUE] IN
       UnlessClosed(IF Result \in Failed THEN Close(Ran)
                    ELSE IF m.up THEN Start(t, "readClient") ELSE t)
    /\ UNCHANGED env

HandleUpstreamHandshake ==
    /\ Due("shakeUp")
    /\ LET t == [Ran EXCEPT !.up = TRUE] IN
       UnlessClosed(IF Result \in Failed THEN Close(Ran)
                    ELSE IF m.client THEN Start(t, "readClient") ELSE t)
    /\ UNCHANGED env

\* Variant with a bug: a request that was intercepted is forwarded as well.
HandleClientReadBoth ==
    /\ Due("readClient")
    /\ LET t == NewTransaction(ResetTimer(Ran)) IN
       UnlessClosed(CASE Result \in Failed \cup {"big"} -> Close(Ran)
                      [] Result = "part"  -> Start(ResetTimer(Ran), "readClient")
                      [] Result = "plain" -> WriteUpstream([t EXCEPT !.held = TRUE]))
    /\ UNCHANGED env

HandleClientRead ==
    /\ Due("readClient")
    /\ LET t == NewTransaction(ResetTimer(Ran)) IN
       \/ m.closed                         /\ m' = Ran
       \/ ~m.closed /\ Result \in Failed   /\ m' = Close(Ran)
       \/ ~m.closed /\ Result = "part"     /\ m' = Start(ResetTimer(Ran), "readClient")
       \/ ~m.closed /\ Result = "big"      /\ m' = Close(ResetTimer(Ran))
       \/ ~m.closed /\ Result = "plain"    /\ \/ m' = WriteUpstream(t)
                                              \/ m' = [CancelTimer(t) EXCEPT !.held = TRUE]
    /\ UNCHANGED env

HandleDecision ==
    /\ Due("decision")
    /\ UnlessClosed(IF Result = "forward" THEN WriteUpstream(ResetTimer(Ran))
                    ELSE SendErrorResponse(ResetTimer(Ran), "dropped"))
    /\ UNCHANGED env

HandleUpstreamWrite ==
    /\ Due("writeUp")
    /\ LET t == [Ran EXCEPT !.uq = @ - 1] IN
       UnlessClosed(IF Result \in Failed THEN Close(Ran)
                    ELSE Start(t, IF t.uq > 0 THEN "writeUp" ELSE "readUp"))
    /\ UNCHANGED env

\* The parser is fed a second time what it has already been fed: a response
\* that was cut short may so be "completed", by its own first bytes.
EmitAtEof(t) ==
    IF Result = "eof" /\ ~t.resp /\ t.acc THEN {t, LogAs(t, "replayed")} ELSE {t}

\* currentTransaction_ = {}, parsers and buffers cleared.
NextRequest(t) ==
    Start([t EXCEPT !.id = 0, !.resp = FALSE, !.acc = FALSE], "readClient")

Relayed == WriteClient([ResetTimer(Ran) EXCEPT !.acc = TRUE],
                       [id |-> m.id, last |-> Result \in {"keep", "last"}])

\* Variants with a bug: the upstream is read on after the last response; the
\* next request is read before the response is complete.
HandleUpstreamReadOn ==
    /\ Due("readUp")
    /\ IF m.closed THEN m' = Ran
       ELSE \/ Result \in Failed /\ \E t \in EmitAtEof(Ran) : m' = Close(t)
            \/ Result = "part"   /\ m' = Start(Relayed, "readUp")
            \/ Result \in {"keep", "last"} /\ m' = Start(LogAs(Relayed, "response"), "readUp")
    /\ UNCHANGED env

HandleUpstreamReadEarly ==
    /\ Due("readUp")
    /\ IF m.closed THEN m' = Ran
       ELSE \/ Result \in Failed     /\ \E t \in EmitAtEof(Ran) : m' = Close(t)
            \/ Result \notin Failed  /\ m' = NextRequest(Relayed)
    /\ UNCHANGED env

HandleUpstreamRead ==
    /\ Due("readUp")
    /\ IF m.closed THEN m' = Ran
       ELSE \/ Result \in Failed /\ \E t \in EmitAtEof(Ran) : m' = Close(t)
            \/ Result = "part"   /\ m' = Start(Relayed, "readUp")
            \/ Result = "keep"   /\ m' = NextRequest(LogAs(Relayed, "response"))
            \/ Result = "last"   /\ m' = [LogAs(Relayed, "response") EXCEPT !.caw = TRUE]
    /\ UNCHANGED env

HandleClientWrite ==
    /\ Due("writeClient")
    /\ LET t == [Ran EXCEPT !.wq = @ - 1] IN
       UnlessClosed(IF Result \in Failed THEN Close(Ran)
                    ELSE IF t.wq > 0 THEN Start(t, "writeClient")
                    ELSE IF t.caw THEN Close(t) ELSE t)
    /\ UNCHANGED env

\* Variant with a bug: an idle connection is kept.
HandleTimeoutBusyOnly ==
    /\ Due("timer")
    /\ m' = IF m.id # 0 THEN Close(Ran) ELSE Ran
    /\ UNCHANGED env

\* It also runs when the timer was armed or cancelled after it was queued.
HandleTimeout == Due("timer") /\ m' = Close(Ran) /\ UNCHANGED env

-----------------------------------------------------------------------------
Handlers ==
    \/ HandleResolve \/ HandleUpstreamConnect \/ HandleTold
    \/ HandleClientHandshake \/ HandleUpstreamHandshake
    \/ HandleClientRead \/ HandleDecision \/ HandleUpstreamWrite \/ HandleUpstreamRead
    \/ HandleClientWrite \/ HandleTimeout

Environment == ClientSends \/ DataArrives \/ Succeeds \/ Fails \/ TimerExpires \/ Decide

Next == Handlers \/ Environment
Spec == Init /\ [][Next]_vars

\* As for Session: nothing is assumed of the network and of the user.
FairSpec == Spec /\ WF_vars(Handlers) /\ WF_vars(TimerExpires)

-----------------------------------------------------------------------------
(* Properties *)

\* An operation is live until its handler has run.
Queued(t, op) == \E i \in DOMAIN t.done : t.done[i].op = op
Live(t, op)   == (op \in Ops /\ t.ops[op] = 1) \/ Queued(t, op)
Paused        == m.held \/ Queued(m, "decision")

\* The layers of the connection are used in their order: nothing is written
\* plain once the sockets were moved into the TLS streams, and no decrypted
\* byte is read or written before both handshakes are done.
Layers ==
    /\ \A op \in {"resolve", "connect", "tell"} : Live(m, op) /\ ~m.closed => ~m.tls
    /\ \A op \in {"shakeClient", "shakeUp"} : Live(m, op) => m.tls
    /\ \A op \in TlsOps : Live(m, op) => m.client /\ m.up
    /\ Paused \/ m.id # 0 => m.client /\ m.up

\* No operation is started twice, nor again before its handler has run.
Once(t, op) ==
    /\ op \in Ops /\ t.ops[op] = 1 => ~Queued(t, op)
    /\ \A i, j \in DOMAIN t.done : t.done[i].op = op /\ t.done[j].op = op => i = j

\* The turn is in one place at a time, so that parsers, buffers and
\* currentTransaction_ are never shared by two requests, and no stream has two
\* reads or two writes under way.
Turn == {"resolve", "connect", "tell", "readClient", "writeUp", "readUp"}
OneTurn ==
    /\ \A a, b \in Turn : Live(m, a) /\ Live(m, b) => a = b
    /\ \A op \in Ops : Once(m, op)
    /\ Paused \/ Live(m, "shakeClient") \/ Live(m, "shakeUp") =>
         \A a \in Turn : ~Live(m, a)
    /\ Live(m, "writeClient") => m.wq > 0

\* An open session is never left unwatched: its timer is armed or has just
\* fired, or its request waits for the user; a closed one waits for nobody.
Watched ==
    IF m.closed THEN ~m.held /\ ~m.timer
    ELSE m.timer \/ Queued(m, "timer") \/ Paused

\* A request reaches the History tab at most once, in request order.
LogOnce ==
    \A i, j \in DOMAIN m.log : i < j => m.log[i].id < m.log[j].id

\* The client receives the answers in the order of its requests, each one
\* complete before the next begins.
StreamInOrder ==
    \A i, j \in DOMAIN m.out :
        i < j /\ m.out[i].id # m.out[j].id =>
            /\ m.out[i].id < m.out[j].id
            /\ \E k \in i .. (j - 1) : m.out[k].id = m.out[i].id /\ m.out[k].last

\* After close() the handlers still queued start nothing, log nothing, write
\* nothing, pause nothing and arm no timer.
OnlyDrains ==
    m.closed => /\ m'.closed
                /\ m'.log = m.log /\ m'.out = m.out
                /\ ~m'.held /\ ~m'.timer
                /\ \A op \in Ops : m'.ops[op] <= m.ops[op]
StaysClosed == [][OnlyDrains]_vars

\* Whatever the peers do or do not do, a session that does not wait for the
\* user is torn down once it is silent.
TornDown == []<>(m.closed \/ Paused)
=============================================================================
