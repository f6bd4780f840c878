---------------------------- MODULE SessionProofs ----------------------------
(***************************************************************************)
(* Proofs about module Session, for every number of requests and reads.    *)
(*                                                                         *)
(* The first part deals with the executor: what is live after a handler    *)
(* was queued, taken, started or given up.  The second states the          *)
(* inductive invariant: Core, which says nothing of the sockets and so     *)
(* survives close(); Flows and Watches, about a connection that is still   *)
(* open; and Answers, what the chunks of one answer may look like, which   *)
(* need not hold in the middle of a handler.                               *)
(* The third goes through the functions of Session, the last through its   *)
(* handlers.                                                               *)
(***************************************************************************)
EXTENDS Session, TLAPS

-----------------------------------------------------------------------------
(* What the executor's queue and the operations under way tell *)

All    == Ops \cup {"timer", "decision"}
Places == Turn \cup {"decision"}

AllOnce(t) == \A op \in Ops \cup {"decision"} : Once(t, op)

\* Nothing that only an HTTP turn reads is waiting for its handler.
Tame(t) ==
    \A i \in DOMAIN t.done :
        t.done[i].op \in {"readClient", "readUp"} => t.done[i].res \in Failed \cup {"part"}

\* What neither the executor nor close() writes; what close() does.
Data(t, u) ==
    /\ u.id = t.id /\ u.n = t.n /\ u.resp = t.resp /\ u.tunnel = t.tunnel
    /\ u.out = t.out /\ u.wq = t.wq /\ u.swq = t.swq /\ u.log = t.log
Flags(t, u) == u.cli = t.cli /\ u.timer = t.timer /\ u.held = t.held /\ u.caw = t.caw

-----------------------------------------------------------------------------
(* The inductive invariant *)

\* A tunnel reads both sides at once.
BothSides(t, a, b) == t.tunnel /\ {a, b} = {"readClient", "readUp"}

\* The turn, the user's decision and the pause before it exclude each other.
OnePlace(t) ==
    /\ \A a, b \in Places : Live(t, a) /\ Live(t, b) => a = b \/ BothSides(t, a, b)
    /\ t.held => \A a \in Places : ~Live(t, a)
    /\ t.tunnel => Tame(t) /\ ~t.held /\ ~Live(t, "decision") /\ ~Live(t, "writeUp")

\* A transaction is under way in u's places but for the reading of a request.
Serving(t) ==
    \/ t.held
    \/ \E a \in {"decision", "resolve", "connect", "writeUp", "readUp"} : Live(t, a)

Transactions(t) ==
    /\ t.id \in {0, t.n}
    /\ t.tunnel \/ Serving(t) => t.id # 0
    /\ ~t.tunnel /\ Live(t, "readClient") => t.id = 0 /\ ~t.resp

Writes(t) ==
    /\ t.wq <= Len(t.out)
    /\ Live(t, "writeClient") => t.wq > 0
    /\ Live(t, "writeSrv") => t.swq > 0

Shape(log) ==
    \A i, j \in DOMAIN log :
        i < j /\ log[j].id # 0 =>
            /\ log[i].id <= log[j].id
            /\ log[i].id = log[j].id => log[i].status \in {"tunnel", "504"} /\ j = i + 1

\* The log ends with an entry of the transaction that admits another one.
Reopened(log, id) ==
    /\ log # <<>>
    /\ log[Len(log)].id = id /\ log[Len(log)].status \in {"tunnel", "504"}
    /\ \A i \in DOMAIN log : i < Len(log) => log[i].id < id

\* A transaction that may be logged is not in the log, or may be again.
Loggable(t) ==
    IF t.resp THEN Reopened(t.log, t.id) ELSE \A i \in DOMAIN t.log : t.log[i].id < t.id

Entries(t) ==
    /\ \A i \in DOMAIN t.log : t.log[i].id <= t.n
    /\ Shape(t.log)
    /\ t.id # 0 /\ (Serving(t) \/ ~t.resp) => Loggable(t)

InOrder(out) ==
    \A i, j \in DOMAIN out :
        i < j /\ out[i].id # out[j].id =>
            /\ out[i].id < out[j].id \/ out[j].id = 0
            /\ \E k \in i .. (j - 1) : out[k].id = out[i].id /\ out[k].last

\* Every answer but the one to the open transaction is complete.
Complete(out, id) ==
    \A i \in DOMAIN out : out[i].id # id \/ id = 0 =>
        \E k \in i .. Len(out) : out[k].id = out[i].id /\ out[k].last

Bounded(out, n) == \A i \in DOMAIN out : out[i].id <= n

Stream(t) ==
    /\ Bounded(t.out, t.n)
    /\ InOrder(t.out)
    /\ Complete(t.out, t.id)

Core(t) ==
    /\ t \in Object /\ AllOnce(t)
    /\ OnePlace(t) /\ Transactions(t) /\ Writes(t) /\ Entries(t) /\ Stream(t)

\* Of an open connection: what is queued for the client is being written, and
\* something will end the wait.
Flows(t)   == t.cli = "open" /\ t.wq > 0 => Live(t, "writeClient")
Watches(t) ==
    t.cli = "open" =>
        \/ t.timer \/ Live(t, "timer") \/ t.held \/ Live(t, "decision")
        \/ t.caw /\ Live(t, "writeClient")

Inner(t) == Core(t) /\ Flows(t) /\ Watches(t)

\* Nothing follows a chunk of the same answer but what was under way, or a 504.
Unbroken(out) ==
    \A i, j \in DOMAIN out :
        i < j /\ out[i].id = out[j].id =>
            out[i].status = "504" \/ (~out[i].last /\ out[j].status \in Relayed \cup {"504"})

\* No answer to transaction id has begun, but perhaps the 504; none is complete.
Fresh(out, id) ==
    \A i \in DOMAIN out : out[i].id # 0 /\ (out[i].id = id => out[i].status = "504")
Open(out, id) ==
    \A i \in DOMAIN out :
        out[i].id # 0 /\ (out[i].id = id => out[i].status = "504" \/ ~out[i].last)

\* The turn is before the first read of the response.
Asking(t) ==
    \/ t.held
    \/ ~t.tunnel /\ Live(t, "readClient")
    \/ \E a \in {"decision", "resolve", "connect", "writeUp"} : Live(t, a)

Answers(t) ==
    /\ Unbroken(t.out)
    /\ Asking(t) => Fresh(t.out, t.id)
    /\ Live(t, "readUp") \/ (t.id # 0 /\ ~t.resp) => Open(t.out, t.id)

IInv ==
    /\ Inner(s) /\ Answers(s)
    /\ mitm \in BOOLEAN /\ asked \in 0 .. MaxReq /\ reads \in 0 .. MaxReads

-----------------------------------------------------------------------------
(* The executor *)

\* A handler put into the executor's queue.
LEMMA FinishFacts ==
    ASSUME NEW t \in Object, AllOnce(t), NEW op \in All, NEW res \in Results,
           NEW ops \in [Ops -> {0, 1}],
           \A o \in Ops \ {op} : ops[o] = t.ops[o],
           op \in Ops => ops[op] = 0,
           op # "timer" => ~Queued(t, op),
           NEW u, u = Finish([t EXCEPT !.ops = ops], op, res)
    PROVE  /\ u \in Object /\ AllOnce(u)
           /\ \A o \in All : Live(u, o) <=> Live(t, o) \/ o = op
           /\ Data(t, u) /\ Flags(t, u)
           /\ op \notin {"readClient", "readUp"} \/ res \in Failed \cup {"part"} =>
                (Tame(t) => Tame(u))
<1> DEFINE c == Completion(op, res)
<1>1. c \in Handler /\ c.op = op
  BY DEF Completion, Handler, All
<1>2. /\ u.done = Append(t.done, c) /\ u.ops = ops
      /\ u \in Object /\ Data(t, u) /\ Flags(t, u)
  <2>1. t.done \in Seq(Handler) /\ Append(t.done, c) \in Seq(Handler)
    BY <1>1 DEF Object
  <2>2. u = [[t EXCEPT !.ops = ops] EXCEPT !.done = Append(t.done, c)]
    BY DEF Finish, Object
  <2> HIDE DEF c
  <2>3. u.done = Append(t.done, c) /\ u.ops = ops /\ u \in Object
    BY <2>1, <2>2 DEF Object
  <2>4. Data(t, u) /\ Flags(t, u)
    BY <2>1, <2>2 DEF Object, Data, Flags
  <2> QED
    BY <2>3, <2>4
<1> HIDE DEF c
<1>3. /\ t.done \in Seq(Handler) /\ Len(t.done) \in Nat
      /\ Len(u.done) = Len(t.done) + 1
      /\ DOMAIN t.done = 1 .. Len(t.done) /\ DOMAIN u.done = 1 .. Len(t.done) + 1
      /\ \A i \in 1 .. Len(t.done) : u.done[i] = t.done[i]
      /\ u.done[Len(t.done) + 1] = c
  <2>1. t.done \in Seq(Handler) /\ c \in Handler /\ u.done = Append(t.done, c)
    BY <1>1, <1>2 DEF Object
  <2> HIDE DEF c
  <2>2. PICK q : q = t.done
    OBVIOUS
  <2>3. PICK v : v = u.done
    OBVIOUS
  <2>4. q \in Seq(Handler) /\ v = Append(q, c) /\ c \in Handler
    BY <2>1, <2>2, <2>3
  <2>5. /\ Len(q) \in Nat /\ DOMAIN q = 1 .. Len(q)
        /\ Len(v) = Len(q) + 1 /\ DOMAIN v = 1 .. Len(q) + 1
        /\ \A i \in 1 .. Len(q) : v[i] = q[i]
        /\ v[Len(q) + 1] = c
    BY <2>4
  <2> QED
    BY <2>2, <2>3, <2>4, <2>5
<1>4. \A o : Queued(u, o) <=> Queued(t, o) \/ o = op
  <2>1. ASSUME NEW o, Queued(u, o) PROVE Queued(t, o) \/ o = op
    <3>1. PICK i \in 1 .. Len(t.done) + 1 : u.done[i].op = o
      BY <1>3, <2>1 DEF Queued
    <3>2. CASE i = Len(t.done) + 1
      BY <1>1, <1>3, <3>1, <3>2
    <3>3. CASE i # Len(t.done) + 1
      <4>1. i \in 1 .. Len(t.done)
        BY <1>3, <3>3
      <4> QED
        BY <1>3, <3>1, <4>1 DEF Queued
    <3> QED
      BY <3>2, <3>3
  <2>2. ASSUME NEW o, Queued(t, o) PROVE Queued(u, o)
    <3>1. PICK i \in 1 .. Len(t.done) : t.done[i].op = o
      BY <1>3, <2>2 DEF Queued
    <3>2. i \in 1 .. Len(t.done) + 1 /\ u.done[i].op = o
      BY <1>3, <3>1
    <3> QED
      BY <1>3, <3>2 DEF Queued
  <2>3. Queued(u, op)
    <3>1. Len(t.done) + 1 \in 1 .. Len(t.done) + 1 /\ u.done[Len(t.done) + 1].op = op
      BY <1>1, <1>3
    <3> QED
      BY <1>3, <3>1 DEF Queued
  <2> QED
    BY <2>1, <2>2, <2>3
<1>5. \A o \in All : Live(u, o) <=> Live(t, o) \/ o = op
  BY <1>2, <1>4 DEF Live, All
<1>6. AllOnce(u)
  <2> SUFFICES ASSUME NEW o \in Ops \cup {"decision"} PROVE Once(u, o)
    BY DEF AllOnce
  <2>1. Once(t, o)
    BY DEF AllOnce
  <2>2. CASE o # op
    <3>1. u.ops[o] = t.ops[o] \/ o \notin Ops
      BY <1>2, <2>2
    <3>2. ASSUME NEW i \in DOMAIN u.done, NEW j \in DOMAIN u.done,
                 u.done[i].op = o, u.done[j].op = o
          PROVE  i = j
      <4>1. i \in 1 .. Len(t.done) /\ j \in 1 .. Len(t.done)
        <5>1. i \in 1 .. Len(t.done) + 1 /\ j \in 1 .. Len(t.done) + 1
          BY <1>3
        <5>2. i # Len(t.done) + 1 /\ j # Len(t.done) + 1
          BY <1>1, <1>3, <2>2, <3>2
        <5> QED
          BY <1>3, <5>1, <5>2
      <4> QED
        BY <1>3, <2>1, <3>2, <4>1 DEF Once
    <3> QED
      BY <1>4, <2>1, <2>2, <3>1, <3>2 DEF Once
  <2>3. CASE o = op
    <3>1. ~Queued(t, op)
      BY <2>3 DEF Ops, ClientOps, ServerOps
    <3> QED
      <4>1. o \in Ops => u.ops[o] = 0
        BY <1>2, <2>3
      <4>2. \A i \in 1 .. Len(t.done) : u.done[i].op # o
        BY <1>3, <2>3, <3>1 DEF Queued
      <4>3. \A i \in DOMAIN u.done : u.done[i].op = o => i = Len(t.done) + 1
        BY <1>3, <4>2
      <4> QED
        BY <4>1, <4>3 DEF Once
  <2> QED
    BY <2>2, <2>3
<1>7. op \notin {"readClient", "readUp"} \/ res \in Failed \cup {"part"} =>
         (Tame(t) => Tame(u))
  <2>1. c.res = res
    BY DEF c, Completion
  <2> SUFFICES ASSUME op \notin {"readClient", "readUp"} \/ res \in Failed \cup {"part"},
                      Tame(t), NEW i \in DOMAIN u.done,
                      u.done[i].op \in {"readClient", "readUp"}
               PROVE  u.done[i].res \in Failed \cup {"part"}
    BY DEF Tame
  <2>2. CASE i = Len(t.done) + 1
    BY <1>1, <1>3, <2>1, <2>2
  <2>3. CASE i # Len(t.done) + 1
    <3>1. i \in DOMAIN t.done
      BY <1>3, <2>3
    <3>2. u.done[i] = t.done[i]
      BY <1>3, <3>1
    <3> QED
      BY <3>1, <3>2 DEF Tame
  <2> QED
    BY <2>2, <2>3
<1> QED
  BY <1>2, <1>5, <1>6, <1>7

\* The handler at the head of the queue is taken.
LEMMA RanFacts ==
    ASSUME NEW t \in Object, AllOnce(t), t.done # <<>>,
           NEW u, u = [t EXCEPT !.done = Tail(@)]
    PROVE  /\ u \in Object /\ AllOnce(u)
           /\ Head(t.done).op \in All /\ Head(t.done).res \in Results
           /\ Live(t, Head(t.done).op)
           /\ \A o \in All \ {"timer"} : Live(u, o) <=> Live(t, o) /\ o # Head(t.done).op
           /\ Head(t.done).op # "timer" => (Live(u, "timer") <=> Live(t, "timer"))
           /\ Tame(t) => Tame(u) /\ (Head(t.done).op \in {"readClient", "readUp"} =>
                                       Head(t.done).res \in Failed \cup {"part"})
           /\ Data(t, u) /\ Flags(t, u)
<1> DEFINE op == Head(t.done).op
<1>1. /\ t.done \in Seq(Handler) /\ Len(t.done) \in Nat /\ Len(t.done) >= 1
      /\ Head(t.done) = t.done[1]
      /\ Tail(t.done) \in Seq(Handler) /\ Len(Tail(t.done)) = Len(t.done) - 1
      /\ \A i \in 1 .. Len(t.done) - 1 : Tail(t.done)[i] = t.done[i + 1]
  BY DEF Object
<1>2. /\ u.done = Tail(t.done) /\ u.ops = t.ops
      /\ u \in Object /\ Data(t, u) /\ Flags(t, u)
  BY <1>1 DEF Object, Data, Flags
<1>3. /\ Head(t.done) \in Handler
      /\ DOMAIN t.done = 1 .. Len(t.done) /\ DOMAIN u.done = 1 .. Len(t.done) - 1
      /\ \A i \in 1 .. Len(t.done) - 1 : u.done[i] = t.done[i + 1]
  BY <1>1, <1>2
<1>4. op \in All /\ Head(t.done).res \in Results
  BY <1>3 DEF Handler, All
<1>5. Queued(t, op)
  BY <1>1, <1>3 DEF Queued
<1>6. \A o : o # op => (Queued(u, o) <=> Queued(t, o))
  <2> SUFFICES ASSUME NEW o, o # op PROVE Queued(u, o) <=> Queued(t, o)
    OBVIOUS
  <2>1. ASSUME Queued(t, o) PROVE Queued(u, o)
    <3>1. PICK i \in 1 .. Len(t.done) : t.done[i].op = o
      BY <1>3, <2>1 DEF Queued
    <3>2. i # 1
      BY <1>1, <3>1
    <3>3. PICK k \in 1 .. Len(t.done) - 1 : i = k + 1
      <4>1. i - 1 \in 1 .. Len(t.done) - 1 /\ i = (i - 1) + 1
        BY <1>1, <3>2
      <4> QED
        BY <4>1
    <3>4. u.done[k] = t.done[i]
      BY <1>3, <3>3
    <3> QED
      BY <1>3, <3>1, <3>4 DEF Queued
  <2>2. ASSUME Queued(u, o) PROVE Queued(t, o)
    <3>1. PICK i \in DOMAIN u.done : u.done[i].op = o
      BY <2>2 DEF Queued
    <3>2. u.done[i] = t.done[i + 1]
      BY <1>3
    <3>3. i + 1 \in 1 .. Len(t.done)
      BY <1>1, <1>3
    <3> QED
      BY <1>3, <3>1, <3>2, <3>3 DEF Queued
  <2> QED
    BY <2>1, <2>2
<1>7. \A o \in Ops \cup {"decision"} :
         \A i, j \in 1 .. Len(t.done) : t.done[i].op = o /\ t.done[j].op = o => i = j
  BY <1>3 DEF AllOnce, Once
<1>8. op # "timer" => ~Queued(u, op)
  <2> SUFFICES ASSUME op # "timer", NEW i \in 1 .. Len(t.done) - 1, u.done[i].op = op
               PROVE  FALSE
    BY <1>3 DEF Queued
  <2>1. i + 1 \in 1 .. Len(t.done) /\ 1 \in 1 .. Len(t.done) /\ t.done[i + 1].op = op
        /\ t.done[1].op = op /\ op \in Ops \cup {"decision"}
    BY <1>1, <1>3, <1>4 DEF All
  <2>2. i + 1 = 1
    BY <1>7, <2>1
  <2> QED
    BY <2>2
<1>9. \A o \in All \ {"timer"} : Live(u, o) <=> Live(t, o) /\ o # op
  BY <1>2, <1>5, <1>6, <1>8 DEF Live, AllOnce, Once, Object, All
<1>10. AllOnce(u)
  <2> SUFFICES ASSUME NEW o \in Ops \cup {"decision"} PROVE Once(u, o)
    BY DEF AllOnce
  <2>1. o \in Ops /\ u.ops[o] = 1 => ~Queued(u, o)
    BY <1>2, <1>4, <1>6, <1>8 DEF AllOnce, Once, All, Ops, ClientOps, ServerOps
  <2>2. ASSUME NEW i \in DOMAIN u.done, NEW j \in DOMAIN u.done,
               u.done[i].op = o, u.done[j].op = o
        PROVE  i = j
    <3>1. i + 1 \in 1 .. Len(t.done) /\ j + 1 \in 1 .. Len(t.done) /\ i \in Nat /\ j \in Nat
          /\ t.done[i + 1].op = o /\ t.done[j + 1].op = o
      BY <1>1, <1>3, <2>2
    <3>2. i + 1 = j + 1
      BY <1>7, <3>1
    <3> QED
      BY <3>1, <3>2
  <2> QED
    BY <2>1, <2>2 DEF Once
<1>11. ASSUME Tame(t)
       PROVE  Tame(u) /\ (op \in {"readClient", "readUp"} =>
                            Head(t.done).res \in Failed \cup {"part"})
  <2>1. 1 \in DOMAIN t.done
    BY <1>1, <1>3
  <2>2. op \in {"readClient", "readUp"} => Head(t.done).res \in Failed \cup {"part"}
    BY <1>1, <1>11, <2>1 DEF Tame
  <2>3. \A i \in DOMAIN u.done : i + 1 \in DOMAIN t.done /\ u.done[i] = t.done[i + 1]
    BY <1>1, <1>3
  <2> HIDE DEF op
  <2>4. Tame(u)
    BY <1>11, <2>3 DEF Tame
  <2> QED
    BY <2>2, <2>4
<1> QED
  BY <1>2, <1>4, <1>5, <1>6, <1>9, <1>10, <1>11 DEF Live, All

\* The other fields do not matter to what is live.
LEMMA QueuesDecide ==
    ASSUME NEW t, NEW u, u.done = t.done, u.ops = t.ops
    PROVE  /\ \A o : Live(u, o) <=> Live(t, o)
           /\ AllOnce(t) => AllOnce(u)
           /\ Tame(t) => Tame(u)
  BY DEF Live, Queued, AllOnce, Once, Tame

\* An operation started, under way or failed at once.
LEMMA StartFacts ==
    ASSUME NEW t \in Object, AllOnce(t), NEW op \in Ops, ~Live(t, op),
           NEW u, u = Start(t, op)
    PROVE  /\ u \in Object /\ AllOnce(u)
           /\ \A o \in All : Live(u, o) <=> Live(t, o) \/ o = op
           /\ Data(t, u) /\ Flags(t, u)
           /\ Tame(t) => Tame(u)
<1>1. t.ops \in [Ops -> {0, 1}] /\ t.ops[op] = 0 /\ ~Queued(t, op)
      /\ t.srv \in BOOLEAN
  BY DEF Object, Live
<1>2. CASE ~Usable(t, op)
  <2>1. u = Finish([t EXCEPT !.ops = t.ops], op, "err")
    BY <1>2 DEF Start, Object
  <2>2. op \in All /\ "err" \in Results /\ "err" \in Failed
    BY DEF All, Results, Failed
  <2> QED
    BY <1>1, <2>1, <2>2, FinishFacts
<1>3. CASE Usable(t, op)
  <2>1. PICK srv \in BOOLEAN : srv = (t.srv \/ op = "connect")
    BY <1>1
  <2>2. PICK ops \in [Ops -> {0, 1}] : ops = [t.ops EXCEPT ![op] = 1]
    BY <1>1
  <2>3. u = [t EXCEPT !.ops = ops, !.srv = srv]
    BY <1>1, <1>3, <2>1, <2>2 DEF Start, Object
  <2>4. /\ u \in Object /\ u.ops = [t.ops EXCEPT ![op] = 1] /\ u.done = t.done
        /\ Data(t, u) /\ Flags(t, u)
    BY <1>1, <2>2, <2>3 DEF Object, Data, Flags
  <2>5. \A o \in All : Live(u, o) <=> Live(t, o) \/ o = op
    BY <1>1, <2>4 DEF Live, Queued, All
  <2>6. AllOnce(u) /\ (Tame(t) => Tame(u))
    BY <1>1, <2>4 DEF AllOnce, Once, Queued, Tame
  <2> QED
    BY <2>4, <2>5, <2>6
<1> QED
  BY <1>2, <1>3

\* Operations of t may have completed in u, and nothing else happened but
\* perhaps to the upstream socket.
Completed(t, u) ==
    /\ u \in Object /\ AllOnce(u)
    /\ \A o \in All : Live(u, o) <=> Live(t, o)
    /\ Data(t, u) /\ Flags(t, u)
    /\ Tame(t) => Tame(u)

LEMMA GiveUpFacts ==
    ASSUME NEW t \in Object, AllOnce(t), NEW op \in Ops, NEW u, u = GiveUp(t, op)
    PROVE  Completed(t, u)
<1>1. t.ops \in [Ops -> {0, 1}]
  BY DEF Object
<1>2. CASE t.ops[op] = 0
  BY <1>2 DEF GiveUp, Completed, Data, Flags
<1>3. CASE t.ops[op] # 0
  <2> DEFINE ops == [t.ops EXCEPT ![op] = 0]
  <2>1. t.ops[op] = 1 /\ Live(t, op) /\ op \in All /\ op \notin {"timer", "decision"}
    BY <1>1, <1>3 DEF Live, All, Ops, ClientOps, ServerOps
  <2>2. /\ ops \in [Ops -> {0, 1}] /\ ops[op] = 0
        /\ \A o \in Ops \ {op} : ops[o] = t.ops[o]
    BY <1>1
  <2>3. /\ u = Finish([t EXCEPT !.ops = ops], op, "aborted")
        /\ "aborted" \in Results /\ "aborted" \in Failed
    BY <1>3 DEF GiveUp, Results, Failed
  <2>4. ~Queued(t, op)
    BY <2>1 DEF AllOnce, Once
  <2> HIDE DEF ops
  <2>5. /\ u \in Object /\ AllOnce(u)
        /\ \A o \in All : Live(u, o) <=> Live(t, o) \/ o = op
        /\ Data(t, u) /\ Flags(t, u)
        /\ Tame(t) => Tame(u)
    BY <2>1, <2>2, <2>3, <2>4, FinishFacts
  <2> QED
    BY <2>1, <2>5 DEF Completed
<1> QED
  BY <1>2, <1>3

LEMMA CompletedTwice ==
    ASSUME NEW t, NEW u, NEW v, Completed(t, u), Completed(u, v)
    PROVE  Completed(t, v)
  BY DEF Completed, Data, Flags

\* Several operations given up.
LEMMA GiveUpMore ==
    ASSUME NEW t, NEW u, Completed(t, u), NEW op \in Ops
    PROVE  Completed(t, GiveUp(u, op))
<1>1. Completed(u, GiveUp(u, op))
  BY GiveUpFacts DEF Completed
<1> QED
  BY <1>1, CompletedTwice

LEMMA OpNames ==
    {"readClient", "writeClient", "readUp", "connect", "writeUp", "writeSrv", "resolve"} = Ops
  BY DEF Ops, ClientOps, ServerOps

LEMMA GiveUpServerFacts ==
    ASSUME NEW t, NEW u, Completed(t, u) PROVE Completed(t, GiveUpServer(u))
<1> DEFINE u1 == GiveUp(u, "readUp")
           u2 == GiveUp(u1, "connect")
           u3 == GiveUp(u2, "writeUp")
           u4 == GiveUp(u3, "writeSrv")
<1>1. GiveUpServer(u) = u4
  BY DEF GiveUpServer
<1>2. Completed(t, u1)
  BY GiveUpMore, OpNames
<1> HIDE DEF u1
<1>3. Completed(t, u2)
  BY <1>2, GiveUpMore, OpNames
<1> HIDE DEF u2
<1>4. Completed(t, u3)
  BY <1>3, GiveUpMore, OpNames
<1> HIDE DEF u3
<1>5. Completed(t, u4)
  BY <1>4, GiveUpMore, OpNames
<1> QED
  BY <1>1, <1>5

LEMMA GiveUpClientFacts ==
    ASSUME NEW t, NEW u, Completed(t, u) PROVE Completed(t, GiveUpClient(u))
<1> DEFINE u1 == GiveUp(u, "readClient")
           u2 == GiveUp(u1, "writeClient")
<1>1. GiveUpClient(u) = u2
  BY DEF GiveUpClient
<1>2. Completed(t, u1)
  BY GiveUpMore, OpNames
<1> HIDE DEF u1
<1>3. Completed(t, u2)
  BY <1>2, GiveUpMore, OpNames
<1> QED
  BY <1>1, <1>3

LEMMA CancelFacts ==
    ASSUME NEW t \in Object, AllOnce(t), NEW u \in CancelUpstream(t) PROVE Completed(t, u)
<1> DEFINE u1 == GiveUp(t, "readUp")
           u2 == GiveUp(u1, "writeUp")
           u3 == GiveUp(u2, "writeSrv")
           u4 == GiveUp(u3, "resolve")
           u5 == GiveUp(u4, "connect")
<1>1. u \in {u3, u5}
  BY DEF CancelUpstream
<1>2. Completed(t, u1)
  BY GiveUpFacts, OpNames
<1> HIDE DEF u1
<1>3. Completed(t, u2)
  BY <1>2, GiveUpMore, OpNames
<1> HIDE DEF u2
<1>4. Completed(t, u3)
  BY <1>3, GiveUpMore, OpNames
<1> HIDE DEF u3
<1>5. Completed(t, u4)
  BY <1>4, GiveUpMore, OpNames
<1> HIDE DEF u4
<1>6. Completed(t, u5)
  BY <1>5, GiveUpMore, OpNames
<1> HIDE DEF u5
<1> QED
  BY <1>1, <1>4, <1>6

LEMMA CloseServerFacts ==
    ASSUME NEW t \in Object, AllOnce(t) PROVE Completed(t, CloseServer(t))
<1> DEFINE v == [t EXCEPT !.srv = FALSE]
<1>1. v \in Object /\ Data(t, v) /\ Flags(t, v) /\ v.done = t.done /\ v.ops = t.ops
  BY DEF Object, Data, Flags
<1>2. CloseServer(t) = IF t.srv THEN GiveUpServer(v) ELSE t
  BY DEF CloseServer
<1> HIDE DEF v
<1>3. Completed(t, v) /\ Completed(t, t)
  BY <1>1, QueuesDecide DEF Completed, Data, Flags
<1> QED
  BY <1>2, <1>3, GiveUpServerFacts

\* close() ends the timer and leaves no connection open.
LEMMA CloseFacts ==
    ASSUME NEW t \in Object, AllOnce(t), NEW u, u = Close(t)
    PROVE  /\ u \in Object /\ AllOnce(u) /\ Data(t, u)
           /\ \A o \in All : Live(u, o) <=> Live(t, o)
           /\ Tame(t) => Tame(u)
           /\ u.cli # "open" /\ (u.held <=> t.held /\ t.id = 0)
<1> DEFINE v == [CancelTimer(t) EXCEPT !.held = @ /\ t.id = 0]
           w == [v EXCEPT !.cli = "closed"]
           x == CloseClient(v)
<1>1. v = [t EXCEPT !.timer = FALSE, !.held = t.held /\ t.id = 0]
  BY DEF CancelTimer, Object
<1>2. (t.held /\ t.id = 0) \in BOOLEAN
  BY DEF Object
<1>3. /\ v \in Object /\ Data(t, v) /\ v.done = t.done /\ v.ops = t.ops
      /\ v.cli = t.cli /\ (v.held <=> t.held /\ t.id = 0)
  BY <1>1, <1>2 DEF Object, Data
<1>4. u = CloseServer(x) /\ x = IF v.cli = "open" THEN GiveUpClient(w) ELSE v
  BY DEF Close, CloseClient
<1> HIDE DEF v
<1>5. /\ w \in Object /\ Data(v, w) /\ w.done = v.done /\ w.ops = v.ops
      /\ w.cli = "closed" /\ w.held = v.held
  BY <1>3 DEF Object, Data
<1>6. /\ AllOnce(v) /\ AllOnce(w)
      /\ \A o : (Live(v, o) <=> Live(t, o)) /\ (Live(w, o) <=> Live(v, o))
      /\ Tame(t) => Tame(v) /\ Tame(w)
  BY <1>3, <1>5, QueuesDecide
<1> HIDE DEF w, x
<1>7. /\ x \in Object /\ AllOnce(x) /\ Data(t, x)
      /\ \A o \in All : Live(x, o) <=> Live(t, o)
      /\ Tame(t) => Tame(x)
      /\ x.cli # "open" /\ (x.held <=> t.held /\ t.id = 0)
  <2>1. CASE v.cli = "open"
    <3>1. Completed(w, w)
      BY <1>5, <1>6 DEF Completed, Data, Flags
    <3>2. Completed(w, x)
      BY <1>4, <2>1, <3>1, GiveUpClientFacts
    <3> QED
      BY <1>3, <1>5, <1>6, <3>2 DEF Completed, Data, Flags
  <2>2. CASE v.cli # "open"
    BY <1>3, <1>4, <1>6, <2>2
  <2> QED
    BY <2>1, <2>2
<1>8. Completed(x, u)
  BY <1>4, <1>7, CloseServerFacts
<1> QED
  BY <1>7, <1>8 DEF Completed, Data, Flags

-----------------------------------------------------------------------------
(* What the invariant tells, and what keeps it *)

\* The invariant speaks of these names only.
LEMMA Names ==
    /\ Turn = {"readClient", "resolve", "connect", "writeUp", "readUp"}
    /\ Places = {"readClient", "resolve", "connect", "writeUp", "readUp", "decision"}
    /\ All \ {"timer"} = {"readClient", "resolve", "connect", "writeUp", "readUp", "decision",
                          "writeClient", "writeSrv"}
    /\ "timer" \in All
  BY DEF Turn, Places, All, Ops, ClientOps, ServerOps

\* What the run checks follows.
LEMMA InnerImplies == IInv => TypeOK /\ OneTurn /\ Watched /\ StreamInOrder /\ LogShape
<1> SUFFICES ASSUME IInv PROVE TypeOK /\ OneTurn /\ Watched /\ StreamInOrder /\ LogShape
  OBVIOUS
<1> USE DEF IInv, Inner, Core
<1>1. TypeOK
  BY DEF TypeOK, Transactions, Writes
<1>2. \A op \in {"timer", "decision"} : Live(s, op) <=> Queued(s, op)
  BY DEF Live, Ops, ClientOps, ServerOps
<1>3. OneTurn
  <2>1. \A a, b \in Turn :
           Live(s, a) /\ Live(s, b) => a = b \/ (s.tunnel /\ {a, b} = {"readClient", "readUp"})
    BY DEF OnePlace, Places, BothSides
  <2>2. Paused => \A a \in Turn : ~Live(s, a)
    <3>1. ASSUME s.held PROVE \A a \in Turn : ~Live(s, a)
      BY <3>1 DEF OnePlace, Places
    <3>2. ASSUME Live(s, "decision"), NEW a \in Turn, Live(s, a) PROVE FALSE
      <4>1. a = "decision" \/ BothSides(s, a, "decision")
        BY <3>2 DEF OnePlace, Places
      <4>2. a # "decision" /\ {a, "decision"} # {"readClient", "readUp"}
        BY DEF Turn
      <4> QED
        BY <4>1, <4>2 DEF BothSides
    <3> QED
      BY <1>2, <3>1, <3>2 DEF Paused
  <2> QED
    BY <2>1, <2>2 DEF OneTurn, AllOnce, Writes
<1>4. Watched
  BY <1>2 DEF Watched, Watches, Paused
<1>5. StreamInOrder
  <2> SUFFICES ASSUME NEW i \in DOMAIN s.out, NEW j \in DOMAIN s.out, i < j
               PROVE  IF s.out[i].id = s.out[j].id
                      THEN \/ s.out[i].status = "504"
                           \/ ~s.out[i].last /\ s.out[j].status \in Relayed \cup {"504"}
                      ELSE /\ s.out[i].id < s.out[j].id \/ s.out[j].id = 0
                           /\ \E k \in i .. (j - 1) : s.out[k].id = s.out[i].id /\ s.out[k].last
    BY DEF StreamInOrder
  <2>1. CASE s.out[i].id = s.out[j].id
    BY <2>1 DEF Answers, Unbroken
  <2>2. CASE s.out[i].id # s.out[j].id
    BY <2>2 DEF Stream, InOrder
  <2> QED
    BY <2>1, <2>2
<1>6. LogShape
  BY DEF LogShape, Entries, Shape
<1> QED
  BY <1>1, <1>3, <1>4, <1>5, <1>6

LEMMA InitIInv == Init => IInv
<1> SUFFICES ASSUME Init PROVE IInv
  OBVIOUS
<1>1. /\ s \in Object /\ s.done = <<>> /\ s.log = <<>> /\ s.out = <<>>
      /\ \A op \in Ops : s.ops[op] = 1 <=> op = "readClient"
  BY DEF Init, Object, Ops, ClientOps, ServerOps
<1>2. \A op \in All : Live(s, op) <=> op = "readClient"
  BY <1>1 DEF Live, Queued, All, Ops, ClientOps, ServerOps
<1>3. AllOnce(s)
  BY <1>1 DEF AllOnce, Once, Queued
<1>4. OnePlace(s) /\ Transactions(s)
  BY <1>2, Names DEF OnePlace, Transactions, Serving, Init
<1>5. Writes(s) /\ Flows(s) /\ Watches(s)
  BY <1>1, <1>2, Names DEF Writes, Flows, Watches, Init
<1>6. Entries(s) /\ Stream(s)
  BY <1>1 DEF Init, Entries, Shape, Stream, Bounded, InOrder, Complete
<1>7. mitm \in BOOLEAN /\ asked \in 0 .. MaxReq /\ reads \in 0 .. MaxReads
  BY SessionAssumption DEF Init
<1>8. Answers(s)
  BY <1>1 DEF Answers, Unbroken, Fresh, Open
<1> QED
  BY <1>1, <1>3, <1>4, <1>5, <1>6, <1>7, <1>8 DEF IInv, Inner, Core

\* The client was sent nothing more, and the turn did not go back.
LEMMA AnswersStay ==
    ASSUME NEW t, Answers(t), NEW u, u.out = t.out, u.id = t.id, ~u.resp => ~t.resp,
           Asking(u) => Fresh(t.out, t.id), Live(u, "readUp") => Open(t.out, t.id)
    PROVE  Answers(u)
  BY DEF Answers

LEMMA FewerAnswers ==
    ASSUME NEW t, Answers(t), NEW u, u.out = t.out, u.id = t.id, u.resp = t.resp,
           u.tunnel = t.tunnel, u.held => t.held, \A o \in Places : Live(u, o) => Live(t, o)
    PROVE  Answers(u)
<1>1. Asking(u) => Asking(t)
  BY Names DEF Asking
<1>2. Live(u, "readUp") => Live(t, "readUp")
  BY Names
<1> QED
  BY <1>1, <1>2 DEF Answers

LEMMA FreshIsOpen == ASSUME NEW out, NEW id, Fresh(out, id) PROVE Open(out, id)
  BY DEF Fresh, Open

\* With fewer handlers to run the core still holds, whatever the sockets are.
LEMMA FewerCore ==
    ASSUME NEW t, Core(t), NEW u \in Object, AllOnce(u), Data(t, u), u.held => t.held,
           \A o \in All \ {"timer"} : Live(u, o) => Live(t, o),
           t.tunnel /\ Tame(t) => Tame(u)
    PROVE  Core(u)
<1>1. t \in Object
  BY DEF Core
<1>2. OnePlace(u)
  <2>1. \A a \in Places : Live(u, a) => Live(t, a)
    BY Names
  <2>2. Live(u, "decision") => Live(t, "decision")
    BY <2>1, Names
  <2>3. Live(u, "writeUp") => Live(t, "writeUp")
    BY <2>1, Names
  <2> QED
    BY <2>1, <2>2, <2>3 DEF Core, OnePlace, BothSides, Data
<1>3. Serving(u) => Serving(t)
  BY Names DEF Serving
<1>4. Transactions(u)
  BY <1>3, Names DEF Core, Transactions, Data
<1>5. Writes(u)
  BY Names DEF Core, Writes, Data
<1>6. Entries(u) /\ Stream(u)
  BY <1>3 DEF Core, Entries, Loggable, Stream, Data
<1> QED
  BY <1>2, <1>4, <1>5, <1>6 DEF Core

LEMMA CloseInner ==
    ASSUME NEW t, Core(t) PROVE Inner(Close(t)) /\ (Answers(t) => Answers(Close(t)))
<1> DEFINE u == Close(t)
<1>1. /\ u \in Object /\ AllOnce(u) /\ Data(t, u)
      /\ \A o \in All : Live(u, o) <=> Live(t, o)
      /\ Tame(t) => Tame(u)
      /\ u.cli # "open" /\ (u.held => t.held)
  BY CloseFacts DEF Core
<1> HIDE DEF u
<1>2. Core(u)
  BY <1>1, FewerCore
<1>3. Inner(u)
  BY <1>1, <1>2 DEF Inner, Flows, Watches
<1>4. Answers(t) => Answers(u)
  BY <1>1, FewerAnswers, Names DEF Data
<1> QED
  BY <1>3, <1>4 DEF u

\* Completions change nothing that the invariant speaks of.
LEMMA CompletedCore == ASSUME NEW t, Core(t), NEW u, Completed(t, u) PROVE Core(u)
  BY FewerCore DEF Completed, Flags

LEMMA CompletedInner == ASSUME NEW t, Inner(t), NEW u, Completed(t, u) PROVE Inner(u)
<1>1. Core(u)
  BY CompletedCore DEF Inner
<1>2. Flows(u) /\ Watches(u)
  BY Names DEF Inner, Flows, Watches, Completed, Data, Flags
<1> QED
  BY <1>1, <1>2 DEF Inner

\* The handler op is taken from the queue.
LEMMA TakenFacts ==
    ASSUME IInv, NEW op \in All, Due(op)
    PROVE  /\ Core(Ran) /\ Data(s, Ran) /\ Flags(s, Ran) /\ Answers(Ran)
           /\ Live(s, op) /\ Result \in Results
           /\ \A o \in All \ {"timer"} : Live(Ran, o) <=> Live(s, o) /\ o # op
           /\ op # "timer" => (Live(Ran, "timer") <=> Live(s, "timer"))
           /\ s.tunnel /\ op \in {"readClient", "readUp"} => Result \in Failed \cup {"part"}
<1>1. Core(s) /\ s \in Object /\ AllOnce(s) /\ s.done # <<>> /\ Head(s.done).op = op
      /\ (s.tunnel => Tame(s))
  BY DEF IInv, Inner, Core, Due, OnePlace
<1>2. Ran = [s EXCEPT !.done = Tail(@)]
  BY DEF Ran
<1>3. /\ Ran \in Object /\ AllOnce(Ran) /\ Live(s, op) /\ Result \in Results
      /\ \A o \in All \ {"timer"} : Live(Ran, o) <=> Live(s, o) /\ o # op
      /\ op # "timer" => (Live(Ran, "timer") <=> Live(s, "timer"))
      /\ Tame(s) => Tame(Ran) /\ (op \in {"readClient", "readUp"} => Result \in Failed \cup {"part"})
      /\ Data(s, Ran) /\ Flags(s, Ran)
  <2>1. PICK u : u = Ran
    OBVIOUS
  <2>2. PICK h : h = Head(s.done)
    OBVIOUS
  <2>3. /\ u \in Object /\ AllOnce(u) /\ Live(s, h.op) /\ h.res \in Results
        /\ \A o \in All \ {"timer"} : Live(u, o) <=> Live(s, o) /\ o # h.op
        /\ h.op # "timer" => (Live(u, "timer") <=> Live(s, "timer"))
    BY <1>1, <1>2, <2>1, <2>2, RanFacts
  <2>4. /\ Tame(s) => Tame(u) /\ (h.op \in {"readClient", "readUp"} =>
                                     h.res \in Failed \cup {"part"})
        /\ Data(s, u) /\ Flags(s, u)
    BY <1>1, <1>2, <2>1, <2>2, RanFacts
  <2> QED
    BY <1>1, <2>1, <2>2, <2>3, <2>4 DEF Result
<1>4. Core(Ran)
  BY <1>1, <1>3, FewerCore DEF Flags
<1>5. Answers(Ran)
  BY <1>3, FewerAnswers, Names DEF IInv, Data, Flags
<1> QED
  BY <1>1, <1>3, <1>4, <1>5

-----------------------------------------------------------------------------
(* The log and the client's stream *)

LEMMA AppendFacts ==
    ASSUME NEW S, NEW q \in Seq(S), NEW e \in S
    PROVE  /\ Append(q, e) \in Seq(S) /\ Append(q, e) # <<>>
           /\ Len(q) \in Nat /\ DOMAIN q = 1 .. Len(q)
           /\ Len(Append(q, e)) = Len(q) + 1 /\ DOMAIN Append(q, e) = 1 .. Len(q) + 1
           /\ \A i \in 1 .. Len(q) : Append(q, e)[i] = q[i]
           /\ Append(q, e)[Len(q) + 1] = e
  OBVIOUS

\* An entry of the open transaction is added where the log admits it.
LEMMA LogGoesOn ==
    ASSUME NEW t \in Object, Entries(t), t.id \in {0, t.n}, t.id = 0 \/ Loggable(t),
           NEW status \in Statuses,
           NEW new, new = Append(t.log, [id |-> t.id, status |-> status])
    PROVE  /\ \A i \in DOMAIN new : new[i].id <= t.n
           /\ Shape(new)
           /\ ~t.resp /\ t.id # 0 /\ status \in {"tunnel", "504"} => Reopened(new, t.id)
<1> DEFINE e == [id |-> t.id, status |-> status]
<1>1. /\ e \in Entry /\ e.id = t.id /\ e.status = status
      /\ t.log \in Seq(Entry) /\ t.id \in Nat /\ t.n \in Nat
  BY DEF Object, Entry
<1>2. new = Append(t.log, e)
  OBVIOUS
<1> HIDE DEF e
<1>3. /\ Len(t.log) \in Nat /\ DOMAIN t.log = 1 .. Len(t.log)
      /\ Len(new) = Len(t.log) + 1 /\ DOMAIN new = 1 .. Len(t.log) + 1 /\ new # <<>>
      /\ \A i \in 1 .. Len(t.log) : new[i] = t.log[i]
      /\ new[Len(t.log) + 1] = e
  BY <1>1, <1>2, AppendFacts
<1>4. \A i \in 1 .. Len(t.log) : t.log[i].id \in Nat /\ t.log[i].id <= t.n
  <2> SUFFICES ASSUME NEW i \in 1 .. Len(t.log)
               PROVE  t.log[i].id \in Nat /\ t.log[i].id <= t.n
    OBVIOUS
  <2>1. t.log[i] \in Entry /\ i \in DOMAIN t.log
    BY <1>1, <1>3
  <2> QED
    BY <2>1 DEF Entry, Entries
<1>5. \A i \in DOMAIN new : new[i].id <= t.n
  BY <1>1, <1>3, <1>4
<1>6. ASSUME t.id # 0, NEW i \in 1 .. Len(t.log)
      PROVE  /\ t.log[i].id <= t.id
             /\ ~t.resp => t.log[i].id < t.id
             /\ t.log[i].id = t.id => i = Len(t.log) /\ t.log[i].status \in {"tunnel", "504"}
  <2>1. t.id = t.n /\ Loggable(t) /\ i \in DOMAIN t.log
    BY <1>3, <1>6
  <2>2. CASE ~t.resp
    BY <1>1, <1>4, <2>1, <2>2 DEF Loggable
  <2>3. CASE t.resp
    <3>1. Reopened(t.log, t.id)
      BY <2>1, <2>3 DEF Loggable
    <3>2. CASE i < Len(t.log)
      <4>1. t.log[i].id < t.id
        BY <2>1, <3>1, <3>2 DEF Reopened
      <4> QED
        BY <1>1, <1>4, <2>3, <4>1
    <3>3. CASE i = Len(t.log)
      BY <1>1, <2>3, <3>1, <3>3 DEF Reopened
    <3> QED
      BY <1>3, <3>2, <3>3
  <2> QED
    BY <2>2, <2>3
<1>7. Shape(new)
  <2> SUFFICES ASSUME NEW i \in DOMAIN new, NEW j \in DOMAIN new, i < j, new[j].id # 0
               PROVE  /\ new[i].id <= new[j].id
                      /\ new[i].id = new[j].id =>
                            new[i].status \in {"tunnel", "504"} /\ j = i + 1
    BY DEF Shape
  <2>1. i \in 1 .. Len(t.log) /\ new[i] = t.log[i]
    BY <1>3
  <2>2. CASE j = Len(t.log) + 1
    BY <1>1, <1>3, <1>6, <2>1, <2>2
  <2>3. CASE j # Len(t.log) + 1
    <3>1. j \in 1 .. Len(t.log) /\ new[j] = t.log[j]
      BY <1>3, <2>3
    <3> QED
      BY <1>3, <2>1, <3>1 DEF Entries, Shape
  <2> QED
    BY <2>2, <2>3
<1>8. ASSUME ~t.resp, t.id # 0, status \in {"tunnel", "504"} PROVE Reopened(new, t.id)
  <2>1. \A i \in DOMAIN new : i < Len(new) => new[i].id < t.id
    BY <1>3, <1>6, <1>8
  <2>2. new[Len(new)] = e
    BY <1>3
  <2> QED
    BY <1>1, <1>3, <1>8, <2>1, <2>2 DEF Reopened
<1> QED
  BY <1>5, <1>7, <1>8

LEMMA LogFacts ==
    ASSUME NEW t \in Object, NEW status \in Statuses, NEW u, u = LogAs(t, status)
    PROVE  /\ u \in Object /\ u.ops = t.ops /\ u.done = t.done /\ Flags(t, u)
           /\ u.resp /\ u.log = Append(t.log, [id |-> t.id, status |-> status])
           /\ u.id = t.id /\ u.n = t.n /\ u.tunnel = t.tunnel
           /\ u.wq = t.wq /\ u.swq = t.swq /\ u.out = t.out
<1> DEFINE e == [id |-> t.id, status |-> status]
<1>1. t.log \in Seq(Entry) /\ e \in Entry
  BY DEF Object, Entry
<1>2. u = [t EXCEPT !.resp = TRUE, !.log = Append(t.log, e)]
  BY DEF LogAs, Object
<1> HIDE DEF e
<1>3. Append(t.log, e) \in Seq(Entry)
  BY <1>1
<1>4. u.log = Append(t.log, e) /\ u.resp /\ u \in Object
  BY <1>2, <1>3 DEF Object
<1>5. /\ u.ops = t.ops /\ u.done = t.done /\ Flags(t, u)
      /\ u.id = t.id /\ u.n = t.n /\ u.tunnel = t.tunnel
      /\ u.wq = t.wq /\ u.swq = t.swq /\ u.out = t.out
  BY <1>2 DEF Object, Flags
<1> QED
  BY <1>4, <1>5 DEF e

\* The open transaction may be logged, perhaps while it is still served.
Admits(t, status) ==
    /\ t.id = 0 \/ Loggable(t)
    /\ t.tunnel \/ ~Live(t, "readClient")
    /\ Serving(t) => ~t.resp /\ t.id # 0 /\ status \in {"tunnel", "504"}

LEMMA LogCore ==
    ASSUME NEW t, Core(t), NEW status \in Statuses, Admits(t, status),
           NEW u, u = LogAs(t, status)
    PROVE  /\ Core(u) /\ \A o : Live(u, o) <=> Live(t, o)
           /\ t.id # 0 /\ ~t.resp /\ status \in {"tunnel", "504"} => Reopened(u.log, u.id)
<1>1. /\ t \in Object /\ AllOnce(t) /\ OnePlace(t) /\ Transactions(t) /\ Writes(t)
      /\ Entries(t) /\ Stream(t) /\ t.id \in {0, t.n}
  BY DEF Core, Transactions
<1>2. /\ u \in Object /\ u.ops = t.ops /\ u.done = t.done /\ Flags(t, u)
      /\ u.resp /\ u.log = Append(t.log, [id |-> t.id, status |-> status])
      /\ u.id = t.id /\ u.n = t.n /\ u.tunnel = t.tunnel
      /\ u.wq = t.wq /\ u.swq = t.swq /\ u.out = t.out
  BY <1>1, LogFacts
<1>3. /\ \A i \in DOMAIN u.log : u.log[i].id <= t.n
      /\ Shape(u.log)
      /\ ~t.resp /\ t.id # 0 /\ status \in {"tunnel", "504"} => Reopened(u.log, t.id)
  BY <1>1, <1>2, LogGoesOn DEF Admits
<1>4. AllOnce(u) /\ (\A o : Live(u, o) <=> Live(t, o)) /\ (Tame(t) => Tame(u))
  BY <1>1, <1>2, QueuesDecide
<1>5. Serving(u) <=> Serving(t)
  BY <1>2, <1>4 DEF Serving, Flags
<1>6. OnePlace(u)
  BY <1>1, <1>2, <1>4 DEF OnePlace, BothSides, Flags
<1>7. Transactions(u)
  BY <1>1, <1>2, <1>4, <1>5 DEF Transactions, Admits
<1>8. Writes(u)
  BY <1>1, <1>2, <1>4 DEF Writes
<1>9. Entries(u)
  BY <1>2, <1>3, <1>5 DEF Entries, Loggable, Admits
<1>10. Stream(u)
  BY <1>1, <1>2 DEF Stream
<1> QED
  BY <1>2, <1>3, <1>4, <1>6, <1>7, <1>8, <1>9, <1>10 DEF Core

\* Before the first transaction and between two, only whole answers are sent.
Whole(e) == e.id = 0 => e.last

\* A chunk of the open transaction continues the stream.
LEMMA StreamGoesOn ==
    ASSUME NEW out \in Seq(Chunk), InOrder(out), NEW n \in Nat, Bounded(out, n),
           NEW e \in Chunk, e.id \in {0, n}, Complete(out, e.id), Whole(e),
           NEW new, new = Append(out, e)
    PROVE  /\ new \in Seq(Chunk) /\ Len(new) = Len(out) + 1 /\ Len(out) \in Nat
           /\ Bounded(new, n) /\ InOrder(new) /\ Complete(new, e.id)
           /\ e.last => Complete(new, 0)
<1> DEFINE id == e.id
<1>1. e \in Chunk /\ e.id = id /\ id \in Nat /\ Complete(out, id)
  BY DEF Chunk
<1> HIDE DEF id
<1>2. /\ new \in Seq(Chunk) /\ Len(out) \in Nat /\ Len(new) = Len(out) + 1
      /\ DOMAIN out = 1 .. Len(out) /\ DOMAIN new = 1 .. Len(out) + 1
      /\ \A i \in 1 .. Len(out) : new[i] = out[i]
      /\ new[Len(out) + 1] = e
  BY <1>1, AppendFacts
<1>3. \A i \in 1 .. Len(out) : out[i].id \in Nat /\ out[i].id <= n
  <2> SUFFICES ASSUME NEW i \in 1 .. Len(out) PROVE out[i].id \in Nat /\ out[i].id <= n
    OBVIOUS
  <2>1. out[i] \in Chunk /\ i \in DOMAIN out
    BY <1>2
  <2> QED
    BY <2>1 DEF Chunk, Bounded
<1>4. Bounded(new, n)
  BY <1>1, <1>2, <1>3 DEF Bounded
<1>5. ASSUME NEW i \in 1 .. Len(out), out[i].id # id
      PROVE  \E k \in i .. Len(out) : new[k].id = out[i].id /\ new[k].last
  <2>1. PICK k \in i .. Len(out) : out[k].id = out[i].id /\ out[k].last
    BY <1>1, <1>2, <1>5 DEF Complete
  <2>2. k \in 1 .. Len(out)
    BY <1>2, <2>1
  <2> QED
    BY <1>2, <2>1, <2>2
<1>6. ASSUME NEW i \in DOMAIN new, new[i].id # id \/ e.last
      PROVE  \E k \in i .. Len(new) : new[k].id = new[i].id /\ new[k].last
  <2>1. CASE new[i].id # id
    <3>1. i \in 1 .. Len(out) /\ new[i] = out[i]
      BY <1>1, <1>2, <2>1
    <3>2. PICK k \in i .. Len(out) : new[k].id = out[i].id /\ new[k].last
      BY <1>5, <2>1, <3>1
    <3> QED
      BY <1>2, <3>1, <3>2
  <2>2. CASE new[i].id = id
    <3>1. Len(new) \in i .. Len(new)
      BY <1>2
    <3> QED
      BY <1>1, <1>2, <1>6, <2>2, <3>1
  <2> QED
    BY <2>1, <2>2
<1>7. Complete(new, id) /\ (e.last => Complete(new, 0))
  BY <1>1, <1>6 DEF Complete, Whole
<1>8. InOrder(new)
  <2> SUFFICES ASSUME NEW i \in DOMAIN new, NEW j \in DOMAIN new
               PROVE  i < j /\ new[i].id # new[j].id =>
                          /\ new[i].id < new[j].id \/ new[j].id = 0
                          /\ \E k \in i .. (j - 1) : new[k].id = new[i].id /\ new[k].last
    BY Zenon DEF InOrder
  <2> SUFFICES ASSUME i < j, new[i].id # new[j].id
               PROVE  /\ new[i].id < new[j].id \/ new[j].id = 0
                      /\ \E k \in i .. (j - 1) : new[k].id = new[i].id /\ new[k].last
    BY Zenon
  <2>1. i \in 1 .. Len(out) /\ new[i] = out[i]
    BY <1>2
  <2>2. CASE j = Len(out) + 1
    <3>1. new[j].id = id /\ out[i].id # id /\ j - 1 = Len(out)
      BY <1>1, <1>2, <2>1, <2>2
    <3>2. new[i].id < new[j].id \/ new[j].id = 0
      BY <1>3, <2>1, <3>1
    <3>3. \E k \in i .. Len(out) : new[k].id = new[i].id /\ new[k].last
      BY <1>5, <2>1, <3>1
    <3> QED
      BY <3>1, <3>2, <3>3
  <2>3. CASE j # Len(out) + 1
    <3>1. j \in 1 .. Len(out) /\ new[j] = out[j]
      BY <1>2, <2>3
    <3>2. PICK k \in i .. (j - 1) : out[k].id = out[i].id /\ out[k].last
      BY <1>2, <2>1, <3>1 DEF InOrder
    <3>3. k \in 1 .. Len(out)
      BY <1>2, <2>1, <3>1
    <3>4. new[i].id < new[j].id \/ new[j].id = 0
      BY <1>2, <2>1, <3>1 DEF InOrder
    <3> QED
      BY <1>2, <2>1, <3>2, <3>3, <3>4
  <2> QED
    BY <2>2, <2>3
<1> QED
  BY <1>1, <1>2, <1>4, <1>7, <1>8

\* A chunk of transaction id is added where the answer admits it.
LEMMA AnswerGoesOn ==
    ASSUME NEW out \in Seq(Chunk), Unbroken(out), NEW e \in Chunk, NEW id, e.id = id,
           Fresh(out, id) \/ (Open(out, id) /\ e.status \in Relayed \cup {"504"}),
           NEW new, new = Append(out, e)
    PROVE  /\ Unbroken(new)
           /\ Fresh(out, id) /\ id # 0 /\ e.status = "504" => Fresh(new, id)
           /\ id # 0 /\ (e.status = "504" \/ ~e.last) => Open(new, id)
           /\ id # 0 => Fresh(new, 0)
<1>1. /\ Len(out) \in Nat /\ DOMAIN out = 1 .. Len(out) /\ DOMAIN new = 1 .. Len(out) + 1
      /\ \A i \in 1 .. Len(out) : new[i] = out[i]
      /\ new[Len(out) + 1] = e
  BY AppendFacts
<1>2. Open(out, id)
  BY FreshIsOpen
<1>3. \A i \in DOMAIN new : (i \in 1 .. Len(out) /\ new[i] = out[i]) \/ new[i] = e
  BY <1>1
<1>4. Unbroken(new)
  <2> SUFFICES ASSUME NEW i \in DOMAIN new, NEW j \in DOMAIN new, i < j, new[i].id = new[j].id
               PROVE  \/ new[i].status = "504"
                      \/ ~new[i].last /\ new[j].status \in Relayed \cup {"504"}
    BY DEF Unbroken
  <2>1. i \in 1 .. Len(out) /\ new[i] = out[i]
    BY <1>1
  <2>2. CASE j = Len(out) + 1
    <3>1. new[j] = e /\ out[i].id = id
      BY <1>1, <2>1, <2>2
    <3> QED
      BY <1>1, <1>2, <2>1, <3>1 DEF Fresh, Open
  <2>3. CASE j # Len(out) + 1
    <3>1. j \in 1 .. Len(out) /\ new[j] = out[j]
      BY <1>1, <2>3
    <3> QED
      BY <1>1, <2>1, <3>1 DEF Unbroken
  <2> QED
    BY <2>2, <2>3
<1>5. Fresh(out, id) /\ id # 0 /\ e.status = "504" => Fresh(new, id)
  BY <1>1, <1>3 DEF Fresh
<1>6. id # 0 /\ (e.status = "504" \/ ~e.last) => Open(new, id)
  BY <1>1, <1>2, <1>3 DEF Open
<1>7. id # 0 => Fresh(new, 0)
  BY <1>1, <1>2, <1>3 DEF Open, Fresh
<1> QED
  BY <1>4, <1>5, <1>6, <1>7

-----------------------------------------------------------------------------
(* The functions that start operations *)

\* The turn is where it was.
LEMMA SamePlaces ==
    ASSUME NEW t, Core(t), NEW u, u.held = t.held, u.id = t.id, u.n = t.n, u.resp = t.resp,
           u.tunnel = t.tunnel, \A o \in Places : Live(u, o) <=> Live(t, o), Tame(t) => Tame(u)
    PROVE  OnePlace(u) /\ Transactions(u) /\ (Serving(u) <=> Serving(t))
<1>1. Serving(u) <=> Serving(t)
  BY Names DEF Serving
<1>2. OnePlace(u)
  <2>1. Live(u, "decision") <=> Live(t, "decision")
    BY Names
  <2>2. Live(u, "writeUp") <=> Live(t, "writeUp")
    BY Names
  <2> QED
    BY <2>1, <2>2 DEF Core, OnePlace, BothSides
<1>3. Transactions(u)
  BY <1>1, Names DEF Core, Transactions
<1> QED
  BY <1>1, <1>2, <1>3

LEMMA WriteCore ==
    ASSUME NEW t, Core(t), NEW e \in Chunk, e.id = t.id, Whole(e),
           NEW u, u = WriteClient(t, e)
    PROVE  /\ Core(u) /\ Flags(t, u) /\ u.wq > 0
           /\ u.id = t.id /\ u.n = t.n /\ u.resp = t.resp /\ u.tunnel = t.tunnel
           /\ u.swq = t.swq /\ u.log = t.log /\ u.out = Append(t.out, e)
           /\ \A o \in All \ {"writeClient"} : Live(u, o) <=> Live(t, o)
           /\ t.wq = 0 \/ Live(t, "writeClient") => Live(u, "writeClient")
           /\ e.last => Complete(u.out, 0)
<1>0. PICK new : new = Append(t.out, e)
  OBVIOUS
<1> DEFINE v == [t EXCEPT !.wq = @ + 1, !.out = new]
<1>1. /\ t \in Object /\ AllOnce(t) /\ OnePlace(t) /\ Transactions(t) /\ Writes(t)
      /\ Entries(t) /\ Stream(t) /\ t.id \in {0, t.n}
      /\ t.id \in Nat /\ t.n \in Nat /\ t.wq \in Nat /\ t.out \in Seq(Chunk)
  BY DEF Core, Transactions, Object
<1>2. /\ new \in Seq(Chunk) /\ Len(new) = Len(t.out) + 1 /\ Len(t.out) \in Nat
      /\ Bounded(new, t.n) /\ InOrder(new) /\ Complete(new, t.id)
      /\ e.last => Complete(new, 0)
  <2>1. InOrder(t.out) /\ Complete(t.out, e.id) /\ Bounded(t.out, t.n) /\ e.id \in {0, t.n}
    BY <1>1 DEF Stream
  <2>2. /\ new \in Seq(Chunk) /\ Len(new) = Len(t.out) + 1 /\ Len(t.out) \in Nat
        /\ Bounded(new, t.n) /\ InOrder(new) /\ Complete(new, e.id)
        /\ e.last => Complete(new, 0)
    <3>1. PICK out : out = t.out
      OBVIOUS
    <3>2. /\ out \in Seq(Chunk) /\ InOrder(out) /\ t.n \in Nat /\ Bounded(out, t.n)
          /\ e \in Chunk /\ e.id \in {0, t.n} /\ Complete(out, e.id) /\ Whole(e)
          /\ new = Append(out, e)
      BY <1>0, <1>1, <2>1, <3>1
    <3>3. /\ new \in Seq(Chunk) /\ Len(new) = Len(out) + 1 /\ Len(out) \in Nat
          /\ Bounded(new, t.n) /\ InOrder(new) /\ Complete(new, e.id)
          /\ e.last => Complete(new, 0)
      BY <3>2, StreamGoesOn
    <3> QED
      BY <3>1, <3>3
  <2> QED
    BY <2>2
<1>3. u = IF t.wq = 0 THEN Start(v, "writeClient") ELSE v
  BY <1>0 DEF WriteClient
<1>4. v = [t EXCEPT !.wq = t.wq + 1, !.out = new] /\ t.wq + 1 \in Nat
  BY <1>1 DEF Object
<1>5. /\ v \in Object /\ v.ops = t.ops /\ v.done = t.done /\ v.wq = t.wq + 1 /\ v.out = new
      /\ Flags(t, v) /\ v.id = t.id /\ v.n = t.n /\ v.resp = t.resp /\ v.tunnel = t.tunnel
      /\ v.swq = t.swq /\ v.log = t.log
  BY <1>1, <1>2, <1>4 DEF Object, Flags
<1> HIDE DEF v
<1>6. AllOnce(v) /\ (\A o : Live(v, o) <=> Live(t, o)) /\ (Tame(t) => Tame(v))
  BY <1>1, <1>5, QueuesDecide
<1>7. /\ u \in Object /\ AllOnce(u) /\ Data(v, u) /\ Flags(v, u) /\ (Tame(v) => Tame(u))
      /\ \A o \in All : Live(u, o) <=> Live(v, o) \/ (o = "writeClient" /\ t.wq = 0)
  <2>1. CASE t.wq = 0
    <3>1. ~Live(v, "writeClient") /\ "writeClient" \in Ops
      BY <1>1, <1>6, <2>1, OpNames DEF Writes
    <3> QED
      BY <1>3, <1>5, <1>6, <2>1, <3>1, StartFacts
  <2>2. CASE t.wq # 0
    BY <1>3, <1>5, <1>6, <2>2 DEF Data, Flags
  <2> QED
    BY <2>1, <2>2
<1>8. /\ Flags(t, u) /\ u.wq = t.wq + 1 /\ u.out = new
      /\ u.id = t.id /\ u.n = t.n /\ u.resp = t.resp /\ u.tunnel = t.tunnel
      /\ u.swq = t.swq /\ u.log = t.log
      /\ \A o \in All \ {"writeClient"} : Live(u, o) <=> Live(t, o)
      /\ t.wq = 0 \/ Live(t, "writeClient") => Live(u, "writeClient")
  BY <1>5, <1>6, <1>7, Names DEF Data, Flags
<1>9. OnePlace(u) /\ Transactions(u) /\ (Serving(u) <=> Serving(t))
  <2>1. \A o \in Places : Live(u, o) <=> Live(t, o)
    BY <1>8, Names
  <2> QED
    BY <1>6, <1>7, <1>8, <2>1, SamePlaces DEF Flags
<1>10. Writes(u)
  BY <1>1, <1>2, <1>8, Names DEF Writes
<1>11. Entries(u) /\ Stream(u)
  BY <1>1, <1>2, <1>8, <1>9 DEF Entries, Loggable, Stream
<1> QED
  BY <1>0, <1>1, <1>2, <1>7, <1>8, <1>9, <1>10, <1>11 DEF Core

\* The answer to the open transaction after a chunk that was relayed.
LEMMA RelayGoesOn ==
    ASSUME NEW t, Core(t), t.id # 0, Unbroken(t.out), Open(t.out, t.id),
           NEW e \in Chunk, e.id = t.id, e.status \in Relayed \cup {"504"},
           NEW new, new = Append(t.out, e)
    PROVE  Unbroken(new) /\ (~e.last => Open(new, t.id)) /\ Fresh(new, 0)
<1>1. PICK out : out = t.out
  OBVIOUS
<1>2. out \in Seq(Chunk)
  BY <1>1 DEF Core, Object
<1>3. Unbroken(out) /\ Open(out, t.id) /\ new = Append(out, e)
  BY <1>1
<1> QED
  BY <1>2, <1>3, AnswerGoesOn

\* The turn is handed to the operation op.
LEMMA StartCore ==
    ASSUME NEW t, Core(t), NEW op \in Turn, ~t.held,
           \A a \in Places : Live(t, a) => BothSides(t, a, op),
           op = "readClient" /\ ~t.tunnel => t.id = 0 /\ ~t.resp,
           op # "readClient" => t.id # 0 /\ Loggable(t),
           t.tunnel => op # "writeUp",
           NEW u, u = Start(t, op)
    PROVE  /\ Core(u) /\ Data(t, u) /\ Flags(t, u)
           /\ \A o \in All : Live(u, o) <=> Live(t, o) \/ o = op
<1>1. op \in Ops /\ op \in All \ {"timer"} /\ op \in Places /\ op # "decision"
  BY Names, OpNames
<1>2. ~Live(t, op)
  <2>1. {op, op} # {"readClient", "readUp"}
    BY Names
  <2> QED
    BY <1>1, <2>1 DEF BothSides
<1>3. /\ u \in Object /\ AllOnce(u) /\ Data(t, u) /\ Flags(t, u) /\ (Tame(t) => Tame(u))
      /\ \A o \in All : Live(u, o) <=> Live(t, o) \/ o = op
  BY <1>1, <1>2, StartFacts DEF Core
<1>4. OnePlace(u)
  <2>1. ASSUME NEW a \in Places, NEW b \in Places, Live(u, a), Live(u, b), a # b
        PROVE  BothSides(u, a, b)
    <3>1. (Live(t, a) \/ a = op) /\ (Live(t, b) \/ b = op)
      BY <1>3, <2>1, Names
    <3>2. {a, op} = {op, a}
      OBVIOUS
    <3>3. u.tunnel = t.tunnel
      BY <1>3 DEF Data
    <3>4. CASE a = op
      <4>1. BothSides(t, b, op) /\ {a, b} = {b, op}
        BY <2>1, <3>1, <3>4
      <4> QED
        BY <3>3, <4>1 DEF BothSides
    <3>5. CASE b = op
      <4>1. BothSides(t, a, op) /\ {a, b} = {a, op}
        BY <2>1, <3>1, <3>5
      <4> QED
        BY <3>3, <4>1 DEF BothSides
    <3>6. CASE a # op /\ b # op
      BY <2>1, <3>1, <3>3, <3>6 DEF Core, OnePlace, BothSides
    <3> QED
      BY <3>4, <3>5, <3>6
  <2>2. ~u.held
    BY <1>3 DEF Flags
  <2>3. u.tunnel => Tame(u) /\ ~Live(u, "decision") /\ ~Live(u, "writeUp")
    BY <1>1, <1>3, Names DEF Core, OnePlace, Data
  <2> QED
    BY <2>1, <2>2, <2>3 DEF OnePlace
<1>5. Serving(u) => Serving(t) \/ op # "readClient"
  BY <1>3, Names DEF Serving, Flags
<1>6. Transactions(u)
  <2>1. u.tunnel \/ Serving(u) => u.id # 0
    BY <1>3, <1>5 DEF Core, Transactions, Data
  <2>2. ~u.tunnel /\ Live(u, "readClient") => u.id = 0 /\ ~u.resp
    BY <1>3, Names DEF Core, Transactions, Data
  <2> QED
    BY <1>3, <2>1, <2>2 DEF Core, Transactions, Data
<1>7. Writes(u)
  BY <1>1, <1>3, Names DEF Core, Writes, Data
<1>8. Entries(u) /\ Stream(u)
  BY <1>3, <1>5 DEF Core, Entries, Loggable, Stream, Data
<1> QED
  BY <1>3, <1>4, <1>6, <1>7, <1>8 DEF Core

\* Nothing has the turn.
Vacant(t) == ~t.held /\ \A a \in Places : ~Live(t, a)

LEMMA VacantFacts ==
    ASSUME NEW t, Vacant(t)
    PROVE  /\ ~Serving(t) /\ ~Live(t, "readClient") /\ ~Live(t, "readUp") /\ ~Asking(t)
           /\ \A op : \A a \in Places : Live(t, a) => BothSides(t, a, op)
  BY Names DEF Vacant, Serving, Asking

\* A page may be sent: nothing but a 504 was, or it is the 504.
Allows(t, status) ==
    /\ Unbroken(t.out)
    /\ \/ Vacant(t) /\ Fresh(t.out, t.id)
       \/ /\ status = "504" /\ t.id # 0 /\ Open(t.out, t.id)
          /\ Asking(t) => Fresh(t.out, t.id)

\* sendErrorResponse() and the local pages, also of a connection that is closed.
LEMMA SendPageInner ==
    ASSUME NEW t, Core(t), Flows(t), NEW status \in Statuses, Admits(t, status),
           Allows(t, status)
    PROVE  Inner(SendPage(t, status)) /\ Answers(SendPage(t, status))
<1>0. PICK l : l = LogAs(t, status)
  OBVIOUS
<1> DEFINE c == [l EXCEPT !.caw = TRUE]
           e == [id |-> t.id, last |-> TRUE, status |-> status]
           u == WriteClient(c, e)
<1>1. Core(l) /\ \A o : Live(l, o) <=> Live(t, o)
  BY <1>0, LogCore
<1>2. /\ Flags(t, l) /\ l.id = t.id /\ l.wq = t.wq /\ l.resp /\ l.tunnel = t.tunnel
      /\ l.out = t.out
  <2>1. t \in Object
    BY DEF Core
  <2> QED
    BY <1>0, <2>1, LogFacts
<1>3. SendPage(t, status) = u
  BY <1>0 DEF SendPage
<1>4. /\ c \in Object /\ c.ops = l.ops /\ c.done = l.done /\ Data(l, c) /\ c.caw
      /\ c.held = l.held /\ c.cli = l.cli /\ c.timer = l.timer
  BY <1>1 DEF Core, Object, Data
<1> HIDE DEF c
<1>5. AllOnce(c) /\ (\A o : Live(c, o) <=> Live(l, o)) /\ (Tame(l) => Tame(c))
  BY <1>1, <1>4, QueuesDecide DEF Core
<1>6. Core(c) /\ c.id = t.id /\ c.wq = t.wq
  BY <1>1, <1>2, <1>4, <1>5, FewerCore DEF Data
<1>7. e \in Chunk /\ e.id = t.id /\ e.status = status /\ Whole(e)
  BY DEF Chunk, Whole, Core, Object
<1> HIDE DEF e
<1>8. u = WriteClient(c, e)
  OBVIOUS
<1> HIDE DEF u
<1>9. /\ Core(u) /\ Flags(c, u)
      /\ u.id = c.id /\ u.resp = c.resp /\ u.tunnel = c.tunnel /\ u.out = Append(c.out, e)
      /\ \A o \in All \ {"writeClient"} : Live(u, o) <=> Live(c, o)
      /\ c.wq = 0 \/ Live(c, "writeClient") => Live(u, "writeClient")
  BY <1>6, <1>7, <1>8, WriteCore
<1>10. t.wq \in Nat
  BY DEF Core, Object
<1>11. u.caw /\ (u.cli = "open" => Live(u, "writeClient"))
  BY <1>1, <1>2, <1>4, <1>5, <1>6, <1>9, <1>10 DEF Flags, Flows
<1>12. /\ u.out = Append(t.out, e) /\ u.id = t.id /\ u.resp /\ u.tunnel = t.tunnel
       /\ u.held = t.held /\ \A o \in Places : Live(u, o) <=> Live(t, o)
  BY <1>1, <1>2, <1>4, <1>5, <1>9, Names DEF Data, Flags
<1>13. Answers(u)
  <2>1. t.out \in Seq(Chunk)
    BY DEF Core, Object
  <2>2. Fresh(t.out, t.id) \/ (Open(t.out, t.id) /\ e.status \in Relayed \cup {"504"})
    BY <1>7 DEF Allows
  <2>3. PICK out : out = t.out
    OBVIOUS
  <2>4. PICK new : new = Append(out, e)
    OBVIOUS
  <2>5. /\ Unbroken(new)
        /\ Fresh(out, t.id) /\ t.id # 0 /\ e.status = "504" => Fresh(new, t.id)
        /\ t.id # 0 /\ (e.status = "504" \/ ~e.last) => Open(new, t.id)
    BY <1>7, <2>1, <2>2, <2>3, <2>4, AnswerGoesOn DEF Allows
  <2>6. (Asking(u) => Asking(t)) /\ (Live(u, "readUp") => Live(t, "readUp"))
    BY <1>12, Names DEF Asking
  <2>7. Asking(u) \/ Live(u, "readUp") => status = "504" /\ t.id # 0
    BY <2>6, VacantFacts DEF Allows
  <2>8. Asking(u) => Fresh(t.out, t.id)
    BY <2>6, VacantFacts DEF Allows
  <2> QED
    BY <1>7, <1>12, <2>3, <2>4, <2>5, <2>7, <2>8 DEF Answers
<1> QED
  BY <1>3, <1>9, <1>11, <1>13 DEF Inner, Flows, Watches

-----------------------------------------------------------------------------
(* The same functions of a session that is guarded *)

\* What guards a connection does not go away.
LEMMA StaysGuarded ==
    ASSUME NEW t, Flows(t), Watches(t), NEW u, Flags(t, u), u.wq = t.wq,
           \A o \in All : Live(t, o) => Live(u, o)
    PROVE  Flows(u) /\ Watches(u)
<1>1. \A o \in {"timer", "decision", "writeClient"} : Live(t, o) => Live(u, o)
  BY Names
<1>2. Flows(u)
  BY <1>1 DEF Flows, Flags
<1>3. Watches(u)
  BY <1>1 DEF Watches, Flags
<1> QED
  BY <1>2, <1>3

\* What was sent allows the operation op.
Begins(t, op) ==
    /\ Answers(t)
    /\ CASE op = "readUp"     -> Open(t.out, t.id)
         [] op = "readClient" -> t.tunnel \/ Fresh(t.out, t.id)
         [] OTHER             -> Fresh(t.out, t.id)

LEMMA StartInner ==
    ASSUME NEW t, Inner(t), NEW op \in Turn, ~t.held,
           \A a \in Places : Live(t, a) => BothSides(t, a, op),
           op = "readClient" /\ ~t.tunnel => t.id = 0 /\ ~t.resp,
           op # "readClient" => t.id # 0 /\ Loggable(t),
           t.tunnel => op # "writeUp", Begins(t, op)
    PROVE  Inner(Start(t, op)) /\ Answers(Start(t, op))
<1>1. PICK u : u = Start(t, op)
  OBVIOUS
<1>2. /\ Core(u) /\ Data(t, u) /\ Flags(t, u)
      /\ \A o \in All : Live(u, o) <=> Live(t, o) \/ o = op
  BY <1>1, StartCore DEF Inner
<1>3. Flows(u) /\ Watches(u)
  BY <1>2, StaysGuarded DEF Inner, Data
<1>4. Answers(u)
  <2>1. \A o \in Places : Live(u, o) => Live(t, o) \/ o = op
    BY <1>2, Names
  <2>2. Asking(u) => Fresh(t.out, t.id)
    <3>1. Asking(u) => Asking(t) \/ (op # "readUp" /\ ~(op = "readClient" /\ t.tunnel))
      BY <1>2, <2>1, Names DEF Asking, Data, Flags
    <3> QED
      BY <3>1 DEF Begins, Answers
  <2>3. Live(u, "readUp") => Open(t.out, t.id)
    BY <2>1, Names DEF Begins, Answers
  <2> QED
    BY <1>2, <2>2, <2>3, AnswersStay DEF Begins, Data
<1> QED
  BY <1>1, <1>2, <1>3, <1>4 DEF Inner

LEMMA WriteInner ==
    ASSUME NEW t, Inner(t), NEW e \in Chunk, e.id = t.id, Whole(e), NEW u, u = WriteClient(t, e)
    PROVE  Inner(u)
<1>1. /\ Core(u) /\ Flags(t, u)
      /\ \A o \in All \ {"writeClient"} : Live(u, o) <=> Live(t, o)
      /\ t.wq = 0 \/ Live(t, "writeClient") => Live(u, "writeClient")
  BY WriteCore DEF Inner
<1>2. t.wq \in Nat /\ {"timer", "decision"} \subseteq All \ {"writeClient"}
  BY Names DEF Inner, Core, Object
<1>3. Flows(u)
  BY <1>1, <1>2 DEF Inner, Flows, Flags
<1>4. Watches(u)
  BY <1>1, <1>2 DEF Inner, Watches, Flags
<1> QED
  BY <1>1, <1>3, <1>4 DEF Inner

LEMMA LogInner ==
    ASSUME NEW t, Inner(t), NEW status \in Statuses, Admits(t, status),
           NEW u, u = LogAs(t, status)
    PROVE  Inner(u) /\ (Answers(t) => Answers(u))
<1>1. Core(u) /\ \A o : Live(u, o) <=> Live(t, o)
  BY LogCore DEF Inner
<1>2. Flags(t, u) /\ u.wq = t.wq /\ u.out = t.out /\ u.id = t.id /\ u.resp /\ u.tunnel = t.tunnel
  <2>1. t \in Object
    BY DEF Inner, Core
  <2> QED
    BY <2>1, LogFacts
<1>3. Flows(u) /\ Watches(u)
  BY <1>1, <1>2, StaysGuarded DEF Inner
<1>4. Answers(t) => Answers(u)
  BY <1>1, <1>2 DEF Answers, Asking, Flags
<1> QED
  BY <1>1, <1>3, <1>4 DEF Inner

\* resetTimer().
LEMMA ResetInner ==
    ASSUME NEW t, Core(t), Flows(t), NEW u, u = ResetTimer(t)
    PROVE  /\ Inner(u) /\ (Answers(t) => Answers(u))
           /\ Data(t, u) /\ u.held = t.held /\ u.cli = t.cli /\ u.caw = t.caw
           /\ \A o : Live(u, o) <=> Live(t, o)
<1>1. /\ u \in Object /\ u.ops = t.ops /\ u.done = t.done /\ Data(t, u)
      /\ u.held = t.held /\ u.cli = t.cli /\ u.caw = t.caw /\ u.timer
  BY DEF ResetTimer, Core, Object, Data
<1>2. AllOnce(u) /\ (\A o : Live(u, o) <=> Live(t, o)) /\ (Tame(t) => Tame(u))
  BY <1>1, QueuesDecide DEF Core
<1>3. Core(u)
  BY <1>1, <1>2, FewerCore
<1>4. Flows(u) /\ Watches(u)
  BY <1>1, <1>2 DEF Flows, Watches, Data
<1>5. Answers(t) => Answers(u)
  BY <1>1, <1>2, FewerAnswers DEF Data
<1> QED
  BY <1>1, <1>2, <1>3, <1>4, <1>5 DEF Inner

\* connectUpstream() and forwardRequest() of a transaction that may be logged.
LEMMA ForwardInner ==
    ASSUME NEW t, Inner(t), Vacant(t), t.id # 0, Loggable(t), Answers(t), Fresh(t.out, t.id)
    PROVE  /\ Inner(ConnectUpstream(t)) /\ Inner(ForwardRequest(t))
           /\ Answers(ConnectUpstream(t)) /\ Answers(ForwardRequest(t))
<1>1. ASSUME NEW c, Inner(c), Vacant(c), c.id # 0, Loggable(c), Answers(c), Fresh(c.out, c.id)
      PROVE  Inner(ConnectUpstream(c)) /\ Answers(ConnectUpstream(c))
  <2>1. "resolve" \in Turn /\ Begins(c, "resolve")
    BY <1>1, Names DEF Begins
  <2> QED
    BY <1>1, <2>1, VacantFacts, StartInner DEF ConnectUpstream, Vacant
<1>2. PICK c : c = CloseServer(t)
  OBVIOUS
<1>3. Completed(t, c)
  BY <1>2, CloseServerFacts DEF Inner, Core
<1>4. Inner(c)
  BY <1>3, CompletedInner
<1>5. Vacant(c) /\ c.id # 0 /\ Loggable(c) /\ Answers(c) /\ Fresh(c.out, c.id)
  <2>1. Vacant(c) /\ c.id # 0 /\ Loggable(c) /\ Fresh(c.out, c.id)
    BY <1>3, Names DEF Completed, Vacant, Data, Flags, Loggable
  <2>2. Answers(c)
    BY <1>3, FewerAnswers, Names DEF Completed, Data, Flags
  <2> QED
    BY <2>1, <2>2
<1> QED
  BY <1>1, <1>2, <1>4, <1>5 DEF ForwardRequest

\* The next transaction: all that was answered before it is complete.
LEMMA TransactionInner ==
    ASSUME NEW t, Inner(t), Vacant(t), t.id = 0, ~t.resp, ~t.tunnel,
           Answers(t), Fresh(t.out, 0), NEW u, u = NewTransaction(t)
    PROVE  /\ Inner(u) /\ Vacant(u) /\ u.id # 0 /\ ~u.resp /\ ~u.tunnel /\ Loggable(u)
           /\ Flags(t, u) /\ Answers(u) /\ Fresh(u.out, u.id)
<1>1. t \in Object /\ Core(t)
  BY DEF Inner, Core
<1>2. PICK k \in Nat : k = t.n + 1 /\ t.n \in Nat
  BY <1>1 DEF Object
<1>3. u = [t EXCEPT !.id = k, !.n = k]
  BY <1>1, <1>2 DEF NewTransaction, Object
<1>4. /\ u \in Object /\ u.ops = t.ops /\ u.done = t.done /\ Flags(t, u)
      /\ u.id = k /\ u.n = k /\ u.resp = t.resp /\ u.tunnel = t.tunnel
      /\ u.log = t.log /\ u.wq = t.wq /\ u.swq = t.swq /\ u.out = t.out
  BY <1>1, <1>3 DEF Object, Flags
<1>5. AllOnce(u) /\ \A o : Live(u, o) <=> Live(t, o)
  BY <1>1, <1>4, QueuesDecide DEF Core
<1>6. Vacant(u) /\ k # 0
  BY <1>2, <1>4, <1>5 DEF Vacant, Flags
<1>7. \A i \in DOMAIN t.log : t.log[i].id \in Nat /\ t.log[i].id <= t.n
  <2> SUFFICES ASSUME NEW i \in DOMAIN t.log PROVE t.log[i].id \in Nat /\ t.log[i].id <= t.n
    OBVIOUS
  <2>1. t.log \in Seq(Entry)
    BY <1>1 DEF Object
  <2>2. t.log[i] \in Entry
    BY <2>1
  <2> QED
    BY <1>1, <2>2 DEF Entry, Core, Entries
<1>8. \A i \in DOMAIN t.out : t.out[i].id \in Nat /\ t.out[i].id <= t.n
  <2> SUFFICES ASSUME NEW i \in DOMAIN t.out PROVE t.out[i].id \in Nat /\ t.out[i].id <= t.n
    OBVIOUS
  <2>1. t.out \in Seq(Chunk)
    BY <1>1 DEF Object
  <2>2. t.out[i] \in Chunk
    BY <2>1
  <2> QED
    BY <1>1, <2>2 DEF Chunk, Core, Stream, Bounded
<1>9. OnePlace(u) /\ Transactions(u)
  <2>1. ~u.tunnel /\ ~u.held /\ ~Serving(u) /\ ~Live(u, "readClient")
    BY <1>4, <1>6, VacantFacts DEF Vacant
  <2> QED
    BY <1>4, <1>6, <2>1 DEF OnePlace, Vacant, Transactions
<1>10. Writes(u)
  BY <1>1, <1>4, <1>5 DEF Core, Writes
<1>11. Loggable(u)
  BY <1>2, <1>4, <1>7 DEF Loggable
<1>12. Entries(u)
  <2>1. \A i \in DOMAIN u.log : u.log[i].id <= u.n
    BY <1>2, <1>4, <1>7
  <2> QED
    BY <1>1, <1>4, <1>11, <2>1 DEF Core, Entries
<1>13. Stream(u)
  <2>1. Bounded(u.out, u.n)
    BY <1>2, <1>4, <1>8 DEF Bounded
  <2>2. Complete(u.out, u.id)
    BY <1>1, <1>4 DEF Core, Stream, Complete
  <2> QED
    BY <1>1, <1>4, <2>1, <2>2 DEF Core, Stream
<1>14. Flows(u) /\ Watches(u)
  BY <1>4, <1>5, StaysGuarded DEF Inner
<1>15. Fresh(u.out, u.id)
  BY <1>2, <1>4, <1>8 DEF Fresh
<1>16. Answers(u)
  BY <1>4, <1>15, FreshIsOpen DEF Answers
<1> QED
  BY <1>4, <1>5, <1>6, <1>9, <1>10, <1>11, <1>12, <1>13, <1>14, <1>15, <1>16 DEF Inner, Core
-----------------------------------------------------------------------------
(* A handler taken from the queue, and the rest of what handlers do *)

\* Whatever ran but the timer, the decision and the client's write, the
\* connection is guarded as before.
LEMMA TakenInner ==
    ASSUME IInv, NEW op \in All, Due(op)
    PROVE  /\ op # "writeClient" => Flows(Ran)
           /\ op \notin {"timer", "decision", "writeClient"} => Inner(Ran)
<1>1. /\ Core(Ran) /\ Data(s, Ran) /\ Flags(s, Ran)
      /\ \A o \in All \ {"timer"} : Live(Ran, o) <=> Live(s, o) /\ o # op
      /\ op # "timer" => (Live(Ran, "timer") <=> Live(s, "timer"))
  BY TakenFacts
<1>2. Flows(s) /\ Watches(s)
  BY DEF IInv, Inner
<1>3. op # "writeClient" => Flows(Ran)
  BY <1>1, <1>2, Names DEF Flows, Data, Flags
<1>4. op \notin {"timer", "decision", "writeClient"} => Watches(Ran)
  BY <1>1, <1>2, Names DEF Watches, Flags
<1> QED
  BY <1>1, <1>3, <1>4 DEF Inner

\* Where the turn was, no other place has it now.
LEMMA TakenPlace ==
    ASSUME IInv, NEW op \in Places, Due(op)
    PROVE  /\ ~Ran.held
           /\ \A a \in Places : Live(Ran, a) => BothSides(Ran, a, op)
           /\ Ran.tunnel => op \notin {"writeUp", "decision"}
           /\ ~Ran.tunnel \/ op \notin {"readClient", "readUp"} => Vacant(Ran)
           /\ op # "readClient" => Ran.id # 0 /\ Loggable(Ran)
           /\ op = "readClient" /\ ~Ran.tunnel => Ran.id = 0 /\ ~Ran.resp
           /\ op # "readUp" /\ ~(op = "readClient" /\ Ran.tunnel) => Fresh(Ran.out, Ran.id)
           /\ op = "readUp" => Open(Ran.out, Ran.id)
<1>1. op \in All /\ op # "timer"
  BY Names
<1>2. /\ Core(Ran) /\ Data(s, Ran) /\ Flags(s, Ran) /\ Live(s, op)
      /\ \A o \in Places : Live(Ran, o) <=> Live(s, o) /\ o # op
  BY <1>1, TakenFacts, Names
<1>3. OnePlace(s) /\ Transactions(s) /\ Entries(s)
  BY DEF IInv, Inner, Core
<1>4. ~Ran.held
  BY <1>2, <1>3 DEF OnePlace, Flags
<1>5. \A a \in Places : Live(Ran, a) => BothSides(Ran, a, op)
  BY <1>2, <1>3 DEF OnePlace, BothSides, Data
<1>6. Ran.tunnel => op \notin {"writeUp", "decision"}
  BY <1>2, <1>3 DEF OnePlace, Data
<1>7. ASSUME ~Ran.tunnel \/ op \notin {"readClient", "readUp"} PROVE Vacant(Ran)
  <2> SUFFICES ASSUME NEW a \in Places, Live(Ran, a) PROVE FALSE
    BY <1>4 DEF Vacant
  <2>1. Ran.tunnel /\ {a, op} = {"readClient", "readUp"}
    BY <1>5 DEF BothSides
  <2> QED
    BY <1>7, <2>1
<1>8. ASSUME op # "readClient" PROVE Ran.id # 0 /\ Loggable(Ran)
  <2>1. Serving(s)
    BY <1>2, <1>8, Names DEF Serving
  <2> QED
    BY <1>2, <1>3, <2>1 DEF Transactions, Entries, Loggable, Data
<1>9. op = "readClient" /\ ~Ran.tunnel => Ran.id = 0 /\ ~Ran.resp
  BY <1>2, <1>3 DEF Transactions, Data
<1>10. ASSUME op # "readUp", ~(op = "readClient" /\ Ran.tunnel) PROVE Fresh(Ran.out, Ran.id)
  <2>1. Asking(s)
    BY <1>2, <1>10, Names DEF Asking, Data
  <2> QED
    BY <1>2, <2>1 DEF IInv, Answers, Data
<1>11. op = "readUp" => Open(Ran.out, Ran.id)
  BY <1>2 DEF IInv, Answers, Data
<1> QED
  BY <1>4, <1>5, <1>6, <1>7, <1>8, <1>9, <1>10, <1>11

LEMMA VacantAdmits ==
    ASSUME NEW t, Vacant(t), t.id = 0 \/ Loggable(t), NEW status \in Statuses
    PROVE  Admits(t, status) /\ (Answers(t) /\ Fresh(t.out, t.id) => Allows(t, status))
  BY VacantFacts DEF Admits, Allows, Answers

\* Only the writes of t are not those of u.
LEMMA SameCore ==
    ASSUME NEW t, Core(t), NEW u \in Object, AllOnce(u), u.held = t.held, u.id = t.id,
           u.n = t.n, u.resp = t.resp, u.tunnel = t.tunnel, u.out = t.out, u.log = t.log,
           \A o \in Places : Live(u, o) <=> Live(t, o), Tame(t) => Tame(u), Writes(u)
    PROVE  Core(u)
<1>1. OnePlace(u) /\ Transactions(u) /\ (Serving(u) <=> Serving(t))
  BY SamePlaces
<1>2. Entries(u) /\ Stream(u)
  BY <1>1 DEF Core, Entries, Loggable, Stream
<1> QED
  BY <1>1, <1>2 DEF Core

\* Bytes of a tunnel for the upstream.
LEMMA BlindInner ==
    ASSUME NEW t, Inner(t), NEW u, u = WriteServerBlind(t)
    PROVE  /\ Inner(u) /\ u.held = t.held /\ u.tunnel = t.tunnel /\ u.id = t.id
           /\ \A o \in Places : Live(u, o) <=> Live(t, o)
           /\ Answers(t) => Answers(u)
<1> DEFINE v == [t EXCEPT !.swq = @ + 1]
<1>1. t \in Object /\ t.swq \in Nat /\ Core(t)
  BY DEF Inner, Core, Object
<1>2. /\ v \in Object /\ v.ops = t.ops /\ v.done = t.done /\ v.swq = t.swq + 1 /\ Flags(t, v)
      /\ v.id = t.id /\ v.n = t.n /\ v.resp = t.resp /\ v.tunnel = t.tunnel
      /\ v.out = t.out /\ v.log = t.log /\ v.wq = t.wq
  <2>1. PICK k \in Nat : k = t.swq + 1
    BY <1>1
  <2>2. v = [t EXCEPT !.swq = k]
    BY <1>1, <2>1 DEF Object
  <2> HIDE DEF v
  <2>3. v \in Object /\ v.ops = t.ops /\ v.done = t.done /\ v.swq = k
    BY <1>1, <2>2 DEF Object
  <2>4. /\ v.id = t.id /\ v.n = t.n /\ v.resp = t.resp /\ v.tunnel = t.tunnel /\ Flags(t, v)
        /\ v.out = t.out /\ v.log = t.log /\ v.wq = t.wq
    BY <1>1, <2>2 DEF Object, Flags
  <2> QED
    BY <2>1, <2>3, <2>4
<1>3. u = IF t.swq = 0 THEN Start(v, "writeSrv") ELSE v
  BY DEF WriteServerBlind
<1> HIDE DEF v
<1>4. AllOnce(v) /\ (\A o : Live(v, o) <=> Live(t, o)) /\ (Tame(t) => Tame(v))
  BY <1>1, <1>2, QueuesDecide DEF Core
<1>5. /\ u \in Object /\ AllOnce(u) /\ Data(v, u) /\ Flags(v, u) /\ (Tame(v) => Tame(u))
      /\ \A o \in All : Live(u, o) <=> Live(v, o) \/ (o = "writeSrv" /\ t.swq = 0)
  <2>1. CASE t.swq = 0
    <3>1. ~Live(v, "writeSrv") /\ "writeSrv" \in Ops
      BY <1>1, <1>4, <2>1, OpNames DEF Core, Writes
    <3> QED
      BY <1>2, <1>3, <1>4, <2>1, <3>1, StartFacts
  <2>2. CASE t.swq # 0
    BY <1>2, <1>3, <1>4, <2>2 DEF Data, Flags
  <2> QED
    BY <2>1, <2>2
<1>6. /\ Flags(t, u) /\ u.wq = t.wq /\ u.swq = t.swq + 1
      /\ u.id = t.id /\ u.n = t.n /\ u.resp = t.resp /\ u.tunnel = t.tunnel
      /\ u.out = t.out /\ u.log = t.log /\ (Tame(t) => Tame(u))
      /\ \A o \in All \ {"writeSrv"} : Live(u, o) <=> Live(t, o)
      /\ \A o \in All : Live(t, o) => Live(u, o)
  BY <1>2, <1>4, <1>5, Names DEF Data, Flags
<1>7. \A o \in Places : Live(u, o) <=> Live(t, o)
  BY <1>6, Names
<1>8. Writes(u)
  BY <1>1, <1>6, Names DEF Core, Writes
<1>9. Core(u)
  BY <1>1, <1>5, <1>6, <1>7, <1>8, SameCore DEF Flags
<1>10. Flows(u) /\ Watches(u)
  BY <1>6, StaysGuarded DEF Inner
<1>11. Answers(t) => Answers(u)
  BY <1>6, <1>7, FewerAnswers DEF Flags
<1> QED
  BY <1>6, <1>7, <1>9, <1>10, <1>11 DEF Inner, Flags
-----------------------------------------------------------------------------
(* The handlers *)

\* What every page is answered with.
LEMMA StatusNames ==
    {"tunnel", "response", "page", "400", "500", "502", "504", "dropped"} = Statuses
  BY DEF Statuses

LEMMA ResolveStep == ASSUME IInv, HandleResolve PROVE Inner(s') /\ Answers(s')
<1>1. Due("resolve") /\ "resolve" \in Places /\ "resolve" \in All
  BY Names DEF HandleResolve
<1>2. Inner(Ran) /\ Core(Ran) /\ Flows(Ran)
  BY <1>1, TakenInner DEF Inner
<1>3. Vacant(Ran) /\ Ran.id # 0 /\ Loggable(Ran) /\ Answers(Ran) /\ Fresh(Ran.out, Ran.id)
  BY <1>1, TakenPlace, TakenFacts
<1>4. CASE Result \in Failed
  <2>1. s' = SendPage(Ran, "502") /\ "502" \in Statuses
    BY <1>4, StatusNames DEF HandleResolve
  <2>2. Admits(Ran, "502") /\ Allows(Ran, "502")
    BY <1>3, <2>1, VacantAdmits
  <2> QED
    BY <1>2, <2>1, <2>2, SendPageInner
<1>5. CASE Result \notin Failed
  <2>1. s' = Start(Ran, "connect") /\ "connect" \in Turn
    BY <1>5, Names DEF HandleResolve
  <2>2. Begins(Ran, "connect")
    BY <1>3 DEF Begins
  <2>3. Inner(Start(Ran, "connect")) /\ Answers(Start(Ran, "connect"))
    BY <1>2, <1>3, <2>1, <2>2, StartInner DEF Vacant
  <2> QED
    BY <2>1, <2>3
<1> QED
  BY <1>4, <1>5

LEMMA UpstreamWriteStep == ASSUME IInv, HandleUpstreamWrite PROVE Inner(s') /\ Answers(s')
<1>1. Due("writeUp") /\ "writeUp" \in Places /\ "writeUp" \in All
  BY Names DEF HandleUpstreamWrite
<1>2. Inner(Ran) /\ Core(Ran) /\ Flows(Ran)
  BY <1>1, TakenInner DEF Inner
<1>3. Vacant(Ran) /\ Ran.id # 0 /\ Loggable(Ran) /\ Answers(Ran) /\ Fresh(Ran.out, Ran.id)
  BY <1>1, TakenPlace, TakenFacts
<1>4. CASE Result \in Failed
  <2>1. s' = SendPage(Ran, "502") /\ "502" \in Statuses
    BY <1>4, StatusNames DEF HandleUpstreamWrite
  <2>2. Admits(Ran, "502") /\ Allows(Ran, "502")
    BY <1>3, <2>1, VacantAdmits
  <2> QED
    BY <1>2, <2>1, <2>2, SendPageInner
<1>5. CASE Result \notin Failed
  <2>1. s' = Start(Ran, "readUp") /\ "readUp" \in Turn
    BY <1>5, Names DEF HandleUpstreamWrite
  <2>2. Begins(Ran, "readUp")
    BY <1>3, FreshIsOpen DEF Begins
  <2>3. Inner(Start(Ran, "readUp")) /\ Answers(Start(Ran, "readUp"))
    BY <1>2, <1>3, <2>1, <2>2, StartInner DEF Vacant
  <2> QED
    BY <2>1, <2>3
<1> QED
  BY <1>4, <1>5

LEMMA DecisionStep == ASSUME IInv, HandleDecision PROVE Inner(s') /\ Answers(s')
<1>1. Due("decision") /\ "decision" \in Places /\ "decision" \in All
  BY Names DEF HandleDecision
<1>2. Core(Ran) /\ Flows(Ran) /\ Flags(s, Ran)
  BY <1>1, TakenInner, TakenFacts
<1>3. Vacant(Ran) /\ Ran.id # 0 /\ Loggable(Ran) /\ Answers(Ran) /\ Fresh(Ran.out, Ran.id)
  BY <1>1, TakenPlace, TakenFacts
<1>4. PICK r : r = ResetTimer(Ran)
  OBVIOUS
<1>5. /\ Inner(r) /\ (Answers(Ran) => Answers(r)) /\ Data(Ran, r) /\ r.held = Ran.held
      /\ \A o : Live(r, o) <=> Live(Ran, o)
  BY <1>2, <1>4, ResetInner
<1>6. /\ Vacant(r) /\ r.id # 0 /\ Loggable(r) /\ Core(r) /\ Flows(r)
      /\ Answers(r) /\ Fresh(r.out, r.id)
  BY <1>3, <1>5 DEF Vacant, Loggable, Data, Inner
<1>7. CASE s.cli # "open"
  <2>1. s' = Ran
    BY <1>7 DEF HandleDecision
  <2>2. Inner(Ran)
    BY <1>2, <1>7 DEF Inner, Flows, Watches, Flags
  <2> QED
    BY <1>3, <2>1, <2>2
<1>8. CASE s.cli = "open" /\ Result = "forward"
  <2>1. s' = ForwardRequest(r)
    BY <1>4, <1>8 DEF HandleDecision
  <2> QED
    BY <1>5, <1>6, <2>1, ForwardInner
<1>9. CASE s.cli = "open" /\ Result # "forward"
  <2>1. s' = SendPage(r, "dropped") /\ "dropped" \in Statuses
    BY <1>4, <1>9, StatusNames DEF HandleDecision
  <2>2. Admits(r, "dropped") /\ Allows(r, "dropped")
    BY <1>6, <2>1, VacantAdmits
  <2> QED
    BY <1>6, <2>1, <2>2, SendPageInner
<1> QED
  BY <1>7, <1>8, <1>9

LEMMA TimeoutStep == ASSUME IInv, HandleTimeout PROVE Inner(s') /\ Answers(s')
<1>1. Due("timer") /\ "timer" \in All
  BY Names DEF HandleTimeout
<1>2. /\ Core(Ran) /\ Flows(Ran) /\ Data(s, Ran) /\ Flags(s, Ran)
      /\ Ran \in Object /\ AllOnce(Ran) /\ Answers(Ran)
  BY <1>1, TakenInner, TakenFacts DEF Core
<1>3. CASE s.id # 0 /\ ~s.resp /\ ~s.tunnel
  <2>1. PICK t \in CancelUpstream(Ran) : s' = SendPage(t, "504")
    BY <1>3 DEF HandleTimeout
  <2>2. Completed(Ran, t)
    BY <1>2, CancelFacts
  <2>3. Core(t)
    BY <1>2, <2>2, CompletedCore
  <2>4. Flows(t)
    BY <1>2, <2>2, Names DEF Flows, Completed, Data, Flags
  <2>5. t.id # 0 /\ ~t.resp /\ ~t.tunnel
    BY <1>2, <1>3, <2>2 DEF Completed, Data
  <2>6. Admits(t, "504")
    BY <2>3, <2>5 DEF Core, Transactions, Entries, Admits
  <2>7. "504" \in Statuses
    BY StatusNames
  <2>8. Answers(t)
    BY <1>2, <2>2, FewerAnswers, Names DEF Completed, Data, Flags
  <2>9. Allows(t, "504")
    BY <2>5, <2>8 DEF Answers, Allows
  <2> QED
    BY <2>1, <2>3, <2>4, <2>6, <2>7, <2>9, SendPageInner
<1>4. CASE ~(s.id # 0 /\ ~s.resp /\ ~s.tunnel)
  BY <1>2, <1>4, CloseInner DEF HandleTimeout
<1> QED
  BY <1>3, <1>4

LEMMA UpstreamConnectStep == ASSUME IInv, HandleUpstreamConnect PROVE Inner(s') /\ Answers(s')
<1>1. Due("connect") /\ "connect" \in Places /\ "connect" \in All
  BY Names DEF HandleUpstreamConnect
<1>2. Inner(Ran) /\ Core(Ran) /\ Flows(Ran) /\ Data(s, Ran)
  BY <1>1, TakenInner, TakenFacts DEF Inner
<1>3. Vacant(Ran) /\ Ran.id # 0 /\ Loggable(Ran) /\ Answers(Ran) /\ Fresh(Ran.out, Ran.id)
  BY <1>1, TakenPlace, TakenFacts
<1>4. CASE Result \in Failed
  <2>1. s' = SendPage(Ran, "502") /\ "502" \in Statuses
    BY <1>4, StatusNames DEF HandleUpstreamConnect
  <2>2. Admits(Ran, "502") /\ Allows(Ran, "502")
    BY <1>3, <2>1, VacantAdmits
  <2> QED
    BY <1>2, <2>1, <2>2, SendPageInner
<1>5. CASE Result \notin Failed /\ s.tunnel
  <2>1. PICK e : e = [id |-> s.id, last |-> FALSE, status |-> "tunnel"]
    OBVIOUS
  <2>2. /\ e \in Chunk /\ e.id = Ran.id /\ Whole(e)
        /\ ~e.last /\ e.status \in Relayed \cup {"504"}
    BY <1>2, <1>3, <2>1, StatusNames DEF Chunk, Whole, Core, Object, Data, Relayed
  <2>3. PICK w : w = WriteClient(Ran, e)
    OBVIOUS
  <2>4. s' = Start(Start(w, "readClient"), "readUp")
    BY <1>5, <2>1, <2>3 DEF HandleUpstreamConnect
  <2>5. /\ Inner(w) /\ Flags(Ran, w) /\ w.id = Ran.id /\ w.resp = Ran.resp
        /\ w.tunnel = Ran.tunnel /\ w.log = Ran.log
        /\ w.out = Append(Ran.out, e)
        /\ \A o \in Places : Live(w, o) <=> Live(Ran, o)
    <3>1. /\ Flags(Ran, w) /\ w.id = Ran.id /\ w.resp = Ran.resp
          /\ w.tunnel = Ran.tunnel /\ w.log = Ran.log
          /\ w.out = Append(Ran.out, e)
          /\ \A o \in All \ {"writeClient"} : Live(w, o) <=> Live(Ran, o)
      BY <1>2, <2>2, <2>3, WriteCore
    <3>2. Inner(w)
      BY <1>2, <2>2, <2>3, WriteInner
    <3> QED
      BY <3>1, <3>2, Names
  <2>6. Vacant(w) /\ w.tunnel /\ w.id # 0 /\ Loggable(w) /\ ~w.held
    BY <1>2, <1>3, <1>5, <2>5 DEF Vacant, Loggable, Flags, Data
  <2>7. Unbroken(w.out) /\ Open(w.out, w.id)
    BY <1>2, <1>3, <2>2, <2>5, RelayGoesOn, FreshIsOpen DEF Answers
  <2>8. Begins(w, "readClient")
    BY <2>6, <2>7, VacantFacts DEF Begins, Answers
  <2>9. "readClient" \in Turn /\ "readUp" \in Turn
    BY Names
  <2>10. PICK x : x = Start(w, "readClient")
    OBVIOUS
  <2>11. \A a \in Places : Live(w, a) => BothSides(w, a, "readClient")
    BY <2>6 DEF Vacant
  <2>12. /\ Inner(x) /\ Answers(x) /\ Data(w, x) /\ Flags(w, x)
         /\ \A o \in All : Live(x, o) <=> Live(w, o) \/ o = "readClient"
    BY <2>5, <2>6, <2>9, <2>10, <2>11, <2>8, StartInner, StartCore DEF Inner
  <2>13. x.tunnel /\ x.id # 0 /\ Loggable(x) /\ ~x.held
    BY <2>6, <2>12 DEF Loggable, Data, Flags
  <2>14. \A a \in Places : Live(x, a) => BothSides(x, a, "readUp")
    BY <2>6, <2>12, <2>13, Names DEF Vacant, BothSides
  <2>15. Begins(x, "readUp")
    BY <2>12, <2>7 DEF Begins, Data
  <2>16. Inner(Start(x, "readUp")) /\ Answers(Start(x, "readUp"))
    BY <2>9, <2>12, <2>13, <2>14, <2>15, StartInner
  <2> QED
    BY <2>4, <2>10, <2>16
<1>6. CASE Result \notin Failed /\ ~s.tunnel
  <2>1. s' = Start(Ran, "writeUp") /\ "writeUp" \in Turn
    BY <1>6, Names DEF HandleUpstreamConnect
  <2>2. ~Ran.tunnel
    BY <1>2, <1>6 DEF Data
  <2>3. Begins(Ran, "writeUp")
    BY <1>3 DEF Begins
  <2>4. Inner(Start(Ran, "writeUp")) /\ Answers(Start(Ran, "writeUp"))
    BY <1>2, <1>3, <2>1, <2>2, <2>3, StartInner DEF Vacant
  <2> QED
    BY <2>1, <2>4
<1> QED
  BY <1>4, <1>5, <1>6
\* The response is complete: the transaction ends, nothing has the turn.
LEMMA ClearInner ==
    ASSUME NEW t, Inner(t), Vacant(t), Complete(t.out, 0),
           Unbroken(t.out), Fresh(t.out, 0),
           NEW u, u = [t EXCEPT !.id = 0, !.resp = FALSE, !.tunnel = FALSE]
    PROVE  /\ Inner(u) /\ Vacant(u) /\ u.id = 0 /\ ~u.resp /\ ~u.tunnel
           /\ Answers(u) /\ Fresh(u.out, u.id)
<1>1. t \in Object /\ Core(t)
  BY DEF Inner, Core
<1>2. /\ u \in Object /\ u.ops = t.ops /\ u.done = t.done /\ Flags(t, u)
      /\ u.id = 0 /\ ~u.resp /\ ~u.tunnel /\ u.n = t.n
      /\ u.log = t.log /\ u.wq = t.wq /\ u.swq = t.swq /\ u.out = t.out
  BY <1>1 DEF Object, Flags
<1>3. AllOnce(u) /\ \A o : Live(u, o) <=> Live(t, o)
  BY <1>1, <1>2, QueuesDecide DEF Core
<1>4. Vacant(u)
  BY <1>2, <1>3 DEF Vacant, Flags
<1>5. OnePlace(u) /\ Transactions(u)
  <2>1. ~Serving(u) /\ ~Live(u, "readClient")
    BY <1>4, VacantFacts
  <2> QED
    BY <1>2, <1>4, <2>1 DEF OnePlace, Vacant, Transactions
<1>6. Writes(u) /\ Entries(u) /\ Stream(u)
  BY <1>1, <1>2, <1>3 DEF Core, Writes, Entries, Stream
<1>7. Flows(u) /\ Watches(u)
  BY <1>2, <1>3, StaysGuarded DEF Inner
<1>8. Answers(u) /\ Fresh(u.out, u.id)
  BY <1>2, <1>4, VacantFacts DEF Answers
<1> QED
  BY <1>2, <1>3, <1>4, <1>5, <1>6, <1>7, <1>8 DEF Inner, Core

\* An answer is under way to the client and the connection will be closed.
LEMMA LastInner ==
    ASSUME NEW t, Inner(t), NEW u, u = [t EXCEPT !.caw = TRUE]
    PROVE  Inner(u) /\ (Answers(t) => Answers(u))
<1>1. /\ u \in Object /\ u.ops = t.ops /\ u.done = t.done /\ Data(t, u) /\ u.caw
      /\ u.cli = t.cli /\ u.timer = t.timer /\ u.held = t.held
  BY DEF Inner, Core, Object, Data
<1>2. AllOnce(u) /\ (\A o : Live(u, o) <=> Live(t, o)) /\ (Tame(t) => Tame(u))
  BY <1>1, QueuesDecide DEF Inner, Core
<1>3. Core(u)
  BY <1>1, <1>2, FewerCore DEF Inner
<1>4. Flows(u) /\ Watches(u)
  BY <1>1, <1>2 DEF Inner, Flows, Watches, Data
<1>5. Answers(t) => Answers(u)
  BY <1>1, <1>2, FewerAnswers DEF Data
<1> QED
  BY <1>3, <1>4, <1>5 DEF Inner

\* A chunk of the response is relayed.
LEMMA RelayInner ==
    ASSUME NEW t, Inner(t), t.id # 0, NEW e \in Chunk, e.id = t.id, NEW u, u = WriteClient(t, e)
    PROVE  /\ Inner(u) /\ u.id = t.id /\ u.tunnel = t.tunnel /\ u.held = t.held
           /\ \A o \in Places : Live(u, o) <=> Live(t, o)
           /\ Loggable(t) => Loggable(u)
           /\ e.last => Complete(u.out, 0)
           /\ u.out = Append(t.out, e) /\ u.resp = t.resp
<1>1. Whole(e)
  BY DEF Whole
<1>2. /\ Inner(u) /\ Flags(t, u)
      /\ u.id = t.id /\ u.resp = t.resp /\ u.tunnel = t.tunnel /\ u.log = t.log
      /\ \A o \in All \ {"writeClient"} : Live(u, o) <=> Live(t, o)
      /\ e.last => Complete(u.out, 0)
      /\ u.out = Append(t.out, e)
  BY <1>1, WriteInner, WriteCore DEF Inner
<1> QED
  BY <1>2, Names DEF Flags, Loggable

LEMMA UpstreamReadStep == ASSUME IInv, HandleUpstreamRead PROVE Inner(s') /\ Answers(s')
<1>1. Due("readUp") /\ "readUp" \in Places /\ "readUp" \in All
  BY Names DEF HandleUpstreamRead
<1>2. /\ Inner(Ran) /\ Core(Ran) /\ Flows(Ran) /\ Data(s, Ran)
      /\ s.tunnel => Result \in Failed \cup {"part"}
  BY <1>1, TakenInner, TakenFacts DEF Inner
<1>3. /\ \A a \in Places : Live(Ran, a) => BothSides(Ran, a, "readUp")
      /\ ~Ran.tunnel => Vacant(Ran)
      /\ ~Ran.held /\ Ran.id # 0 /\ Loggable(Ran)
      /\ Answers(Ran) /\ Open(Ran.out, Ran.id)
  BY <1>1, TakenPlace, TakenFacts
<1>4. PICK r : r = ResetTimer(Ran)
  OBVIOUS
<1>5. /\ Inner(r) /\ (Answers(Ran) => Answers(r)) /\ Data(Ran, r) /\ r.held = Ran.held
      /\ \A o : Live(r, o) <=> Live(Ran, o)
  BY <1>2, <1>4, ResetInner
<1>6. /\ \A a \in Places : Live(r, a) => BothSides(r, a, "readUp")
      /\ ~r.tunnel => Vacant(r)
      /\ ~r.held /\ r.id # 0 /\ Loggable(r) /\ r.id = s.id /\ r.tunnel = s.tunnel
      /\ Answers(r) /\ Open(r.out, r.id)
  BY <1>2, <1>3, <1>5 DEF Vacant, Loggable, Data, BothSides
<1>7. PICK e : e = [id |-> s.id, last |-> Result \in {"keep", "last"},
                   status |-> "response"]
  OBVIOUS
<1>8. /\ e \in Chunk /\ e.id = r.id /\ (e.last <=> Result \in {"keep", "last"})
      /\ e.status \in Relayed \cup {"504"}
  <2>1. PICK b \in BOOLEAN : b = (Result \in {"keep", "last"})
    <3>1. (Result \in {"keep", "last"}) \in BOOLEAN
      OBVIOUS
    <3> QED
      BY <3>1
  <2>2. e = [id |-> s.id, last |-> b, status |-> "response"] /\ s.id \in Nat
    BY <1>7, <2>1 DEF IInv, Inner, Core, Object
  <2> QED
    BY <1>6, <2>1, <2>2, StatusNames DEF Chunk, Relayed
<1>9. PICK t : t = WriteClient(r, e)
  OBVIOUS
<1>10. /\ Inner(t) /\ t.id = r.id /\ t.tunnel = r.tunnel /\ t.held = r.held
       /\ \A o \in Places : Live(t, o) <=> Live(r, o)
       /\ Loggable(t)
       /\ Result \in {"keep", "last"} => Complete(t.out, 0)
       /\ t.out = Append(r.out, e) /\ t.resp = r.resp
  BY <1>5, <1>6, <1>8, <1>9, RelayInner
<1>11. /\ Unbroken(t.out) /\ Fresh(t.out, 0)
       /\ Result \notin {"keep", "last"} => Open(t.out, t.id)
  BY <1>5, <1>6, <1>8, <1>10, RelayGoesOn DEF Answers, Inner
<1>12. \/ Result \in Failed /\ s' = Close(Ran)
       \/ Result = "part"   /\ s' = Start(t, "readUp")
       \/ Result = "keep"   /\ s' = NextRequest(LogAs(t, "response"))
       \/ Result = "last"   /\ s' = [LogAs(t, "response") EXCEPT !.caw = TRUE]
  BY <1>4, <1>7, <1>9 DEF HandleUpstreamRead
<1>13. CASE Result \in Failed /\ s' = Close(Ran)
  BY <1>2, <1>3, <1>13, CloseInner
<1>14. CASE Result = "part" /\ s' = Start(t, "readUp")
  <2>1. \A a \in Places : Live(t, a) => BothSides(t, a, "readUp")
    BY <1>6, <1>10 DEF BothSides
  <2>2. "readUp" \in Turn /\ ~t.held /\ t.id # 0
    BY <1>6, <1>10, Names
  <2>3. Begins(t, "readUp")
    <3>1. Open(t.out, t.id) /\ Unbroken(t.out)
      BY <1>14, <1>11
    <3>2. ~Asking(t)
      BY <1>6, <2>1, <2>2, Names DEF Asking, BothSides
    <3> QED
      BY <3>1, <3>2 DEF Begins, Answers
  <2>4. Inner(Start(t, "readUp")) /\ Answers(Start(t, "readUp"))
    BY <1>10, <2>1, <2>2, <2>3, StartInner
  <2> QED
    BY <1>14, <2>4
<1>15. ASSUME Result \in {"keep", "last"}
       PROVE  \A u : u = LogAs(t, "response") =>
                       /\ Inner(u) /\ Vacant(u) /\ Complete(u.out, 0)
                       /\ Answers(u) /\ Unbroken(u.out) /\ Fresh(u.out, 0)
  <2>1. ~s.tunnel
    BY <1>2, <1>15 DEF Failed
  <2>2. Vacant(t) /\ Loggable(t) /\ Complete(t.out, 0)
    BY <1>6, <1>10, <1>15, <2>1 DEF Vacant
  <2>3. Admits(t, "response") /\ "response" \in Statuses
    BY <2>2, StatusNames, VacantAdmits
  <2> SUFFICES ASSUME NEW u, u = LogAs(t, "response")
               PROVE  /\ Inner(u) /\ Vacant(u) /\ Complete(u.out, 0)
                      /\ Answers(u) /\ Unbroken(u.out) /\ Fresh(u.out, 0)
    OBVIOUS
  <2>4. Inner(u) /\ \A o : Live(u, o) <=> Live(t, o)
    BY <1>10, <2>3, LogInner, LogCore DEF Inner
  <2>5. u.out = t.out /\ u.resp /\ Flags(t, u)
    <3>1. t \in Object
      BY <1>10 DEF Inner, Core
    <3> QED
      BY <2>3, <3>1, LogFacts
  <2>6. Vacant(u)
    BY <2>2, <2>4, <2>5 DEF Vacant, Flags
  <2>7. Answers(u)
    BY <1>11, <2>5, <2>6, VacantFacts DEF Answers
  <2> QED
    BY <1>11, <2>2, <2>4, <2>5, <2>6, <2>7
<1>16. CASE Result = "keep" /\ s' = NextRequest(LogAs(t, "response"))
  <2>1. PICK u : u = LogAs(t, "response")
    OBVIOUS
  <2>2. PICK v : v = [u EXCEPT !.id = 0, !.resp = FALSE, !.tunnel = FALSE]
    OBVIOUS
  <2>3. s' = Start(v, "readClient") /\ "readClient" \in Turn
    BY <1>16, <2>1, <2>2, Names DEF NextRequest
  <2>4. /\ Inner(v) /\ Vacant(v) /\ v.id = 0 /\ ~v.resp /\ ~v.tunnel
        /\ Answers(v) /\ Fresh(v.out, v.id)
    BY <1>15, <1>16, <2>1, <2>2, ClearInner
  <2>5. Begins(v, "readClient")
    BY <2>4 DEF Begins
  <2>6. Inner(Start(v, "readClient")) /\ Answers(Start(v, "readClient"))
    BY <2>3, <2>4, <2>5, StartInner DEF Vacant
  <2> QED
    BY <2>3, <2>6
<1>17. CASE Result = "last" /\ s' = [LogAs(t, "response") EXCEPT !.caw = TRUE]
  <2>1. PICK u : u = LogAs(t, "response")
    OBVIOUS
  <2>2. Inner(u) /\ Answers(u) /\ s' = [u EXCEPT !.caw = TRUE]
    BY <1>15, <1>17, <2>1
  <2> QED
    BY <2>2, LastInner
<1> QED
  BY <1>12, <1>13, <1>14, <1>16, <1>17
\* A write of the client's queue was sent.
LEMMA SentCore ==
    ASSUME NEW t, Core(t), ~Live(t, "writeClient"), t.wq > 0,
           NEW u, u = [t EXCEPT !.wq = @ - 1]
    PROVE  /\ Core(u) /\ Flags(t, u) /\ u.wq \in Nat
           /\ \A o : Live(u, o) <=> Live(t, o)
           /\ Answers(t) => Answers(u)
<1>1. t \in Object /\ Writes(t) /\ t.wq \in Nat /\ t.out \in Seq(Chunk) /\ Len(t.out) \in Nat
  BY DEF Core, Object
<1>2. PICK k \in Nat : k = t.wq - 1
  BY <1>1
<1>3. u = [t EXCEPT !.wq = k]
  BY <1>1, <1>2 DEF Object
<1>4. /\ u \in Object /\ u.ops = t.ops /\ u.done = t.done /\ u.wq = k /\ Flags(t, u)
      /\ u.id = t.id /\ u.n = t.n /\ u.resp = t.resp /\ u.tunnel = t.tunnel
      /\ u.out = t.out /\ u.log = t.log /\ u.swq = t.swq
  BY <1>1, <1>3 DEF Object, Flags
<1>5. AllOnce(u) /\ (\A o : Live(u, o) <=> Live(t, o)) /\ (Tame(t) => Tame(u))
  BY <1>1, <1>4, QueuesDecide DEF Core
<1>6. Writes(u)
  BY <1>1, <1>2, <1>4, <1>5 DEF Writes
<1>7. Answers(t) => Answers(u)
  BY <1>4, <1>5, FewerAnswers DEF Flags
<1> QED
  BY <1>4, <1>5, <1>6, <1>7, SameCore DEF Flags

LEMMA ClientWriteStep == ASSUME IInv, HandleClientWrite PROVE Inner(s') /\ Answers(s')
<1>1. Due("writeClient") /\ "writeClient" \in All /\ "writeClient" \in Ops
  BY Names, OpNames DEF HandleClientWrite
<1>2. /\ Core(Ran) /\ Data(s, Ran) /\ Flags(s, Ran) /\ Live(s, "writeClient")
      /\ Answers(Ran)
      /\ \A o \in All \ {"timer"} : Live(Ran, o) <=> Live(s, o) /\ o # "writeClient"
      /\ Live(Ran, "timer") <=> Live(s, "timer")
  BY <1>1, TakenFacts
<1>3. s.wq > 0 /\ Watches(s)
  BY <1>2 DEF IInv, Inner, Core, Writes
<1>4. ~Live(Ran, "writeClient") /\ Ran.wq > 0
  BY <1>2, <1>3, Names DEF Data
<1>5. PICK t : t = [Ran EXCEPT !.wq = @ - 1]
  OBVIOUS
<1>6. /\ Core(t) /\ Answers(t) /\ Flags(Ran, t) /\ t.wq \in Nat
      /\ \A o : Live(t, o) <=> Live(Ran, o)
  BY <1>2, <1>4, <1>5, SentCore
<1>7. \/ s' = Close(Ran)
      \/ s' = Start(t, "writeClient") /\ t.wq > 0
      \/ s' = Close(t)
      \/ s' = t /\ t.wq = 0 /\ ~t.caw
  <2>1. s' = IF Result \in Failed THEN Close(Ran)
             ELSE IF t.wq > 0 THEN Start(t, "writeClient")
             ELSE IF t.caw THEN Close(t) ELSE t
    BY <1>5 DEF HandleClientWrite
  <2>2. t.wq \in Nat /\ t.caw \in BOOLEAN
    BY <1>6 DEF Core, Object
  <2>3. CASE t.wq > 0
    BY <2>1, <2>3
  <2>4. CASE ~(t.wq > 0)
    <3>1. t.wq = 0
      BY <2>2, <2>4
    <3> QED
      BY <2>1, <2>2, <2>4, <3>1, Zenon
  <2> QED
    BY <2>3, <2>4
<1>8. CASE s' = Close(Ran) \/ s' = Close(t)
  BY <1>2, <1>6, <1>8, CloseInner
<1>9. CASE s' = Start(t, "writeClient") /\ t.wq > 0
  <2>1. t \in Object /\ AllOnce(t) /\ Writes(t) /\ ~Live(t, "writeClient")
    BY <1>4, <1>6 DEF Core
  <2>2. PICK u : u = Start(t, "writeClient")
    OBVIOUS
  <2>3. /\ u \in Object /\ AllOnce(u) /\ Data(t, u) /\ Flags(t, u) /\ (Tame(t) => Tame(u))
        /\ \A o \in All : Live(u, o) <=> Live(t, o) \/ o = "writeClient"
    BY <1>1, <2>1, <2>2, StartFacts
  <2>4. \A o \in Places : Live(u, o) <=> Live(t, o)
    BY <2>3, Names
  <2>5. Writes(u)
    BY <1>9, <2>1, <2>3, Names DEF Writes, Data
  <2>6. Core(u)
    BY <1>6, <2>3, <2>4, <2>5, SameCore DEF Data, Flags
  <2>7. Live(u, "writeClient")
    BY <1>1, <2>3
  <2>8. Flows(u) /\ Watches(u)
    BY <1>2, <1>3, <1>6, <2>3, <2>7, Names DEF Flows, Watches, Flags
  <2>9. Answers(u)
    BY <1>6, <2>3, <2>4, FewerAnswers DEF Data, Flags
  <2> QED
    BY <1>9, <2>2, <2>6, <2>8, <2>9 DEF Inner
<1>10. CASE s' = t /\ t.wq = 0 /\ ~t.caw
  <2>1. Flows(t)
    BY <1>10 DEF Flows
  <2>2. Watches(t)
    BY <1>2, <1>3, <1>6, <1>10, Names DEF Watches, Flags
  <2> QED
    BY <1>6, <1>10, <2>1, <2>2 DEF Inner
<1> QED
  BY <1>7, <1>8, <1>9, <1>10

LEMMA ServerWriteStep == ASSUME IInv, HandleServerWrite PROVE Inner(s') /\ Answers(s')
<1>1. Due("writeSrv") /\ "writeSrv" \in All /\ "writeSrv" \in Ops
  BY Names, OpNames DEF HandleServerWrite
<1>2. /\ Inner(Ran) /\ Answers(Ran) /\ Core(Ran) /\ Data(s, Ran) /\ Live(s, "writeSrv")
      /\ ~Live(Ran, "writeSrv")
  BY <1>1, TakenFacts, TakenInner, Names
<1>3. Ran \in Object /\ Ran.swq \in Nat /\ Ran.swq > 0 /\ Writes(Ran) /\ AllOnce(Ran)
  BY <1>2 DEF IInv, Inner, Core, Writes, Object, Data
<1>4. PICK k \in Nat : k = Ran.swq - 1
  BY <1>3
<1>5. PICK t : t = [Ran EXCEPT !.swq = k]
  OBVIOUS
<1>6. /\ t \in Object /\ t.ops = Ran.ops /\ t.done = Ran.done /\ t.swq = k /\ Flags(Ran, t)
      /\ t.id = Ran.id /\ t.n = Ran.n /\ t.resp = Ran.resp /\ t.tunnel = Ran.tunnel
      /\ t.out = Ran.out /\ t.log = Ran.log /\ t.wq = Ran.wq
  BY <1>3, <1>5 DEF Object, Flags
<1>7. AllOnce(t) /\ (\A o : Live(t, o) <=> Live(Ran, o)) /\ (Tame(Ran) => Tame(t))
  BY <1>3, <1>6, QueuesDecide
<1>8. Writes(t) /\ ~Live(t, "writeSrv")
  BY <1>2, <1>3, <1>6, <1>7 DEF Writes
<1>9. Core(t)
  BY <1>2, <1>6, <1>7, <1>8, SameCore DEF Flags
<1>10. Inner(t)
  BY <1>2, <1>6, <1>7, <1>9, StaysGuarded DEF Inner
<1>11. Answers(t)
  BY <1>2, <1>6, <1>7, FewerAnswers DEF Flags
<1>12. (s' = Start(t, "writeSrv") /\ t.swq > 0) \/ s' = t \/ s' = Ran \/ s' = Close(Ran)
  <2>1. t = [Ran EXCEPT !.swq = @ - 1]
    BY <1>3, <1>4, <1>5
  <2> QED
    BY <2>1 DEF HandleServerWrite
<1>13. CASE s' = Start(t, "writeSrv") /\ t.swq > 0
  <2>1. PICK u : u = Start(t, "writeSrv")
    OBVIOUS
  <2>2. /\ u \in Object /\ AllOnce(u) /\ Data(t, u) /\ Flags(t, u) /\ (Tame(t) => Tame(u))
        /\ \A o \in All : Live(u, o) <=> Live(t, o) \/ o = "writeSrv"
    BY <1>1, <1>6, <1>7, <1>8, <2>1, StartFacts
  <2>3. (\A o \in Places : Live(u, o) <=> Live(t, o)) /\ (\A o \in All : Live(t, o) => Live(u, o))
    BY <2>2, Names
  <2>4. Writes(u)
    BY <1>8, <1>13, <2>2, Names DEF Writes, Data
  <2>5. Core(u)
    BY <1>9, <2>2, <2>3, <2>4, SameCore DEF Data, Flags
  <2>6. Flows(u) /\ Watches(u)
    BY <1>10, <2>2, <2>3, StaysGuarded DEF Inner, Data
  <2>7. Answers(u)
    BY <1>11, <2>2, <2>3, FewerAnswers DEF Data, Flags
  <2> QED
    BY <1>13, <2>1, <2>5, <2>6, <2>7 DEF Inner
<1> QED
  BY <1>2, <1>10, <1>12, <1>13, <1>11, CloseInner

LEMMA DestroyStep == ASSUME IInv, Destroy PROVE Inner(s') /\ Answers(s')
  BY CloseInner DEF IInv, Inner, Destroy
\* The connection becomes a tunnel while nothing waits for its handler.
LEMMA TunnelInner ==
    ASSUME NEW t, Inner(t), Vacant(t), t.id # 0, NEW u, u = [t EXCEPT !.tunnel = TRUE]
    PROVE  /\ Inner(u) /\ Vacant(u) /\ u.id # 0 /\ (Loggable(t) => Loggable(u))
           /\ (Answers(t) => Answers(u)) /\ u.out = t.out /\ u.id = t.id
<1>1. t \in Object /\ Core(t)
  BY DEF Inner, Core
<1>2. /\ u \in Object /\ u.ops = t.ops /\ u.done = t.done /\ Flags(t, u) /\ u.tunnel
      /\ u.id = t.id /\ u.resp = t.resp /\ u.n = t.n
      /\ u.log = t.log /\ u.wq = t.wq /\ u.swq = t.swq /\ u.out = t.out
  BY <1>1 DEF Object, Flags
<1>3. AllOnce(u) /\ \A o : Live(u, o) <=> Live(t, o)
  BY <1>1, <1>2, QueuesDecide DEF Core
<1>4. Vacant(u)
  BY <1>2, <1>3 DEF Vacant, Flags
<1>5. Tame(u)
  <2>1. ~Live(u, "readClient") /\ ~Live(u, "readUp")
    BY <1>4, Names DEF Vacant
  <2> QED
    BY <2>1 DEF Tame, Live, Queued
<1>6. OnePlace(u)
  BY <1>4, <1>5, Names DEF OnePlace, Vacant
<1>7. Serving(u) <=> Serving(t)
  BY <1>2, <1>3 DEF Serving, Flags
<1>8. Transactions(u)
  BY <1>1, <1>2 DEF Core, Transactions
<1>9. Writes(u)
  BY <1>1, <1>2, <1>3 DEF Core, Writes
<1>10. Entries(u) /\ Stream(u)
  BY <1>1, <1>2, <1>7 DEF Core, Entries, Loggable, Stream
<1>11. Flows(u) /\ Watches(u)
  BY <1>2, <1>3, StaysGuarded DEF Inner
<1>12. Answers(t) => Answers(u)
  BY <1>2, <1>4, VacantFacts DEF Answers
<1> QED
  BY <1>2, <1>3, <1>4, <1>6, <1>8, <1>9, <1>10, <1>11, <1>12 DEF Inner, Core, Loggable

\* The socket is handed to a MitmSession.
LEMMA MovedInner ==
    ASSUME NEW t, Core(t), NEW u, u = [CancelTimer(t) EXCEPT !.cli = "moved"]
    PROVE  Inner(u) /\ (Answers(t) => Answers(u))
<1>1. u = [t EXCEPT !.timer = FALSE, !.cli = "moved"]
  BY DEF CancelTimer, Core, Object
<1>2. /\ u \in Object /\ u.ops = t.ops /\ u.done = t.done /\ Data(t, u)
      /\ u.cli = "moved" /\ u.held = t.held
  BY <1>1 DEF Core, Object, Data
<1>3. AllOnce(u) /\ (\A o : Live(u, o) <=> Live(t, o)) /\ (Tame(t) => Tame(u))
  BY <1>2, QueuesDecide DEF Core
<1>4. Core(u)
  BY <1>2, <1>3, FewerCore
<1>5. Answers(t) => Answers(u)
  BY <1>2, <1>3, FewerAnswers DEF Data
<1> QED
  BY <1>2, <1>4, <1>5 DEF Inner, Flows, Watches

\* The request waits for the user, and the timer does not run.
LEMMA HoldInner ==
    ASSUME NEW t, Inner(t), Vacant(t), t.id # 0, ~t.tunnel, Loggable(t),
           Answers(t), Fresh(t.out, t.id),
           NEW u, u = [CancelTimer(t) EXCEPT !.held = TRUE]
    PROVE  Inner(u) /\ Answers(u)
<1>1. u = [t EXCEPT !.timer = FALSE, !.held = TRUE] /\ Core(t)
  BY DEF CancelTimer, Inner, Core, Object
<1>2. /\ u \in Object /\ u.ops = t.ops /\ u.done = t.done /\ Data(t, u)
      /\ u.cli = t.cli /\ u.held
  BY <1>1 DEF Core, Object, Data
<1>3. AllOnce(u) /\ (\A o : Live(u, o) <=> Live(t, o)) /\ (Tame(t) => Tame(u))
  BY <1>1, <1>2, QueuesDecide DEF Core
<1>4. /\ \A a \in Places : ~Live(u, a)
      /\ ~Live(u, "readClient") /\ ~u.tunnel
  BY <1>2, <1>3, Names DEF Vacant, Data
<1>5. OnePlace(u)
  BY <1>4 DEF OnePlace
<1>6. Transactions(u)
  BY <1>1, <1>2, <1>4 DEF Core, Transactions, Data
<1>7. Writes(u)
  BY <1>1, <1>2, <1>3 DEF Core, Writes, Data
<1>8. Loggable(u)
  BY <1>2 DEF Loggable, Data
<1>9. Entries(u) /\ Stream(u)
  BY <1>1, <1>2, <1>8 DEF Core, Entries, Stream, Data
<1>10. Flows(u) /\ Watches(u)
  BY <1>2, <1>3 DEF Inner, Flows, Watches, Data
<1>11. Answers(u)
  BY <1>2, <1>4, FreshIsOpen, Names DEF Answers, Data
<1> QED
  BY <1>2, <1>3, <1>5, <1>6, <1>7, <1>9, <1>10, <1>11 DEF Inner, Core

LEMMA ClientReadStep == ASSUME IInv, HandleClientRead PROVE Inner(s') /\ Answers(s')
<1>1. Due("readClient") /\ "readClient" \in Places /\ "readClient" \in All
      /\ "readClient" \in Turn
  BY Names DEF HandleClientRead
<1>2. /\ Inner(Ran) /\ Core(Ran) /\ Flows(Ran) /\ Data(s, Ran)
      /\ s.tunnel => Result \in Failed \cup {"part"}
      /\ Answers(Ran)
  BY <1>1, TakenInner, TakenFacts DEF Inner
<1>3. /\ \A a \in Places : Live(Ran, a) => BothSides(Ran, a, "readClient")
      /\ ~Ran.held
      /\ ~Ran.tunnel => Vacant(Ran) /\ Ran.id = 0 /\ ~Ran.resp /\ Fresh(Ran.out, Ran.id)
  BY <1>1, TakenPlace, Names
<1>4. PICK t : t = ResetTimer(Ran)
  OBVIOUS
<1>5. /\ Inner(t) /\ Answers(t) /\ Data(Ran, t) /\ t.held = Ran.held
      /\ \A o : Live(t, o) <=> Live(Ran, o)
  BY <1>2, <1>4, ResetInner
<1>6. /\ \A a \in Places : Live(t, a) => BothSides(t, a, "readClient")
      /\ ~t.held /\ t.tunnel = s.tunnel
      /\ ~t.tunnel => Vacant(t) /\ t.id = 0 /\ ~t.resp /\ Fresh(t.out, t.id)
  BY <1>2, <1>3, <1>5 DEF Vacant, Data, BothSides
<1>7. \/ Result \in Failed  /\ s' = Close(Ran)
      \/ Result = "part"    /\ s' = Start(IF t.tunnel THEN WriteServerBlind(t) ELSE t,
                                          "readClient")
      \/ Result = "big"     /\ s' = SendPage(t, "400")
      \/ Result = "connect" /\ s' = AcceptConnect(NewTransaction(t))
      \/ Result = "nohost"  /\ s' = SendPage(NewTransaction(t), "400")
      \/ Result = "page"    /\ \E st \in {"page", "500"} : s' = SendPage(NewTransaction(t), st)
      \/ Result = "plain"   /\ \/ s' = ForwardRequest(NewTransaction(t))
                               \/ s' = [CancelTimer(NewTransaction(t)) EXCEPT !.held = TRUE]
  BY <1>4 DEF HandleClientRead
<1>8. CASE Result \in Failed /\ s' = Close(Ran)
  BY <1>2, <1>8, CloseInner
<1>9. CASE s' = Start(IF t.tunnel THEN WriteServerBlind(t) ELSE t, "readClient")
  <2>1. PICK u : u = WriteServerBlind(t)
    OBVIOUS
  <2>2. CASE t.tunnel
    <3>1. /\ Inner(u) /\ Answers(u) /\ u.held = t.held /\ u.tunnel = t.tunnel
          /\ \A o \in Places : Live(u, o) <=> Live(t, o)
      BY <1>5, <2>1, BlindInner
    <3>2. ~u.held /\ u.tunnel /\ \A a \in Places : Live(u, a) => BothSides(u, a, "readClient")
      BY <1>6, <2>2, <3>1 DEF BothSides
    <3>3. Inner(Start(u, "readClient")) /\ Answers(Start(u, "readClient"))
      BY <1>1, <3>1, <3>2, StartInner DEF Begins
    <3> QED
      BY <1>9, <2>1, <2>2, <3>3
  <2>3. CASE ~t.tunnel
    <3>1. Inner(Start(t, "readClient")) /\ Answers(Start(t, "readClient"))
      BY <1>1, <1>5, <1>6, <2>3, StartInner DEF Begins
    <3> QED
      BY <1>9, <2>3, <3>1
  <2> QED
    BY <2>2, <2>3
<1>10. CASE Result = "big" /\ s' = SendPage(t, "400")
  <2>1. ~t.tunnel /\ "400" \in Statuses
    BY <1>2, <1>6, <1>10, StatusNames DEF Failed
  <2>2. Admits(t, "400") /\ Allows(t, "400")
    BY <1>5, <1>6, <2>1, VacantAdmits
  <2> QED
    BY <1>5, <1>10, <2>1, <2>2, SendPageInner DEF Inner
<1>11. PICK u : u = NewTransaction(t)
  OBVIOUS
<1>12. ASSUME Result \in Requests
       PROVE  /\ Inner(u) /\ Vacant(u) /\ u.id # 0 /\ ~u.resp /\ ~u.tunnel /\ Loggable(u)
              /\ Answers(u) /\ Fresh(u.out, u.id)
  <2>1. ~t.tunnel
    BY <1>2, <1>6, <1>12 DEF Failed, Requests
  <2> QED
    BY <1>5, <1>6, <1>11, <2>1, TransactionInner
<1>13. CASE Result = "connect" /\ s' = AcceptConnect(NewTransaction(t))
  <2>1. /\ Inner(u) /\ Vacant(u) /\ u.id # 0 /\ ~u.resp /\ Loggable(u)
        /\ Answers(u) /\ Fresh(u.out, u.id)
    BY <1>12, <1>13 DEF Requests
  <2>2. "tunnel" \in Statuses /\ Admits(u, "tunnel")
    BY <2>1, StatusNames, VacantAdmits
  <2>3. PICK v : v = LogAs(u, "tunnel")
    OBVIOUS
  <2>4. /\ Inner(v) /\ Answers(v) /\ Core(v) /\ (\A o : Live(v, o) <=> Live(u, o))
        /\ Reopened(v.log, v.id)
    BY <2>1, <2>2, <2>3, LogInner, LogCore DEF Inner
  <2>5. v.id = u.id /\ v.out = u.out /\ v.resp /\ Flags(u, v)
    <3>1. u \in Object
      BY <2>1 DEF Inner, Core
    <3> QED
      BY <2>2, <2>3, <3>1, LogFacts
  <2>6. Vacant(v) /\ v.id # 0 /\ Loggable(v) /\ Fresh(v.out, v.id)
    BY <2>1, <2>4, <2>5 DEF Vacant, Loggable, Flags
  <2>7. PICK w : w = [v EXCEPT !.tunnel = TRUE]
    OBVIOUS
  <2>8. /\ Inner(w) /\ Vacant(w) /\ w.id # 0 /\ Loggable(w)
        /\ Answers(w) /\ Fresh(w.out, w.id)
    BY <2>4, <2>6, <2>7, TunnelInner
  <2>9. Inner(ConnectUpstream(w)) /\ Answers(ConnectUpstream(w))
    BY <2>8, ForwardInner
  <2>10. s' = [CancelTimer(v) EXCEPT !.cli = "moved"] \/ s' = ConnectUpstream(w)
    BY <1>11, <1>13, <2>3, <2>7 DEF AcceptConnect
  <2> QED
    BY <2>4, <2>9, <2>10, MovedInner
<1>14. CASE /\ Result \in {"nohost", "page"}
            /\ \E st \in {"400", "page", "500"} : s' = SendPage(NewTransaction(t), st)
  <2>1. PICK st \in {"400", "page", "500"} : s' = SendPage(u, st)
    BY <1>11, <1>14
  <2>2. /\ Inner(u) /\ Vacant(u) /\ Loggable(u) /\ st \in Statuses
        /\ Answers(u) /\ Fresh(u.out, u.id)
    BY <1>12, <1>14, StatusNames DEF Requests
  <2>3. Admits(u, st) /\ Allows(u, st)
    BY <2>2, VacantAdmits
  <2> QED
    BY <2>1, <2>2, <2>3, SendPageInner DEF Inner
<1>15. CASE Result = "plain" /\ s' = ForwardRequest(NewTransaction(t))
  <2>1. /\ Inner(u) /\ Vacant(u) /\ u.id # 0 /\ Loggable(u)
        /\ Answers(u) /\ Fresh(u.out, u.id)
    BY <1>12, <1>15 DEF Requests
  <2> QED
    BY <1>11, <1>15, <2>1, ForwardInner
<1>16. CASE Result = "plain" /\ s' = [CancelTimer(NewTransaction(t)) EXCEPT !.held = TRUE]
  <2>1. /\ Inner(u) /\ Vacant(u) /\ u.id # 0 /\ ~u.tunnel /\ Loggable(u)
        /\ Answers(u) /\ Fresh(u.out, u.id)
    BY <1>12, <1>16 DEF Requests
  <2> QED
    BY <1>11, <1>16, <2>1, HoldInner
<1> QED
  BY <1>7, <1>8, <1>9, <1>10, <1>13, <1>14, <1>15, <1>16
-----------------------------------------------------------------------------
(* The network, the timer and the user *)

\* An operation completes; what only an HTTP turn reads never meets a tunnel.
LEMMA CompletesStep ==
    ASSUME IInv, NEW op \in Ops, NEW res \in Results, Completes(op, res),
           s.tunnel => op \notin {"readClient", "readUp"} \/ res \in Failed \cup {"part"}
    PROVE  Inner(s') /\ Answers(s')
<1>1. s \in Object /\ AllOnce(s) /\ Core(s) /\ op \in All /\ op \notin {"timer", "decision"}
  BY OpNames DEF IInv, Inner, Core, All
<1>2. s.ops \in [Ops -> {0, 1}] /\ s.ops[op] = 1
  BY <1>1 DEF Completes, Object
<1>3. PICK ops : ops = [s.ops EXCEPT ![op] = 0]
  OBVIOUS
<1>4. /\ ops \in [Ops -> {0, 1}] /\ ops[op] = 0
      /\ \A o \in Ops \ {op} : ops[o] = s.ops[o]
  BY <1>2, <1>3
<1>5. Live(s, op) /\ ~Queued(s, op)
  BY <1>1, <1>2 DEF Live, AllOnce, Once
<1>6. s' = Finish([s EXCEPT !.ops = ops], op, res)
  <2>1. s' = Finish([s EXCEPT !.ops[op] = @ - 1], op, res)
    BY DEF Completes
  <2>2. [s EXCEPT !.ops[op] = @ - 1] = [s EXCEPT !.ops = ops]
    BY <1>2, <1>3
  <2> QED
    BY <2>1, <2>2
<1>7. /\ s' \in Object /\ AllOnce(s')
      /\ \A o \in All : Live(s', o) <=> Live(s, o) \/ o = op
      /\ Data(s, s') /\ Flags(s, s')
      /\ op \notin {"readClient", "readUp"} \/ res \in Failed \cup {"part"} =>
           (Tame(s) => Tame(s'))
  BY <1>1, <1>4, <1>5, <1>6, FinishFacts
<1>8. \A o \in All : Live(s', o) <=> Live(s, o)
  BY <1>5, <1>7
<1>9. Core(s')
  BY <1>1, <1>7, <1>8, FewerCore DEF Flags
<1>10. Flows(s') /\ Watches(s')
  BY <1>7, <1>8, StaysGuarded DEF IInv, Inner, Data
<1>11. Answers(s')
  BY <1>7, <1>8, FewerAnswers, Names DEF IInv, Data, Flags
<1> QED
  BY <1>9, <1>10, <1>11 DEF Inner

LEMMA NetworkStep ==
    ASSUME IInv, ClientSends \/ DataArrives \/ Succeeds \/ Fails
    PROVE  Inner(s') /\ Answers(s') /\ mitm' = mitm /\ asked' \in 0 .. MaxReq /\ reads' \in 0 .. MaxReads
<1>1. PICK op \in Ops, res \in Results :
         /\ Completes(op, res)
         /\ s.tunnel => op \notin {"readClient", "readUp"} \/ res \in Failed \cup {"part"}
  <2>1. CASE ClientSends
    BY <2>1, OpNames DEF ClientSends, Results
  <2>2. CASE DataArrives
    BY <2>2, OpNames DEF DataArrives, Results
  <2>3. CASE Succeeds
    BY <2>3 DEF Succeeds, Results
  <2>4. CASE Fails
    BY <2>4, OpNames DEF Fails, Results, Failed
  <2> QED
    BY <2>1, <2>2, <2>3, <2>4
<1>2. Inner(s') /\ Answers(s') /\ mitm' = mitm
  BY <1>1, CompletesStep DEF Completes
<1>3. asked' \in 0 .. MaxReq /\ reads' \in 0 .. MaxReads
  BY SessionAssumption DEF IInv, ClientSends, DataArrives, Succeeds, Fails
<1> QED
  BY <1>2, <1>3

LEMMA TimerStep == ASSUME IInv, TimerExpires PROVE Inner(s') /\ Answers(s')
<1>1. Core(s) /\ s \in Object /\ AllOnce(s) /\ Flows(s)
  BY DEF IInv, Inner, Core
<1>2. PICK c : c = CancelTimer(s)
  OBVIOUS
<1>3. /\ c \in Object /\ c.ops = s.ops /\ c.done = s.done /\ Data(s, c)
      /\ c.cli = s.cli /\ c.held = s.held /\ c.caw = s.caw
  BY <1>1, <1>2 DEF CancelTimer, Object, Data
<1>4. AllOnce(c) /\ (\A o : Live(c, o) <=> Live(s, o)) /\ (Tame(s) => Tame(c))
  BY <1>1, <1>3, QueuesDecide
<1>5. /\ s' = Finish([c EXCEPT !.ops = c.ops], "timer", "ok")
      /\ "ok" \in Results /\ "timer" \in All /\ "timer" \notin Ops
      /\ c.ops \in [Ops -> {0, 1}]
  <2>1. c = [c EXCEPT !.ops = c.ops] /\ c.ops \in [Ops -> {0, 1}]
    BY <1>3 DEF Object
  <2>2. s' = Finish(c, "timer", "ok")
    BY <1>2 DEF TimerExpires
  <2> QED
    BY <2>1, <2>2, Names, OpNames DEF Results
<1>6. /\ s' \in Object /\ AllOnce(s')
      /\ \A o \in All : Live(s', o) <=> Live(c, o) \/ o = "timer"
      /\ Data(c, s') /\ Flags(c, s')
      /\ Tame(c) => Tame(s')
  BY <1>3, <1>4, <1>5, FinishFacts
<1>7. Data(s, s') /\ s'.cli = s.cli /\ s'.held = s.held /\ s'.caw = s.caw /\ Live(s', "timer")
  BY <1>3, <1>5, <1>6 DEF Data, Flags
<1>8. \A o \in All \ {"timer"} : Live(s', o) <=> Live(s, o)
  BY <1>4, <1>6
<1>9. Core(s')
  BY <1>1, <1>4, <1>6, <1>7, <1>8, FewerCore
<1>10. Flows(s') /\ Watches(s')
  BY <1>1, <1>7, <1>8, Names DEF Flows, Watches, Data
<1>11. Answers(s')
  BY <1>7, <1>8, FewerAnswers, Names DEF IInv, Data
<1> QED
  BY <1>9, <1>10, <1>11 DEF Inner

LEMMA DecideStep == ASSUME IInv, Decide PROVE Inner(s') /\ Answers(s')
<1>1. Core(s) /\ s \in Object /\ AllOnce(s) /\ Flows(s) /\ OnePlace(s) /\ s.held
  BY DEF IInv, Inner, Core, Decide
<1>2. PICK c : c = [s EXCEPT !.held = FALSE]
  OBVIOUS
<1>3. /\ c \in Object /\ c.ops = s.ops /\ c.done = s.done /\ Data(s, c)
      /\ c.cli = s.cli /\ ~c.held
  BY <1>1, <1>2 DEF Object, Data
<1>4. AllOnce(c) /\ \A o : Live(c, o) <=> Live(s, o)
  BY <1>1, <1>3, QueuesDecide
<1>5. (\A a \in Places : ~Live(s, a)) /\ ~s.tunnel
  BY <1>1 DEF OnePlace
<1>6. PICK act \in {"forward", "drop"} : s' = Finish(c, "decision", act)
  BY <1>2 DEF Decide
<1>7. /\ s' = Finish([c EXCEPT !.ops = c.ops], "decision", act)
      /\ act \in Results /\ "decision" \in All /\ "decision" \notin Ops
      /\ c.ops \in [Ops -> {0, 1}] /\ ~Queued(c, "decision")
  <2>1. c = [c EXCEPT !.ops = c.ops] /\ c.ops \in [Ops -> {0, 1}]
    BY <1>3 DEF Object
  <2>2. ~Queued(c, "decision")
    BY <1>4, <1>5, Names DEF Live
  <2> QED
    BY <1>6, <2>1, <2>2, Names, OpNames DEF Results
<1>8. /\ s' \in Object /\ AllOnce(s')
      /\ \A o \in All : Live(s', o) <=> Live(c, o) \/ o = "decision"
      /\ Data(c, s') /\ Flags(c, s')
  BY <1>3, <1>4, <1>7, FinishFacts
<1>9. Data(s, s') /\ s'.cli = s.cli /\ ~s'.held
  BY <1>3, <1>8 DEF Data, Flags
<1>10. \A o \in All : Live(s', o) <=> Live(s, o) \/ o = "decision"
  BY <1>4, <1>8
<1>11. OnePlace(s')
  <2>1. \A a \in Places : Live(s', a) => a = "decision"
    BY <1>5, <1>10, Names
  <2>2. ~s'.tunnel
    BY <1>5, <1>9 DEF Data
  <2> QED
    BY <1>9, <2>1, <2>2 DEF OnePlace
<1>12. Serving(s)
  BY <1>1 DEF Serving
<1>13. Transactions(s')
  BY <1>1, <1>5, <1>9, <1>10, <1>12, Names DEF Core, Transactions, Data
<1>14. Writes(s')
  BY <1>1, <1>9, <1>10, Names DEF Core, Writes, Data
<1>15. Entries(s') /\ Stream(s')
  BY <1>1, <1>9, <1>12 DEF Core, Entries, Loggable, Stream, Data
<1>16. Flows(s') /\ Watches(s')
  BY <1>1, <1>9, <1>10, Names DEF Flows, Watches, Data
<1>17. Answers(s')
  <2>1. Answers(s) /\ Fresh(s.out, s.id)
    BY <1>1 DEF IInv, Answers, Asking
  <2>2. ~Live(s', "readUp")
    BY <1>5, <1>10, Names
  <2> QED
    BY <1>9, <2>1, <2>2, AnswersStay DEF Data
<1> QED
  BY <1>8, <1>11, <1>13, <1>14, <1>15, <1>16, <1>17 DEF Inner, Core

LEMMA IInvStep == IInv /\ [Next]_vars => IInv'
<1> SUFFICES ASSUME IInv, [Next]_vars PROVE IInv'
  OBVIOUS
<1>1. CASE Handlers
  <2>1. Inner(s') /\ Answers(s')
    BY <1>1, ClientReadStep, TimeoutStep, DecisionStep, ResolveStep, UpstreamConnectStep,
       UpstreamWriteStep, UpstreamReadStep, ClientWriteStep, ServerWriteStep, DestroyStep
       DEF Handlers
  <2>2. UNCHANGED env
    BY <1>1 DEF Handlers, HandleClientRead, HandleTimeout, HandleDecision, HandleResolve,
       HandleUpstreamConnect, HandleUpstreamWrite, HandleUpstreamRead, HandleClientWrite,
       HandleServerWrite, Destroy
  <2> QED
    BY <2>1, <2>2 DEF IInv, env
<1>2. CASE ClientSends \/ DataArrives \/ Succeeds \/ Fails
  BY <1>2, NetworkStep DEF IInv
<1>3. CASE TimerExpires \/ Decide
  <2>1. Inner(s') /\ Answers(s')
    BY <1>3, TimerStep, DecideStep
  <2>2. UNCHANGED env
    BY <1>3 DEF TimerExpires, Decide
  <2> QED
    BY <2>1, <2>2 DEF IInv, env
<1>4. CASE UNCHANGED vars
  BY <1>4 DEF vars, IInv
<1> QED
  BY <1>1, <1>2, <1>3, <1>4 DEF Next, Environment

-----------------------------------------------------------------------------
(* The theorems *)

\* The Session object stays within its fields' ranges; what writeClient()
\* still has queued are chunks the client was answered with.
THEOREM SessionTypes == Spec => []TypeOK
<1>1. IInv => TypeOK
  BY InnerImplies
<1> QED
  BY InitIInv, IInvStep, <1>1, PTL DEF Spec

\* parser_, currentTransaction_ and the buffers belong to one step of one
\* request at a time (in a tunnel, to the two reads), although close() neither
\* takes completed handlers back nor stops them from going on.
THEOREM SessionOneTurn == Spec => []OneTurn
<1>1. IInv => OneTurn
  BY InnerImplies
<1> QED
  BY InitIInv, IInvStep, <1>1, PTL DEF Spec

\* No path through the handlers leaves an open client without resetTimer(), a
\* question to the user or a closing write.
THEOREM SessionWatched == Spec => []Watched
<1>1. IInv => Watched
  BY InnerImplies
<1> QED
  BY InitIInv, IInvStep, <1>1, PTL DEF Spec

\* Every answer is complete before the next one begins, and only the timeout's
\* 504 comes between the chunks of one answer.
THEOREM SessionStreamInOrder == Spec => []StreamInOrder
<1>1. IInv => StreamInOrder
  BY InnerImplies
<1> QED
  BY InitIInv, IInvStep, <1>1, PTL DEF Spec

\* onTransaction_ is called twice for a request only if the first call was for
\* the CONNECT or the timeout, and in the order of the requests.
THEOREM SessionLogShape == Spec => []LogShape
<1>1. IInv => LogShape
  BY InnerImplies
<1> QED
  BY InitIInv, IInvStep, <1>1, PTL DEF Spec
=============================================================================
