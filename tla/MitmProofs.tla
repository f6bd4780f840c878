------------------------------- MODULE MitmProofs -------------------------------
(***************************************************************************)
(* Proofs about MitmSession: the invariants of the run, and that nothing   *)
(* happens after close().                                                  *)
(***************************************************************************)
EXTENDS MitmSession, TLAPS

-----------------------------------------------------------------------------
(* What the executor's queue and the operations under way tell *)

All == Ops \cup {"timer", "decision"}

AllOnce(t) == \A op \in Ops \cup {"decision"} : Once(t, op)

\* The fields that neither the executor nor close() writes.
Kept(t, u) ==
    /\ u.tls = t.tls /\ u.client = t.client /\ u.up = t.up /\ u.caw = t.caw
    /\ u.id = t.id /\ u.n = t.n /\ u.resp = t.resp /\ u.acc = t.acc
    /\ u.wq = t.wq /\ u.uq = t.uq /\ u.out = t.out /\ u.log = t.log

Flags(t, u) == u.closed = t.closed /\ u.timer = t.timer /\ u.held = t.held

\* Operations of t may have completed in u, and nothing else happened.
Completed(t, u) ==
    /\ u \in Object /\ AllOnce(u)
    /\ \A o \in All : Live(u, o) <=> Live(t, o)
    /\ \A o \in Ops : u.ops[o] <= t.ops[o]
    /\ Kept(t, u) /\ Flags(t, u)

\* A handler put into the executor's queue.
LEMMA FinishFacts ==
    ASSUME NEW t \in Object, AllOnce(t), NEW op \in All, NEW res \in Results,
           NEW ops \in [Ops -> {0, 1}],
           \A o \in Ops \ {op} : ops[o] = t.ops[o],
           op \in Ops => t.ops[op] = 1 /\ ops[op] = 0,
           op = "decision" => ~Queued(t, op),
           NEW u, u = Finish([t EXCEPT !.ops = ops], op, res)
    PROVE  /\ u \in Object /\ AllOnce(u)
           /\ \A o \in All : Live(u, o) <=> Live(t, o) \/ o = op
           /\ \A o \in Ops : u.ops[o] <= t.ops[o]
           /\ Kept(t, u) /\ Flags(t, u)
<1> DEFINE c == Completion(op, res)
<1>1. c \in Handler /\ c.op = op
  BY DEF Completion, Handler, All
<1>2. /\ u.done = Append(t.done, c) /\ u.ops = ops
      /\ u \in Object /\ Kept(t, u) /\ Flags(t, u)
  <2>1. t.done \in Seq(Handler) /\ Append(t.done, c) \in Seq(Handler)
    BY <1>1 DEF Object
  <2>2. u = [[t EXCEPT !.ops = ops] EXCEPT !.done = Append(t.done, c)]
    BY DEF Finish, Object
  <2> HIDE DEF c
  <2>3. u.done = Append(t.done, c) /\ u.ops = ops /\ u \in Object
    BY <2>1, <2>2 DEF Object
  <2>4. Kept(t, u) /\ Flags(t, u)
    BY <2>1, <2>2 DEF Object, Kept, Flags
  <2> QED
    BY <2>3, <2>4
<1> HIDE DEF c
<1>3. /\ t.done \in Seq(Handler) /\ Len(t.done) \in Nat
      /\ Len(u.done) = Len(t.done) + 1
      /\ DOMAIN t.done = 1 .. Len(t.done) /\ DOMAIN u.done = 1 .. Len(t.done) + 1
      /\ \A i \in 1 .. Len(t.done) : u.done[i] = t.done[i]
      /\ u.done[Len(t.done) + 1] = c
  <2>1. t.done \in Seq(Handler) /\ c \in Handler /\ u.done = Append(t.done, c)
    BY <1>1, <1>2 DEF Object
  <2> HIDE DEF c
  <2>2. PICK q : q = t.done
    OBVIOUS
  <2>3. PICK v : v = u.done
    OBVIOUS
  <2>4. q \in Seq(Handler) /\ v = Append(q, c) /\ c \in Handler
    BY <2>1, <2>2, <2>3
  <2>5. /\ Len(q) \in Nat /\ DOMAIN q = 1 .. Len(q)
        /\ Len(v) = Len(q) + 1 /\ DOMAIN v = 1 .. Len(q) + 1
        /\ \A i \in 1 .. Len(q) : v[i] = q[i]
        /\ v[Len(q) + 1] = c
    BY <2>4
  <2> QED
    BY <2>2, <2>3, <2>4, <2>5
<1>4. \A o : Queued(u, o) <=> Queued(t, o) \/ o = op
  <2>1. ASSUME NEW o, Queued(u, o) PROVE Queued(t, o) \/ o = op
    <3>1. PICK i \in 1 .. Len(t.done) + 1 : u.done[i].op = o
      BY <1>3, <2>1 DEF Queued
    <3>2. CASE i = Len(t.done) + 1
      BY <1>1, <1>3, <3>1, <3>2
    <3>3. CASE i # Len(t.done) + 1
      <4>1. i \in 1 .. Len(t.done)
        BY <1>3, <3>3
      <4> QED
        BY <1>3, <3>1, <4>1 DEF Queued
    <3> QED
      BY <3>2, <3>3
  <2>2. ASSUME NEW o, Queued(t, o) PROVE Queued(u, o)
    <3>1. PICK i \in 1 .. Len(t.done) : t.done[i].op = o
      BY <1>3, <2>2 DEF Queued
    <3>2. i \in 1 .. Len(t.done) + 1 /\ u.done[i].op = o
      BY <1>3, <3>1
    <3> QED
      BY <1>3, <3>2 DEF Queued
  <2>3. Queued(u, op)
    <3>1. Len(t.done) + 1 \in 1 .. Len(t.done) + 1 /\ u.done[Len(t.done) + 1].op = op
      BY <1>1, <1>3
    <3> QED
      BY <1>3, <3>1 DEF Queued
  <2> QED
    BY <2>1, <2>2, <2>3
<1>5. \A o \in All : Live(u, o) <=> Live(t, o) \/ o = op
  BY <1>2, <1>4 DEF Live, All
<1>6. AllOnce(u)
  <2> SUFFICES ASSUME NEW o \in Ops \cup {"decision"} PROVE Once(u, o)
    BY DEF AllOnce
  <2>1. Once(t, o)
    BY DEF AllOnce
  <2>2. CASE o # op
    <3>1. u.ops[o] = t.ops[o] \/ o \notin Ops
      BY <1>2, <2>2
    <3>2. ASSUME NEW i \in DOMAIN u.done, NEW j \in DOMAIN u.done,
                 u.done[i].op = o, u.done[j].op = o
          PROVE  i = j
      <4>1. i \in 1 .. Len(t.done) /\ j \in 1 .. Len(t.done)
        <5>1. i \in 1 .. Len(t.done) + 1 /\ j \in 1 .. Len(t.done) + 1
          BY <1>3
        <5>2. i # Len(t.done) + 1 /\ j # Len(t.done) + 1
          BY <1>1, <1>3, <2>2, <3>2
        <5> QED
          BY <1>3, <5>1, <5>2
      <4> QED
        BY <1>3, <2>1, <3>2, <4>1 DEF Once
    <3> QED
      BY <1>4, <2>1, <2>2, <3>1, <3>2 DEF Once
  <2>3. CASE o = op
    <3>1. ~Queued(t, op)
      BY <2>1, <2>3 DEF Once
    <3> QED
      <4>1. o \in Ops => u.ops[o] = 0
        BY <1>2, <2>3
      <4>2. \A i \in 1 .. Len(t.done) : u.done[i].op # o
        BY <1>3, <2>3, <3>1 DEF Queued
      <4>3. \A i \in DOMAIN u.done : u.done[i].op = o => i = Len(t.done) + 1
        BY <1>3, <4>2
      <4> QED
        BY <4>1, <4>3 DEF Once
  <2> QED
    BY <2>2, <2>3
<1>7. \A o \in Ops : u.ops[o] <= t.ops[o]
  <2> SUFFICES ASSUME NEW o \in Ops PROVE ops[o] <= t.ops[o]
    BY <1>2
  <2>1. t.ops[o] \in {0, 1}
    BY DEF Object
  <2> QED
    BY <2>1
<1> QED
  BY <1>2, <1>5, <1>6, <1>7

\* The handler at the head of the queue is taken.
LEMMA RanFacts ==
    ASSUME NEW t \in Object, AllOnce(t), t.done # <<>>,
           NEW u, u = [t EXCEPT !.done = Tail(@)]
    PROVE  /\ u \in Object /\ AllOnce(u)
           /\ Head(t.done).op \in All /\ Head(t.done).res \in Results
           /\ Live(t, Head(t.done).op)
           /\ \A o \in All \ {"timer"} : Live(u, o) <=> Live(t, o) /\ o # Head(t.done).op
           /\ Head(t.done).op # "timer" => (Live(u, "timer") <=> Live(t, "timer"))
           /\ u.ops = t.ops
           /\ Kept(t, u) /\ Flags(t, u)
<1> DEFINE op == Head(t.done).op
<1>1. /\ t.done \in Seq(Handler) /\ Len(t.done) \in Nat /\ Len(t.done) >= 1
      /\ Head(t.done) = t.done[1]
      /\ Tail(t.done) \in Seq(Handler) /\ Len(Tail(t.done)) = Len(t.done) - 1
      /\ \A i \in 1 .. Len(t.done) - 1 : Tail(t.done)[i] = t.done[i + 1]
  BY DEF Object
<1>2. /\ u.done = Tail(t.done) /\ u.ops = t.ops
      /\ u \in Object /\ Kept(t, u) /\ Flags(t, u)
  BY <1>1 DEF Object, Kept, Flags
<1>3. /\ Head(t.done) \in Handler
      /\ DOMAIN t.done = 1 .. Len(t.done) /\ DOMAIN u.done = 1 .. Len(t.done) - 1
      /\ \A i \in 1 .. Len(t.done) - 1 : u.done[i] = t.done[i + 1]
  BY <1>1, <1>2
<1>4. op \in All /\ Head(t.done).res \in Results
  BY <1>3 DEF Handler, All
<1>5. Queued(t, op)
  BY <1>1, <1>3 DEF Queued
<1>6. \A o : o # op => (Queued(u, o) <=> Queued(t, o))
  <2> SUFFICES ASSUME NEW o, o # op PROVE Queued(u, o) <=> Queued(t, o)
    OBVIOUS
  <2>1. ASSUME Queued(t, o) PROVE Queued(u, o)
    <3>1. PICK i \in 1 .. Len(t.done) : t.done[i].op = o
      BY <1>3, <2>1 DEF Queued
    <3>2. i # 1
      BY <1>1, <3>1
    <3>3. PICK k \in 1 .. Len(t.done) - 1 : i = k + 1
      <4>1. i - 1 \in 1 .. Len(t.done) - 1 /\ i = (i - 1) + 1
        BY <1>1, <3>2
      <4> QED
        BY <4>1
    <3>4. u.done[k] = t.done[i]
      BY <1>3, <3>3
    <3> QED
      BY <1>3, <3>1, <3>4 DEF Queued
  <2>2. ASSUME Queued(u, o) PROVE Queued(t, o)
    <3>1. PICK i \in DOMAIN u.done : u.done[i].op = o
      BY <2>2 DEF Queued
    <3>2. u.done[i] = t.done[i + 1]
      BY <1>3
    <3>3. i + 1 \in 1 .. Len(t.done)
      BY <1>1, <1>3
    <3> QED
      BY <1>3, <3>1, <3>2, <3>3 DEF Queued
  <2> QED
    BY <2>1, <2>2
<1>7. \A o \in Ops \cup {"decision"} :
         \A i, j \in 1 .. Len(t.done) : t.done[i].op = o /\ t.done[j].op = o => i = j
  BY <1>3 DEF AllOnce, Once
<1>8. op # "timer" => ~Queued(u, op)
  <2> SUFFICES ASSUME op # "timer", NEW i \in 1 .. Len(t.done) - 1, u.done[i].op = op
               PROVE  FALSE
    BY <1>3 DEF Queued
  <2>1. i + 1 \in 1 .. Len(t.done) /\ 1 \in 1 .. Len(t.done) /\ t.done[i + 1].op = op
        /\ t.done[1].op = op /\ op \in Ops \cup {"decision"}
    BY <1>1, <1>3, <1>4 DEF All
  <2>2. i + 1 = 1
    BY <1>7, <2>1
  <2> QED
    BY <2>2
<1>9. \A o \in All \ {"timer"} : Live(u, o) <=> Live(t, o) /\ o # op
  BY <1>2, <1>5, <1>6, <1>8 DEF Live, AllOnce, Once, Object, All
<1>10. AllOnce(u)
  <2> SUFFICES ASSUME NEW o \in Ops \cup {"decision"} PROVE Once(u, o)
    BY DEF AllOnce
  <2>1. o \in Ops /\ u.ops[o] = 1 => ~Queued(u, o)
    BY <1>2, <1>4, <1>6, <1>8 DEF AllOnce, Once, All, Ops, ClientOps, UpstreamOps
  <2>2. ASSUME NEW i \in DOMAIN u.done, NEW j \in DOMAIN u.done,
               u.done[i].op = o, u.done[j].op = o
        PROVE  i = j
    <3>1. i + 1 \in 1 .. Len(t.done) /\ j + 1 \in 1 .. Len(t.done) /\ i \in Nat /\ j \in Nat
          /\ t.done[i + 1].op = o /\ t.done[j + 1].op = o
      BY <1>1, <1>3, <2>2
    <3>2. i + 1 = j + 1
      BY <1>7, <3>1
    <3> QED
      BY <3>1, <3>2
  <2> QED
    BY <2>1, <2>2 DEF Once
<1> QED
  BY <1>2, <1>4, <1>5, <1>6, <1>9, <1>10 DEF Live, All

\* The other fields do not matter to what is live.
LEMMA QueuesDecide ==
    ASSUME NEW t, NEW u, u.done = t.done, u.ops = t.ops
    PROVE  /\ \A o : Live(u, o) <=> Live(t, o)
           /\ AllOnce(t) => AllOnce(u)
  BY DEF Live, Queued, AllOnce, Once

LEMMA StartFacts ==
    ASSUME NEW t \in Object, AllOnce(t), NEW op \in Ops, ~Live(t, op),
           NEW u, u = Start(t, op)
    PROVE  /\ u \in Object /\ AllOnce(u)
           /\ \A o \in All : Live(u, o) <=> Live(t, o) \/ o = op
           /\ Kept(t, u) /\ Flags(t, u)
<1>1. t.ops \in [Ops -> {0, 1}] /\ t.ops[op] = 0 /\ ~Queued(t, op)
  BY DEF Object, Live
<1>2. u = [t EXCEPT !.ops = [t.ops EXCEPT ![op] = 1]]
  BY <1>1 DEF Start, Object
<1>3. u \in Object /\ u.ops = [t.ops EXCEPT ![op] = 1] /\ u.done = t.done
  <2> DEFINE ops == [t.ops EXCEPT ![op] = 1]
  <2>1. ops \in [Ops -> {0, 1}] /\ u = [t EXCEPT !.ops = ops]
    BY <1>1, <1>2
  <2> HIDE DEF ops
  <2>2. u \in Object
    BY <2>1 DEF Object
  <2>3. u.ops = ops /\ u.done = t.done
    BY <2>1 DEF Object
  <2> QED
    BY <2>2, <2>3 DEF ops
<1>4. Kept(t, u) /\ Flags(t, u)
  BY <1>1, <1>2 DEF Object, Kept, Flags
<1>5. \A o \in All : Live(u, o) <=> Live(t, o) \/ o = op
  BY <1>1, <1>3 DEF Live, Queued, All
<1>6. AllOnce(u)
  BY <1>1, <1>3 DEF AllOnce, Once, Queued
<1> QED
  BY <1>3, <1>4, <1>5, <1>6

LEMMA GiveUpFacts ==
    ASSUME NEW t \in Object, AllOnce(t), NEW op \in Ops, NEW u, u = GiveUp(t, op)
    PROVE  Completed(t, u)
<1>1. t.ops \in [Ops -> {0, 1}] /\ \A o \in Ops : t.ops[o] <= t.ops[o]
  BY DEF Object
<1>2. CASE t.ops[op] = 0
  BY <1>1, <1>2 DEF GiveUp, Completed, Kept, Flags
<1>3. CASE t.ops[op] # 0
  <2> DEFINE ops == [t.ops EXCEPT ![op] = 0]
  <2>1. t.ops[op] = 1 /\ Live(t, op) /\ op \in All /\ op # "decision"
    BY <1>1, <1>3 DEF Live, All, Ops, ClientOps, UpstreamOps
  <2>2. /\ ops \in [Ops -> {0, 1}] /\ ops[op] = 0
        /\ \A o \in Ops \ {op} : ops[o] = t.ops[o]
    BY <1>1
  <2>3. u = Finish([t EXCEPT !.ops = ops], op, "aborted") /\ "aborted" \in Results
    BY <1>3 DEF GiveUp, Results, Failed
  <2> HIDE DEF ops
  <2>4. /\ u \in Object /\ AllOnce(u)
        /\ \A o \in All : Live(u, o) <=> Live(t, o) \/ o = op
        /\ \A o \in Ops : u.ops[o] <= t.ops[o]
        /\ Kept(t, u) /\ Flags(t, u)
    BY <2>1, <2>2, <2>3, FinishFacts
  <2> QED
    BY <2>1, <2>4 DEF Completed
<1> QED
  BY <1>2, <1>3

LEMMA CompletedTwice ==
    ASSUME NEW t \in Object, NEW u, NEW v, Completed(t, u), Completed(u, v)
    PROVE  Completed(t, v)
<1>1. /\ t.ops \in [Ops -> {0, 1}] /\ u.ops \in [Ops -> {0, 1}] /\ v.ops \in [Ops -> {0, 1}]
  BY DEF Object, Completed
<1>2. \A o \in Ops : v.ops[o] <= t.ops[o]
  BY <1>1 DEF Completed
<1> QED
  BY <1>2 DEF Completed, Kept, Flags

LEMMA GiveUpBothFacts ==
    ASSUME NEW t \in Object, AllOnce(t)
    PROVE  Completed(t, GiveUpUpstream(GiveUpClient(t)))
<1>1. \A v \in Object, op \in Ops : AllOnce(v) => Completed(v, GiveUp(v, op))
  BY GiveUpFacts
<1>2. \A v : \A op \in Ops : Completed(t, v) => Completed(t, GiveUp(v, op))
  BY <1>1, CompletedTwice DEF Completed
<1>3. Completed(t, t)
  BY DEF Completed, Object, Kept, Flags
<1>4. {"tell", "shakeClient", "readClient", "writeClient",
       "connect", "shakeUp", "readUp", "writeUp"} \subseteq Ops
  BY DEF Ops, ClientOps, UpstreamOps
<1> DEFINE t1 == GiveUp(t, "tell")
           t2 == GiveUp(t1, "shakeClient")
           t3 == GiveUp(t2, "readClient")
           t4 == GiveUp(t3, "writeClient")
           t5 == GiveUp(t4, "connect")
           t6 == GiveUp(t5, "shakeUp")
           t7 == GiveUp(t6, "readUp")
           t8 == GiveUp(t7, "writeUp")
<1>5. GiveUpUpstream(GiveUpClient(t)) = t8
  BY DEF GiveUpUpstream, GiveUpClient
<1>6. Completed(t, t1)
  BY <1>2, <1>3, <1>4
<1> HIDE DEF t1
<1>7. Completed(t, t2)
  BY <1>2, <1>4, <1>6
<1> HIDE DEF t2
<1>8. Completed(t, t3)
  BY <1>2, <1>4, <1>7
<1> HIDE DEF t3
<1>9. Completed(t, t4)
  BY <1>2, <1>4, <1>8
<1> HIDE DEF t4
<1>10. Completed(t, t5)
  BY <1>2, <1>4, <1>9
<1> HIDE DEF t5
<1>11. Completed(t, t6)
  BY <1>2, <1>4, <1>10
<1> HIDE DEF t6
<1>12. Completed(t, t7)
  BY <1>2, <1>4, <1>11
<1> HIDE DEF t7
<1>13. Completed(t, t8)
  BY <1>2, <1>4, <1>12
<1> QED
  BY <1>5, <1>13

\* close() of an open session.
LEMMA CloseFacts ==
    ASSUME NEW t \in Object, AllOnce(t), ~t.closed, NEW u, u = Close(t)
    PROVE  /\ u \in Object /\ AllOnce(u) /\ Kept(t, u)
           /\ u.closed /\ ~u.timer /\ (u.held <=> t.held /\ t.id = 0)
           /\ \A o \in All : Live(u, o) <=> Live(t, o)
<1> DEFINE v == [CancelTimer(t) EXCEPT !.closed = TRUE, !.held = @ /\ t.id = 0]
<1>1. v = [t EXCEPT !.timer = FALSE, !.closed = TRUE, !.held = t.held /\ t.id = 0]
  BY DEF CancelTimer, Object
<1>2. (t.held /\ t.id = 0) \in BOOLEAN
  BY DEF Object
<1>3. /\ v \in Object /\ Kept(t, v) /\ v.done = t.done /\ v.ops = t.ops
      /\ v.closed /\ ~v.timer /\ (v.held <=> t.held /\ t.id = 0)
  BY <1>1, <1>2 DEF Object, Kept
<1>4. u = GiveUpUpstream(GiveUpClient(v))
  BY DEF Close
<1> HIDE DEF v
<1>5. AllOnce(v) /\ \A o : Live(v, o) <=> Live(t, o)
  BY <1>3, QueuesDecide
<1>6. Completed(v, u)
  BY <1>3, <1>4, <1>5, GiveUpBothFacts
<1> QED
  BY <1>3, <1>5, <1>6 DEF Completed, Kept, Flags

-----------------------------------------------------------------------------
(* The inductive invariant *)

\* The turn, the pause and the handshakes exclude each other.
Places(t) ==
    /\ \A a, b \in Turn \cup {"decision"} : Live(t, a) /\ Live(t, b) => a = b
    /\ t.held => \A a \in Turn \cup {"decision"} : ~Live(t, a)
    /\ Live(t, "shakeClient") \/ Live(t, "shakeUp") =>
         ~t.held /\ \A a \in Turn \cup {"decision"} : ~Live(t, a)

\* Which stage of the connection each operation belongs to.
Stages(t) ==
    /\ \A op \in {"resolve", "connect", "tell"} : Live(t, op) /\ ~t.closed => ~t.tls
    /\ \A op \in {"shakeClient", "shakeUp"} : Live(t, op) => t.tls
    /\ \A op \in TlsOps : Live(t, op) => t.client /\ t.up
    /\ t.held \/ Live(t, "decision") \/ t.id # 0 => t.client /\ t.up
    /\ t.client \/ t.up => t.tls
    /\ Live(t, "shakeClient") /\ ~t.closed => ~t.client
    /\ Live(t, "shakeUp") /\ ~t.closed => ~t.up

\* Where the transaction is known to be open, and where there is none.
Transactions(t) ==
    /\ t.id \in {0, t.n}
    /\ t.held => t.id # 0
    /\ ~t.closed =>
        /\ \A op \in {"resolve", "connect", "shakeClient", "shakeUp", "readClient"} :
              Live(t, op) => t.id = 0 /\ ~t.resp
        /\ Live(t, "tell") /\ ~t.caw => t.id = 0 /\ ~t.resp
        /\ t.held \/ Live(t, "decision") \/ Live(t, "writeUp") \/ Live(t, "readUp") =>
              t.id # 0 /\ ~t.resp
        /\ Live(t, "resolve") \/ Live(t, "connect") => t.log = <<>>

\* The write queues are not empty while a write is under way; the one to the
\* upstream server is empty otherwise.
Writes(t) ==
    /\ t.wq <= Len(t.out)
    /\ Live(t, "writeClient") => t.wq > 0
    /\ Live(t, "writeUp") => t.uq = 1
    /\ ~t.closed /\ ~Live(t, "writeUp") => t.uq = 0

Watches(t) ==
    IF t.closed THEN ~t.held /\ ~t.timer
    ELSE t.timer \/ Live(t, "timer") \/ t.held \/ Live(t, "decision")

\* An open transaction is younger than every entry of the log.
Entries(t) ==
    /\ \A i \in DOMAIN t.log : t.log[i].id <= t.n
    /\ \A i, j \in DOMAIN t.log : i < j => t.log[i].id < t.log[j].id
    /\ ~t.resp /\ t.id # 0 => \A i \in DOMAIN t.log : t.log[i].id < t.id

InOrder(out) ==
    \A i, j \in DOMAIN out :
        i < j /\ out[i].id # out[j].id =>
            /\ out[i].id < out[j].id
            /\ \E k \in i .. (j - 1) : out[k].id = out[i].id /\ out[k].last

\* Every answer but the one to the open transaction is complete.
Complete(out, id) ==
    \A i \in DOMAIN out : out[i].id # id =>
        \E k \in i .. Len(out) : out[k].id = out[i].id /\ out[k].last

Stream(t) ==
    /\ \A i \in DOMAIN t.out : t.out[i].id <= t.n
    /\ InOrder(t.out)
    /\ Complete(t.out, t.id)

Inner(t) ==
    /\ t \in Object /\ AllOnce(t)
    /\ Places(t) /\ Stages(t) /\ Transactions(t) /\ Writes(t)
    /\ Watches(t) /\ Entries(t) /\ Stream(t)

IInv == Inner(m) /\ asked \in 0 .. MaxReq /\ reads \in 0 .. MaxReads

\* What the run checks follows.
LEMMA InnerImplies == IInv => TypeOK /\ Layers /\ OneTurn /\ Watched /\ LogOnce /\ StreamInOrder
<1> SUFFICES ASSUME IInv PROVE TypeOK /\ Layers /\ OneTurn /\ Watched /\ LogOnce /\ StreamInOrder
  OBVIOUS
<1> USE DEF IInv, Inner
<1>1. TypeOK
  BY DEF TypeOK, Transactions, Writes
<1>2. \A op \in {"timer", "decision"} : Live(m, op) <=> Queued(m, op)
  BY DEF Live, Ops, ClientOps, UpstreamOps
<1>3. Layers
  BY <1>2 DEF Layers, Stages, Paused
<1>4. OneTurn
  <2>1. \A a, b \in Turn : Live(m, a) /\ Live(m, b) => a = b
    BY DEF Places
  <2>2. Paused \/ Live(m, "shakeClient") \/ Live(m, "shakeUp") => \A a \in Turn : ~Live(m, a)
    <3>1. "decision" \notin Turn
      BY DEF Turn
    <3> QED
      BY <1>2, <3>1 DEF Places, Paused
  <2> QED
    BY <2>1, <2>2 DEF OneTurn, AllOnce, Writes
<1>5. Watched
  BY <1>2 DEF Watched, Watches, Paused
<1>6. LogOnce
  BY DEF LogOnce, Entries
<1>7. StreamInOrder
  BY DEF StreamInOrder, Stream, InOrder
<1> QED
  BY <1>1, <1>3, <1>4, <1>5, <1>6, <1>7

LEMMA InitIInv == Init => IInv
<1> SUFFICES ASSUME Init PROVE IInv
  OBVIOUS
<1>1. /\ m \in Object /\ m.done = <<>> /\ m.log = <<>> /\ m.out = <<>>
      /\ \A op \in Ops : m.ops[op] = 1 <=> op = "resolve"
  BY DEF Init, Object, Ops, ClientOps, UpstreamOps
<1>2. \A op \in All : Live(m, op) <=> op = "resolve"
  BY <1>1 DEF Live, Queued, All, Ops, ClientOps, UpstreamOps
<1>3. AllOnce(m)
  BY <1>1 DEF AllOnce, Once, Queued
<1>4. Places(m) /\ Stages(m) /\ Transactions(m)
  BY <1>2 DEF Places, Stages, Transactions, Init, All, Turn, TlsOps, Ops, ClientOps, UpstreamOps
<1>5. Writes(m) /\ Watches(m)
  BY <1>1, <1>2 DEF Writes, Watches, Init, All, Ops, ClientOps, UpstreamOps
<1>6. Entries(m) /\ Stream(m)
  BY <1>1 DEF Entries, Stream, InOrder, Complete
<1>7. asked \in 0 .. MaxReq /\ reads \in 0 .. MaxReads
  BY MitmAssumption DEF Init
<1> QED
  BY <1>1, <1>3, <1>4, <1>5, <1>6, <1>7 DEF IInv, Inner

\* The invariant speaks of these names only.
LEMMA Names ==
    /\ Turn \cup {"decision"} \subseteq All \ {"timer"}
    /\ TlsOps \subseteq All \ {"timer"}
    /\ {"resolve", "connect", "tell", "shakeClient", "shakeUp",
        "readClient", "writeUp", "readUp", "writeClient", "decision"} = All \ {"timer"}
  BY DEF Turn, TlsOps, All, Ops, ClientOps, UpstreamOps

\* Completions change nothing that the invariant speaks of.
LEMMA CompletedKeeps == ASSUME NEW t, Inner(t), NEW u, Completed(t, u) PROVE Inner(u)
<1>1. /\ u \in Object /\ AllOnce(u) /\ Kept(t, u) /\ Flags(t, u)
      /\ \A o \in All : Live(u, o) <=> Live(t, o)
  BY DEF Completed
<1>2. "timer" \in All
  BY DEF All
<1>3. Places(u) /\ Stages(u)
  BY <1>1, Names DEF Inner, Places, Stages, Kept, Flags
<1>4. Transactions(u) /\ Writes(u) /\ Watches(u)
  BY <1>1, <1>2, Names DEF Inner, Transactions, Writes, Watches, Kept, Flags, Turn, TlsOps
<1>5. Entries(u) /\ Stream(u)
  BY <1>1 DEF Inner, Entries, Stream, Kept
<1> QED
  BY <1>1, <1>3, <1>4, <1>5 DEF Inner

\* Of an open session whose handler runs, what close() needs.
Weak(t) ==
    /\ t \in Object /\ AllOnce(t)
    /\ Places(t) /\ Stages(t) /\ Entries(t) /\ Stream(t)
    /\ t.id \in {0, t.n} /\ (t.held => t.id # 0)
    /\ t.wq <= Len(t.out)
    /\ Live(t, "writeClient") => t.wq > 0
    /\ Live(t, "writeUp") => t.uq = 1

\* The same object with fewer handlers to run.
Fewer(t, u) ==
    /\ u \in Object /\ AllOnce(u) /\ Kept(t, u) /\ Flags(t, u)
    /\ \A o \in All \ {"timer"} : Live(u, o) => Live(t, o)

LEMMA FewerWeak == ASSUME NEW t, Inner(t), NEW u, Fewer(t, u) PROVE Weak(u)
<1>1. /\ u \in Object /\ AllOnce(u) /\ Kept(t, u) /\ Flags(t, u)
      /\ \A o \in All \ {"timer"} : Live(u, o) => Live(t, o)
  BY DEF Fewer
<1>2. Places(u)
  BY <1>1, Names DEF Inner, Places, Flags
<1>3. Stages(u)
  BY <1>1, Names DEF Inner, Stages, Kept, Flags
<1>4. Entries(u) /\ Stream(u)
  BY <1>1 DEF Inner, Entries, Stream, Kept
<1>5. /\ u.id \in {0, u.n} /\ (u.held => u.id # 0)
      /\ u.wq <= Len(u.out)
      /\ Live(u, "writeClient") => u.wq > 0
      /\ Live(u, "writeUp") => u.uq = 1
  BY <1>1, Names DEF Inner, Transactions, Writes, Kept, Flags
<1> QED
  BY <1>1, <1>2, <1>3, <1>4, <1>5 DEF Weak

\* A closed session has nothing else to keep.
LEMMA ClosedInner ==
    ASSUME NEW t, Weak(t), t.closed, ~t.held, ~t.timer PROVE Inner(t)
  BY DEF Weak, Inner, Transactions, Writes, Watches

LEMMA CloseInner ==
    ASSUME NEW t, Weak(t), ~t.closed, NEW u, u = Close(t) PROVE Inner(u)
<1>1. /\ u \in Object /\ AllOnce(u) /\ Kept(t, u)
      /\ u.closed /\ ~u.timer /\ (u.held <=> t.held /\ t.id = 0)
      /\ \A o \in All : Live(u, o) <=> Live(t, o)
  BY CloseFacts DEF Weak
<1>2. ~u.held
  BY <1>1 DEF Weak
<1>3. Places(u)
  BY <1>1, <1>2, Names DEF Weak, Places
<1>4. Stages(u)
  BY <1>1, <1>2, Names DEF Weak, Stages, Kept
<1>5. Entries(u) /\ Stream(u)
  BY <1>1 DEF Weak, Entries, Stream, Kept
<1>6. /\ u.id \in {0, u.n} /\ u.wq <= Len(u.out)
      /\ Live(u, "writeClient") => u.wq > 0
      /\ Live(u, "writeUp") => u.uq = 1
  BY <1>1, Names DEF Weak, Kept
<1>7. Weak(u)
  BY <1>1, <1>2, <1>3, <1>4, <1>5, <1>6 DEF Weak
<1> QED
  BY <1>1, <1>2, <1>7, ClosedInner

\* A closed session only loses handlers.
LEMMA FewerClosed == ASSUME NEW t, Inner(t), t.closed, NEW u, Fewer(t, u) PROVE Inner(u)
<1>1. Weak(u)
  BY FewerWeak
<1>2. u.closed /\ ~u.held /\ ~u.timer
  BY DEF Fewer, Flags, Inner, Watches
<1> QED
  BY <1>1, <1>2, ClosedInner

\* The handler op is taken from the queue of t, which leaves u.
Taken(t, u, op) ==
    /\ Live(t, op)
    /\ u \in Object /\ AllOnce(u) /\ Kept(t, u) /\ Flags(t, u)
    /\ \A o \in All \ {"timer"} : Live(u, o) <=> Live(t, o) /\ o # op
    /\ op # "timer" => (Live(u, "timer") <=> Live(t, "timer"))

LEMMA TakenFacts ==
    ASSUME IInv, NEW op \in All, Due(op)
    PROVE  Taken(m, Ran, op) /\ Fewer(m, Ran) /\ Ran.ops = m.ops /\ Result \in Results
<1>1. m \in Object /\ AllOnce(m) /\ m.done # <<>> /\ Head(m.done).op = op
  BY DEF IInv, Inner, Due
<1>2. Ran = [m EXCEPT !.done = Tail(@)]
  BY DEF Ran
<1> QED
  BY <1>1, <1>2, RanFacts DEF Taken, Fewer, Result

\* What almost every handler does when the session is closed, or gives it up.
LEMMA DropOrClose ==
    ASSUME IInv, NEW op \in All, Due(op)
    PROVE  /\ m.closed => Inner(Ran) /\ Close(Ran) = Ran
           /\ Inner(Close(Ran))
<1>1. Fewer(m, Ran) /\ Inner(m)
  BY TakenFacts DEF IInv
<1>2. Ran.closed = m.closed /\ m \in Object
  BY <1>1 DEF Fewer, Flags, Inner
<1>3. CASE m.closed
  <2>1. Inner(Ran)
    BY <1>1, <1>3, FewerClosed
  <2>2. Close(Ran) = Ran
    BY <1>2, <1>3 DEF Close
  <2> QED
    BY <2>1, <2>2
<1>4. CASE ~m.closed
  <2>1. Weak(Ran)
    BY <1>1, FewerWeak
  <2>2. Inner(Close(Ran))
    BY <1>2, <1>4, <2>1, CloseInner
  <2> QED
    BY <1>4, <2>2
<1> QED
  BY <1>3, <1>4

-----------------------------------------------------------------------------
(* The helpers that write to the log and to the client *)

LEMMA AppendFacts ==
    ASSUME NEW S, NEW q \in Seq(S), NEW e \in S
    PROVE  /\ Append(q, e) \in Seq(S)
           /\ Len(q) \in Nat /\ DOMAIN q = 1 .. Len(q)
           /\ Len(Append(q, e)) = Len(q) + 1 /\ DOMAIN Append(q, e) = 1 .. Len(q) + 1
           /\ \A i \in 1 .. Len(q) : Append(q, e)[i] = q[i]
           /\ Append(q, e)[Len(q) + 1] = e
  OBVIOUS

LEMMA LogFacts ==
    ASSUME NEW t \in Object, NEW status \in Statuses, NEW u, u = LogAs(t, status)
    PROVE  /\ u \in Object /\ u.ops = t.ops /\ u.done = t.done
           /\ u.resp /\ u.log = Append(t.log, [id |-> t.id, status |-> status])
           /\ Flags(t, u)
           /\ u.tls = t.tls /\ u.client = t.client /\ u.up = t.up /\ u.caw = t.caw
           /\ u.id = t.id /\ u.n = t.n /\ u.acc = t.acc
           /\ u.wq = t.wq /\ u.uq = t.uq /\ u.out = t.out
<1> DEFINE e == [id |-> t.id, status |-> status]
<1>1. t.log \in Seq(Entry) /\ e \in Entry
  BY DEF Object, Entry
<1>2. u = [t EXCEPT !.resp = TRUE, !.log = Append(t.log, e)]
  BY DEF LogAs, Object
<1> HIDE DEF e
<1>3. Append(t.log, e) \in Seq(Entry)
  BY <1>1
<1>4. u.log = Append(t.log, e) /\ u.resp /\ u \in Object
  BY <1>2, <1>3 DEF Object
<1>5. /\ u.ops = t.ops /\ u.done = t.done /\ Flags(t, u)
      /\ u.tls = t.tls /\ u.client = t.client /\ u.up = t.up /\ u.caw = t.caw
      /\ u.id = t.id /\ u.n = t.n /\ u.acc = t.acc
      /\ u.wq = t.wq /\ u.uq = t.uq /\ u.out = t.out
  BY <1>2 DEF Object, Flags
<1> QED
  BY <1>4, <1>5 DEF e

\* An entry may be added for a transaction that has none.
LEMMA LogEntries ==
    ASSUME NEW t \in Object, Entries(t), t.id \in {0, t.n},
           NEW status \in Statuses,
           \/ ~t.resp /\ t.id # 0
           \/ t.log = <<>>,
           NEW u, u.log = Append(t.log, [id |-> t.id, status |-> status]), u.n = t.n, u.resp
    PROVE  Entries(u)
<1> DEFINE e == [id |-> t.id, status |-> status]
<1>1. e \in Entry /\ e.id = t.id /\ t.log \in Seq(Entry) /\ t.id \in Nat /\ t.n \in Nat
  BY DEF Object, Entry
<1>2. u.log = Append(t.log, e)
  OBVIOUS
<1> HIDE DEF e
<1>3. /\ Len(t.log) \in Nat /\ DOMAIN t.log = 1 .. Len(t.log)
      /\ DOMAIN u.log = 1 .. Len(t.log) + 1
      /\ \A i \in 1 .. Len(t.log) : u.log[i] = t.log[i]
      /\ u.log[Len(t.log) + 1] = e
  BY <1>1, <1>2, AppendFacts
<1>4. \A i \in 1 .. Len(t.log) : t.log[i].id \in Nat /\ t.log[i].id < t.id /\ t.log[i].id <= t.n
  <2>1. CASE ~t.resp /\ t.id # 0
    <3> SUFFICES ASSUME NEW i \in 1 .. Len(t.log)
                 PROVE  t.log[i].id \in Nat /\ t.log[i].id < t.id /\ t.log[i].id <= t.n
      OBVIOUS
    <3>1. t.log[i] \in Entry /\ i \in DOMAIN t.log
      BY <1>1, <1>3
    <3>2. t.log[i].id \in Nat
      BY <3>1 DEF Entry
    <3> QED
      BY <2>1, <3>1, <3>2 DEF Entries
  <2>2. CASE t.log = <<>>
    BY <2>2
  <2> QED
    BY <2>1, <2>2
<1>5. \A i \in DOMAIN u.log : u.log[i].id <= u.n
  BY <1>1, <1>3, <1>4
<1>6. \A i, j \in DOMAIN u.log : i < j => u.log[i].id < u.log[j].id
  <2> SUFFICES ASSUME NEW i \in DOMAIN u.log, NEW j \in DOMAIN u.log, i < j
               PROVE  u.log[i].id < u.log[j].id
    OBVIOUS
  <2>1. i \in 1 .. Len(t.log)
    BY <1>3
  <2>2. CASE j = Len(t.log) + 1
    BY <1>1, <1>3, <1>4, <2>1, <2>2
  <2>3. CASE j # Len(t.log) + 1
    <3>1. j \in 1 .. Len(t.log)
      BY <1>3, <2>3
    <3> QED
      BY <1>3, <2>1, <3>1 DEF Entries
  <2> QED
    BY <2>2, <2>3
<1> QED
  BY <1>5, <1>6 DEF Entries

\* A chunk of the open transaction continues the stream.
LEMMA StreamGoesOn ==
    ASSUME NEW out \in Seq(Chunk), InOrder(out), NEW id \in Nat \ {0}, Complete(out, id),
           \A i \in DOMAIN out : out[i].id <= id,
           NEW last \in BOOLEAN, NEW new, new = Append(out, [id |-> id, last |-> last])
    PROVE  /\ new \in Seq(Chunk) /\ Len(new) = Len(out) + 1 /\ Len(out) \in Nat
           /\ \A i \in DOMAIN new : new[i].id <= id
           /\ InOrder(new) /\ Complete(new, id)
           /\ last => Complete(new, 0)
<1> DEFINE e == [id |-> id, last |-> last]
<1>1. e \in Chunk /\ e.id = id /\ e.last = last /\ new = Append(out, e)
  BY DEF Chunk
<1> HIDE DEF e
<1>2. /\ new \in Seq(Chunk) /\ Len(out) \in Nat /\ Len(new) = Len(out) + 1
      /\ DOMAIN out = 1 .. Len(out) /\ DOMAIN new = 1 .. Len(out) + 1
      /\ \A i \in 1 .. Len(out) : new[i] = out[i]
      /\ new[Len(out) + 1] = e
  BY <1>1, AppendFacts
<1>3. \A i \in 1 .. Len(out) : out[i].id \in Nat /\ out[i].id <= id
  <2> SUFFICES ASSUME NEW i \in 1 .. Len(out) PROVE out[i].id \in Nat /\ out[i].id <= id
    OBVIOUS
  <2>1. out[i] \in Chunk /\ i \in DOMAIN out
    BY <1>2
  <2> QED
    BY <2>1 DEF Chunk
<1>4. \A i \in DOMAIN new : new[i].id <= id
  BY <1>1, <1>2, <1>3
<1>5. ASSUME NEW i \in 1 .. Len(out), out[i].id # id
      PROVE  \E k \in i .. Len(out) : new[k].id = out[i].id /\ new[k].last
  <2>1. PICK k \in i .. Len(out) : out[k].id = out[i].id /\ out[k].last
    BY <1>2, <1>5 DEF Complete
  <2>2. k \in 1 .. Len(out)
    BY <1>2, <2>1
  <2> QED
    BY <1>2, <2>1, <2>2
<1>6. Complete(new, id)
  <2> SUFFICES ASSUME NEW i \in DOMAIN new, new[i].id # id
               PROVE  \E k \in i .. Len(new) : new[k].id = new[i].id /\ new[k].last
    BY DEF Complete
  <2>1. i \in 1 .. Len(out) /\ new[i] = out[i]
    BY <1>1, <1>2
  <2>2. PICK k \in i .. Len(out) : new[k].id = out[i].id /\ new[k].last
    BY <1>5, <2>1
  <2> QED
    BY <1>2, <2>1, <2>2
<1>7. last => Complete(new, 0)
  <2> SUFFICES ASSUME last, NEW i \in DOMAIN new
               PROVE  \E k \in i .. Len(new) : new[k].id = new[i].id /\ new[k].last
    BY DEF Complete
  <2>1. CASE new[i].id # id
    BY <1>6, <2>1 DEF Complete
  <2>2. CASE new[i].id = id
    <3>1. Len(new) \in i .. Len(new)
      BY <1>2
    <3> QED
      BY <1>1, <1>2, <2>2, <3>1
  <2> QED
    BY <2>1, <2>2
<1>8. InOrder(new)
  <2> SUFFICES ASSUME NEW i \in DOMAIN new, NEW j \in DOMAIN new, i < j, new[i].id # new[j].id
               PROVE  /\ new[i].id < new[j].id
                      /\ \E k \in i .. (j - 1) : new[k].id = new[i].id /\ new[k].last
    BY DEF InOrder
  <2>1. i \in 1 .. Len(out) /\ new[i] = out[i]
    BY <1>2
  <2>2. CASE j = Len(out) + 1
    <3>1. new[j].id = id /\ out[i].id # id /\ j - 1 = Len(out)
      BY <1>1, <1>2, <2>1, <2>2
    <3>2. new[i].id < new[j].id
      BY <1>3, <2>1, <3>1
    <3>3. \E k \in i .. Len(out) : new[k].id = new[i].id /\ new[k].last
      BY <1>5, <2>1, <3>1
    <3> QED
      BY <3>1, <3>2, <3>3
  <2>3. CASE j # Len(out) + 1
    <3>1. j \in 1 .. Len(out) /\ new[j] = out[j]
      BY <1>2, <2>3
    <3>2. PICK k \in i .. (j - 1) : out[k].id = out[i].id /\ out[k].last
      BY <1>2, <2>1, <3>1 DEF InOrder
    <3>3. k \in 1 .. Len(out)
      BY <1>2, <2>1, <3>1
    <3>4. new[i].id < new[j].id
      BY <1>2, <2>1, <3>1 DEF InOrder
    <3> QED
      BY <1>2, <2>1, <3>2, <3>3, <3>4
  <2> QED
    BY <2>2, <2>3
<1> QED
  BY <1>2, <1>4, <1>6, <1>7, <1>8

LEMMA WriteFacts ==
    ASSUME NEW t \in Object, AllOnce(t), Live(t, "writeClient") => t.wq > 0,
           NEW last \in BOOLEAN, t.id # 0, t.id = t.n, Stream(t),
           NEW u, u = WriteClient(t, [id |-> t.id, last |-> last])
    PROVE  /\ u \in Object /\ AllOnce(u) /\ Flags(t, u)
           /\ \A o \in All : Live(u, o) <=> Live(t, o) \/ (o = "writeClient" /\ t.wq = 0)
           /\ u.wq = t.wq + 1 /\ Len(u.out) = Len(t.out) + 1 /\ Len(t.out) \in Nat
           /\ Stream(u) /\ (last => Complete(u.out, 0))
           /\ u.tls = t.tls /\ u.client = t.client /\ u.up = t.up /\ u.caw = t.caw
           /\ u.id = t.id /\ u.n = t.n /\ u.resp = t.resp /\ u.acc = t.acc
           /\ u.uq = t.uq /\ u.log = t.log
<1> DEFINE new == Append(t.out, [id |-> t.id, last |-> last])
           v == [t EXCEPT !.wq = @ + 1, !.out = new]
<1>1. /\ new \in Seq(Chunk) /\ Len(new) = Len(t.out) + 1 /\ Len(t.out) \in Nat
      /\ \A i \in DOMAIN new : new[i].id <= t.id
      /\ InOrder(new) /\ Complete(new, t.id)
      /\ last => Complete(new, 0)
  BY StreamGoesOn DEF Object, Stream
<1>2. u = IF t.wq = 0 THEN Start(v, "writeClient") ELSE v
  BY DEF WriteClient
<1> HIDE DEF new
<1>3. v = [t EXCEPT !.wq = t.wq + 1, !.out = new] /\ t.wq + 1 \in Nat
  BY DEF Object
<1>4. /\ v \in Object /\ v.ops = t.ops /\ v.done = t.done /\ v.wq = t.wq + 1 /\ v.out = new
      /\ Flags(t, v)
      /\ v.tls = t.tls /\ v.client = t.client /\ v.up = t.up /\ v.caw = t.caw
      /\ v.id = t.id /\ v.n = t.n /\ v.resp = t.resp /\ v.acc = t.acc
      /\ v.uq = t.uq /\ v.log = t.log
  BY <1>1, <1>3 DEF Object, Flags
<1> HIDE DEF v
<1>5. AllOnce(v) /\ \A o : Live(v, o) <=> Live(t, o)
  BY <1>4, QueuesDecide
<1>6. /\ u \in Object /\ AllOnce(u) /\ Kept(v, u) /\ Flags(v, u)
      /\ \A o \in All : Live(u, o) <=> Live(t, o) \/ (o = "writeClient" /\ t.wq = 0)
  <2>1. CASE t.wq = 0
    <3>1. ~Live(v, "writeClient") /\ "writeClient" \in Ops
      BY <1>5, <2>1 DEF Object, Ops, ClientOps
    <3> QED
      BY <1>2, <1>4, <1>5, <2>1, <3>1, StartFacts
  <2>2. CASE t.wq # 0
    BY <1>2, <1>4, <1>5, <2>2 DEF Kept, Flags
  <2> QED
    BY <2>1, <2>2
<1>7. Stream(u)
  BY <1>1, <1>4, <1>6 DEF Stream, Kept
<1> QED
  BY <1>1, <1>4, <1>6, <1>7 DEF Kept, Flags

-----------------------------------------------------------------------------
(* The handlers of an open session *)

\* Of an open session with no handshake under way: only the operation to, if
\* any, has the turn.
Settled(u, to) ==
    /\ u \in Object /\ AllOnce(u) /\ Entries(u) /\ Stream(u) /\ ~u.closed
    /\ to \in Turn \cup {"decision", "nobody"}
    /\ \A o \in All \ {"timer", "writeClient"} : Live(u, o) <=> o = to
    /\ to \in {"resolve", "connect", "tell"} => ~u.tls
    /\ to \in TlsOps \cup {"decision"} \/ Live(u, "writeClient") \/ u.id # 0 => u.client /\ u.up
    /\ u.client \/ u.up => u.tls
    /\ u.id \in {0, u.n}
    /\ u.held => to = "nobody" /\ u.id # 0 /\ ~u.resp
    /\ to \in {"resolve", "connect", "readClient"} \/ (to = "tell" /\ ~u.caw) => u.id = 0 /\ ~u.resp
    /\ to \in {"decision", "writeUp", "readUp"} => u.id # 0 /\ ~u.resp
    /\ to \in {"resolve", "connect"} => u.log = <<>>
    /\ u.wq <= Len(u.out) /\ (Live(u, "writeClient") => u.wq > 0)
    /\ u.uq = IF to = "writeUp" THEN 1 ELSE 0
    /\ u.timer \/ Live(u, "timer") \/ u.held \/ Live(u, "decision")

LEMMA SettledInner == ASSUME NEW u, NEW to, Settled(u, to) PROVE Inner(u)
<1> USE DEF Settled
<1>1. \A o \in Turn \cup {"decision"} : Live(u, o) <=> o = to
  BY Names DEF Turn
<1>2. ~Live(u, "shakeClient") /\ ~Live(u, "shakeUp")
  BY Names DEF Turn
<1>3. Places(u)
  <2>1. u.held => \A a \in Turn \cup {"decision"} : ~Live(u, a)
    <3>1. "nobody" \notin Turn \cup {"decision"}
      BY DEF Turn
    <3> QED
      BY <1>1, <3>1
  <2> QED
    BY <1>1, <1>2, <2>1 DEF Places
<1>4. Stages(u)
  <2>1. \A op \in {"resolve", "connect", "tell"} : Live(u, op) => ~u.tls
    BY <1>1 DEF Turn
  <2>2. \A op \in TlsOps : Live(u, op) => u.client /\ u.up
    BY <1>1 DEF Turn, TlsOps
  <2>3. u.held \/ Live(u, "decision") \/ u.id # 0 => u.client /\ u.up
    BY <1>1
  <2> QED
    BY <1>2, <2>1, <2>2, <2>3 DEF Stages
<1>5. Transactions(u)
  BY <1>1, <1>2 DEF Transactions, Turn
<1>6. Writes(u)
  BY <1>1 DEF Writes, Turn
<1>7. Watches(u)
  BY DEF Watches
<1> QED
  BY <1>3, <1>4, <1>5, <1>6, <1>7 DEF Inner

\* What the session and the rest of its queue are when op, which has the turn,
\* is handled.
LEMMA TurnTaken ==
    ASSUME IInv, NEW op \in Turn \cup {"decision"}, Due(op), ~m.closed
    PROVE  /\ Ran \in Object /\ AllOnce(Ran) /\ Ran.done = Tail(m.done) /\ Ran.ops = m.ops
           /\ Kept(m, Ran) /\ Flags(m, Ran) /\ ~Ran.held /\ ~Ran.closed
           /\ \A o \in All \ {"timer", "writeClient"} : ~Live(Ran, o)
           /\ Live(Ran, "writeClient") => Ran.wq > 0 /\ Ran.client /\ Ran.up
           /\ Entries(Ran) /\ Stream(Ran) /\ Ran.id \in {0, Ran.n} /\ Ran.wq <= Len(Ran.out)
           /\ Ran.client \/ Ran.up => Ran.tls
           /\ Ran.id # 0 => Ran.client /\ Ran.up
           /\ Live(m, op) /\ Live(Ran, "timer") = Live(m, "timer")
           /\ op \notin {"writeUp"} => Ran.uq = 0
           /\ op # "decision" => Ran.timer \/ Live(Ran, "timer")
<1>1. Inner(m) /\ op \in All /\ op # "timer"
  BY Names DEF IInv
<1>2. Taken(m, Ran, op) /\ Fewer(m, Ran) /\ Ran.ops = m.ops
  BY <1>1, TakenFacts
<1>3. /\ Ran \in Object /\ AllOnce(Ran) /\ Kept(m, Ran) /\ Flags(m, Ran) /\ Live(m, op)
      /\ \A o \in All \ {"timer"} : Live(Ran, o) <=> Live(m, o) /\ o # op
      /\ Live(Ran, "timer") <=> Live(m, "timer")
  BY <1>1, <1>2 DEF Taken
<1>4. Weak(Ran)
  BY <1>1, <1>2, FewerWeak
<1>5. /\ ~m.held /\ ~Live(m, "shakeClient") /\ ~Live(m, "shakeUp")
      /\ \A o \in Turn \cup {"decision"} : Live(m, o) => o = op
  BY <1>1, <1>3 DEF Inner, Places
<1>6. \A o \in All \ {"timer", "writeClient"} : ~Live(Ran, o)
  BY <1>3, <1>5, Names DEF Turn
<1>7. Live(Ran, "writeClient") => Ran.wq > 0 /\ Ran.client /\ Ran.up
  BY <1>4 DEF Weak, Stages, TlsOps
<1>8. op \notin {"writeUp"} => Ran.uq = 0
  <2>1. op # "writeUp" => ~Live(m, "writeUp")
    BY <1>5 DEF Turn
  <2> QED
    BY <1>1, <1>3, <2>1 DEF Inner, Writes, Kept
<1>9. op # "decision" => Ran.timer \/ Live(Ran, "timer")
  BY <1>1, <1>3, <1>5 DEF Inner, Watches, Flags
<1>10. Ran.done = Tail(m.done)
  BY <1>1 DEF Ran, Inner, Object
<1>11. Live(Ran, "timer") = Live(m, "timer")
  BY <1>3 DEF Live, Queued
<1> QED
  BY <1>3, <1>4, <1>5, <1>6, <1>7, <1>8, <1>9, <1>10, <1>2, <1>11 DEF Weak, Stages, Flags

\* An operation that hands the turn over.
LEMMA StartsNext ==
    ASSUME NEW t \in Object, AllOnce(t), NEW to \in Turn,
           \A o \in All \ {"timer", "writeClient"} : ~Live(t, o)
    PROVE  LET u == Start(t, to) IN
           /\ u \in Object /\ AllOnce(u) /\ Kept(t, u) /\ Flags(t, u)
           /\ \A o \in All \ {"timer", "writeClient"} : Live(u, o) <=> o = to
           /\ Live(u, "writeClient") = Live(t, "writeClient")
           /\ Live(u, "timer") = Live(t, "timer")
<1> DEFINE u == Start(t, to)
<1>1. to \in Ops /\ to \in All \ {"timer", "writeClient"} /\ {"timer", "writeClient"} \subseteq All
  BY Names DEF Turn, All, Ops, ClientOps, UpstreamOps
<1>2. /\ u \in Object /\ AllOnce(u) /\ Kept(t, u) /\ Flags(t, u)
      /\ \A o \in All : Live(u, o) <=> Live(t, o) \/ o = to
  BY <1>1, StartFacts
<1>3. \A o : Live(u, o) \in BOOLEAN /\ Live(t, o) \in BOOLEAN
  BY DEF Live, Queued
<1> HIDE DEF u
<1>4. \A o \in All \ {"timer", "writeClient"} : Live(u, o) <=> o = to
  BY <1>2
<1>5. /\ Live(u, "writeClient") = Live(t, "writeClient")
      /\ Live(u, "timer") = Live(t, "timer")
  BY <1>1, <1>2, <1>3
<1>6. /\ u \in Object /\ AllOnce(u) /\ Kept(t, u) /\ Flags(t, u)
      /\ \A o \in All \ {"timer", "writeClient"} : Live(u, o) <=> o = to
      /\ Live(u, "writeClient") = Live(t, "writeClient")
      /\ Live(u, "timer") = Live(t, "timer")
  BY <1>2, <1>4, <1>5
<1> QED
  BY <1>6 DEF u

\* resolve() and connect() towards the target: on, or a 502 in the clear.
LEMMA TargetStep ==
    ASSUME IInv, NEW op \in {"resolve", "connect"}, Due(op), ~m.closed
    PROVE  /\ Inner(SendErrorResponse(Ran, "502"))
           /\ op = "resolve" => Inner(Start(Ran, "connect"))
           /\ op = "connect" => Inner(Start(Ran, "tell"))
<1>1. Inner(m) /\ op \in Turn \cup {"decision"} /\ op \notin {"writeUp", "decision"}
  BY DEF IInv, Turn
<1>2. /\ Ran \in Object /\ AllOnce(Ran)
      /\ Kept(m, Ran) /\ ~Ran.held /\ ~Ran.closed
      /\ \A o \in All \ {"timer", "writeClient"} : ~Live(Ran, o)
      /\ Live(Ran, "writeClient") => Ran.wq > 0 /\ Ran.client /\ Ran.up
      /\ Entries(Ran) /\ Stream(Ran) /\ Ran.id \in {0, Ran.n} /\ Ran.wq <= Len(Ran.out)
      /\ Ran.client \/ Ran.up => Ran.tls
      /\ Live(m, op) /\ Ran.uq = 0
      /\ Ran.timer \/ Live(Ran, "timer")
  BY <1>1, TurnTaken
<1>3. ~m.tls /\ m.id = 0 /\ ~m.resp /\ m.log = <<>>
  BY <1>1, <1>2 DEF Inner, Stages, Transactions
<1>4. ~Ran.tls /\ ~Ran.client /\ ~Ran.up /\ Ran.id = 0 /\ ~Ran.resp /\ Ran.log = <<>>
  BY <1>2, <1>3 DEF Kept
<1> HIDE DEF Ran
<1>5. ASSUME NEW to \in {"connect", "tell"} PROVE Inner(Start(Ran, to))
  <2> DEFINE u == Start(Ran, to)
  <2>1. to \in Turn
    BY DEF Turn
  <2>2. /\ u \in Object /\ AllOnce(u) /\ Kept(Ran, u) /\ Flags(Ran, u)
        /\ \A o \in All \ {"timer", "writeClient"} : Live(u, o) <=> o = to
        /\ Live(u, "writeClient") = Live(Ran, "writeClient")
        /\ Live(u, "timer") = Live(Ran, "timer")
    BY <1>2, <2>1, StartsNext
  <2> HIDE DEF u
  <2>3. Entries(u) /\ Stream(u)
    BY <1>2, <2>2 DEF Entries, Stream, Kept
  <2>4. Settled(u, to)
    BY <1>2, <1>4, <2>1, <2>2, <2>3 DEF Settled, Kept, Flags, TlsOps
  <2> QED
    BY <2>4, SettledInner DEF u
<1>6. Inner(SendErrorResponse(Ran, "502"))
  <2> DEFINE l == LogAs(Ran, "502")
             c == [l EXCEPT !.caw = TRUE]
             u == Start(c, "tell")
  <2>1. /\ l \in Object /\ l.ops = Ran.ops /\ l.done = Ran.done
        /\ l.resp /\ l.log = Append(Ran.log, [id |-> Ran.id, status |-> "502"])
        /\ Flags(Ran, l)
        /\ l.tls = Ran.tls /\ l.client = Ran.client /\ l.up = Ran.up
        /\ l.id = Ran.id /\ l.n = Ran.n
        /\ l.wq = Ran.wq /\ l.uq = Ran.uq /\ l.out = Ran.out
    <3>1. "502" \in Statuses
      BY DEF Statuses
    <3> QED
      BY <1>2, <3>1, LogFacts
  <2>2. Entries(l)
    BY <1>2, <1>4, <2>1, LogEntries DEF Statuses
  <2>3. SendErrorResponse(Ran, "502") = u
    BY <1>4 DEF SendErrorResponse
  <2> HIDE DEF l
  <2>4. /\ c \in Object /\ c.ops = Ran.ops /\ c.done = Ran.done /\ c.caw
        /\ c.resp = l.resp /\ c.log = l.log /\ Flags(Ran, c)
        /\ c.tls = Ran.tls /\ c.client = Ran.client /\ c.up = Ran.up
        /\ c.id = Ran.id /\ c.n = Ran.n
        /\ c.wq = Ran.wq /\ c.uq = Ran.uq /\ c.out = Ran.out
    BY <2>1 DEF Object, Flags
  <2> HIDE DEF c
  <2>5. AllOnce(c) /\ \A o : Live(c, o) <=> Live(Ran, o)
    BY <1>2, <2>4, QueuesDecide
  <2>6. "tell" \in Turn
    BY DEF Turn
  <2>7. /\ u \in Object /\ AllOnce(u) /\ Kept(c, u) /\ Flags(c, u)
        /\ \A o \in All \ {"timer", "writeClient"} : Live(u, o) <=> o = "tell"
        /\ Live(u, "writeClient") = Live(c, "writeClient")
        /\ Live(u, "timer") = Live(c, "timer")
    BY <1>2, <2>4, <2>5, <2>6, StartsNext
  <2> HIDE DEF u
  <2>8. Entries(u) /\ Stream(u)
    BY <1>2, <2>1, <2>2, <2>4, <2>7 DEF Entries, Stream, Kept
  <2>9. Settled(u, "tell")
    BY <1>2, <1>4, <2>4, <2>5, <2>6, <2>7, <2>8 DEF Settled, Kept, Flags, TlsOps
  <2> QED
    BY <2>3, <2>9, SettledInner
<1> QED
  BY <1>5, <1>6

\* CONNECT has been answered: both handshakes begin.
LEMMA ToldStep ==
    ASSUME IInv, Due("tell"), ~m.closed, ~m.caw, NEW u \in StartTlsHandshakes(Ran)
    PROVE  Inner(u)
<1>1. Inner(m) /\ "tell" \in Turn \cup {"decision"} /\ "tell" \in All
  BY Names DEF IInv, Turn
<1>2. /\ Ran \in Object /\ AllOnce(Ran)
      /\ Kept(m, Ran) /\ ~Ran.held /\ ~Ran.closed
      /\ \A o \in All \ {"timer", "writeClient"} : ~Live(Ran, o)
      /\ Live(Ran, "writeClient") => Ran.client
      /\ Entries(Ran) /\ Stream(Ran) /\ Ran.id \in {0, Ran.n} /\ Ran.wq <= Len(Ran.out)
      /\ Ran.client \/ Ran.up => Ran.tls
      /\ Live(m, "tell") /\ Ran.uq = 0
      /\ Ran.timer \/ Live(Ran, "timer")
  BY <1>1, TurnTaken
<1>3. ~m.tls /\ m.id = 0 /\ ~m.resp
  BY <1>1, <1>2 DEF Inner, Stages, Transactions
<1>4. ~Ran.tls /\ ~Ran.client /\ ~Ran.up /\ Ran.id = 0 /\ ~Ran.resp
  BY <1>2, <1>3 DEF Kept
<1>5. CASE u = Close(Ran)
  BY <1>1, <1>5, DropOrClose
<1> DEFINE c == [Ran EXCEPT !.tls = TRUE]
           v == Start(c, "shakeClient")
           w == Start(v, "shakeUp")
<1>6. CASE u = w
  <2> HIDE DEF Ran
  <2>1. /\ c \in Object /\ c.ops = Ran.ops /\ c.done = Ran.done /\ Flags(Ran, c) /\ c.tls
        /\ c.client = Ran.client /\ c.up = Ran.up /\ c.id = Ran.id /\ c.n = Ran.n
        /\ c.resp = Ran.resp /\ c.log = Ran.log
        /\ c.wq = Ran.wq /\ c.uq = Ran.uq /\ c.out = Ran.out
    BY <1>2 DEF Object, Flags
  <2> HIDE DEF c
  <2>2. AllOnce(c) /\ \A o : Live(c, o) <=> Live(Ran, o)
    BY <1>2, <2>1, QueuesDecide
  <2>3. {"shakeClient", "shakeUp"} \subseteq Ops /\ {"shakeClient", "shakeUp"} \subseteq All \ {"timer", "writeClient"}
        /\ {"timer", "writeClient"} \subseteq All
    BY DEF All, Ops, ClientOps, UpstreamOps
  <2>4. /\ v \in Object /\ AllOnce(v) /\ Kept(c, v) /\ Flags(c, v)
        /\ \A o \in All : Live(v, o) <=> Live(c, o) \/ o = "shakeClient"
    BY <1>2, <2>1, <2>2, <2>3, StartFacts
  <2> HIDE DEF v
  <2>5. /\ w \in Object /\ AllOnce(w) /\ Kept(v, w) /\ Flags(v, w)
        /\ \A o \in All : Live(w, o) <=> Live(v, o) \/ o = "shakeUp"
    BY <1>2, <2>2, <2>3, <2>4, StartFacts
  <2> HIDE DEF w
  <2>6. /\ w.tls /\ ~w.client /\ ~w.up /\ w.id = 0 /\ ~w.resp /\ w.n = Ran.n
        /\ w.log = Ran.log /\ w.out = Ran.out /\ w.wq = Ran.wq /\ w.uq = 0
        /\ ~w.closed /\ ~w.held /\ w.timer = Ran.timer
    BY <1>2, <1>4, <2>1, <2>4, <2>5 DEF Kept, Flags
  <2>7. /\ \A o \in All \ {"timer"} : Live(w, o) => o \in {"shakeClient", "shakeUp"}
        /\ Live(w, "timer") <=> Live(Ran, "timer")
    BY <1>2, <1>4, <2>2, <2>3, <2>4, <2>5
  <2>8. \A o \in Turn \cup {"decision"} : ~Live(w, o)
    BY <2>7, Names DEF Turn
  <2>9. Places(w)
    BY <2>6, <2>8 DEF Places
  <2>10. Stages(w)
    <3>1. \A o \in TlsOps : ~Live(w, o)
      BY <2>7, Names DEF TlsOps
    <3> QED
      BY <2>6, <2>8, <3>1 DEF Stages, Turn
  <2>11. Transactions(w)
    BY <2>6, <2>8 DEF Transactions, Turn
  <2>12. Writes(w) /\ Watches(w)
    <3>1. ~Live(w, "writeClient") /\ ~Live(w, "writeUp")
      BY <2>7, Names
    <3> QED
      BY <1>2, <2>6, <2>7, <3>1 DEF Writes, Watches
  <2>13. Entries(w) /\ Stream(w)
    BY <1>2, <1>4, <2>6 DEF Entries, Stream
  <2> QED
    BY <1>6, <2>5, <2>9, <2>10, <2>11, <2>12, <2>13 DEF Inner
<1>7. u = Close(Ran) \/ u = w
  BY DEF StartTlsHandshakes
<1> QED
  BY <1>5, <1>6, <1>7

\* A handshake is done; the second one to be done lets the client speak.
LEMMA ShakenStep ==
    ASSUME IInv, NEW op \in {"shakeClient", "shakeUp"}, Due(op), ~m.closed,
           NEW t, t = IF op = "shakeClient" THEN [Ran EXCEPT !.client = TRUE]
                                            ELSE [Ran EXCEPT !.up = TRUE]
    PROVE  /\ t.client /\ t.up => Inner(Start(t, "readClient"))
           /\ ~(t.client /\ t.up) => Inner(t)
<1>1. Inner(m) /\ op \in All /\ op # "timer"
  BY DEF IInv, All, Ops, ClientOps, UpstreamOps
<1>2. Taken(m, Ran, op) /\ Fewer(m, Ran)
  BY <1>1, TakenFacts
<1>3. /\ Ran \in Object /\ AllOnce(Ran) /\ Kept(m, Ran) /\ Flags(m, Ran) /\ Live(m, op)
      /\ \A o \in All \ {"timer"} : Live(Ran, o) <=> Live(m, o) /\ o # op
      /\ Live(Ran, "timer") <=> Live(m, "timer")
  BY <1>1, <1>2 DEF Taken
<1>4. /\ m.id = 0 /\ ~m.resp /\ m.tls /\ ~m.held
      /\ op = "shakeClient" => ~m.client
      /\ op = "shakeUp" => ~m.up
      /\ \A o \in Turn \cup {"decision"} : ~Live(m, o)
  BY <1>1, <1>3 DEF Inner, Places, Stages, Transactions
<1>5. ~Live(m, "writeClient") /\ m.uq = 0 /\ (m.timer \/ Live(m, "timer"))
  <2>1. ~Live(m, "writeUp") /\ ~Live(m, "decision")
    BY <1>4 DEF Turn
  <2> QED
    BY <1>1, <1>4, <2>1 DEF Inner, Stages, Writes, Watches, TlsOps
<1>6. Entries(Ran) /\ Stream(Ran) /\ Ran.id \in {0, Ran.n} /\ Ran.wq <= Len(Ran.out)
  BY <1>1, <1>2, FewerWeak DEF Weak
<1> HIDE DEF Ran
<1>7. /\ t \in Object /\ t.ops = Ran.ops /\ t.done = Ran.done /\ Flags(Ran, t)
      /\ t.tls = Ran.tls /\ t.id = Ran.id /\ t.n = Ran.n /\ t.resp = Ran.resp
      /\ t.log = Ran.log /\ t.out = Ran.out /\ t.wq = Ran.wq /\ t.uq = Ran.uq
      /\ op = "shakeClient" => t.client /\ t.up = Ran.up
      /\ op = "shakeUp" => t.up /\ t.client = Ran.client
  <2>1. CASE op = "shakeClient"
    <3>1. t = [Ran EXCEPT !.client = TRUE]
      BY <2>1
    <3> QED
      BY <1>3, <2>1, <3>1 DEF Object, Flags
  <2>2. CASE op = "shakeUp"
    <3>1. t = [Ran EXCEPT !.up = TRUE]
      BY <2>2
    <3> QED
      BY <1>3, <2>2, <3>1 DEF Object, Flags
  <2> QED
    BY <2>1, <2>2
<1>8. /\ AllOnce(t)
      /\ \A o \in All \ {"timer"} : Live(t, o) <=> Live(m, o) /\ o # op
      /\ Live(t, "timer") <=> Live(m, "timer")
  BY <1>3, <1>7, QueuesDecide
<1>9. /\ t.tls /\ t.id = 0 /\ ~t.resp /\ t.uq = 0 /\ ~t.closed /\ ~t.held
      /\ t.timer \/ Live(t, "timer")
      /\ Entries(t) /\ Stream(t) /\ t.wq <= Len(t.out)
  BY <1>3, <1>4, <1>5, <1>6, <1>7, <1>8 DEF Kept, Flags, Entries, Stream
<1>10. \A o \in Turn \cup {"decision", "writeClient"} : ~Live(t, o)
  BY <1>4, <1>5, <1>8, Names
<1>11. ASSUME t.client, t.up PROVE Inner(Start(t, "readClient"))
  <2> DEFINE u == Start(t, "readClient")
  <2>1. \A o \in All \ {"timer", "writeClient"} : ~Live(t, o)
    <3>1. ~Live(t, "shakeClient") /\ ~Live(t, "shakeUp")
      BY <1>1, <1>3, <1>7, <1>8, <1>11, Names DEF Inner, Stages, Kept
    <3> QED
      BY <1>10, <3>1, Names DEF Turn
  <2>2. "readClient" \in Turn
    BY DEF Turn
  <2>3. /\ u \in Object /\ AllOnce(u) /\ Kept(t, u) /\ Flags(t, u)
        /\ \A o \in All \ {"timer", "writeClient"} : Live(u, o) <=> o = "readClient"
        /\ Live(u, "writeClient") = Live(t, "writeClient")
        /\ Live(u, "timer") = Live(t, "timer")
    BY <1>7, <1>8, <2>1, <2>2, StartsNext
  <2> HIDE DEF u
  <2>4. Entries(u) /\ Stream(u)
    BY <1>9, <2>3 DEF Entries, Stream, Kept
  <2>5. Settled(u, "readClient")
    BY <1>9, <1>10, <1>11, <2>2, <2>3, <2>4 DEF Settled, Kept, Flags
  <2> QED
    BY <2>5, SettledInner DEF u
<1>12. ASSUME ~(t.client /\ t.up) PROVE Inner(t)
  <2>1. Places(t)
    BY <1>9, <1>10 DEF Places
  <2>2. Stages(t)
    <3>1. \A o \in TlsOps : ~Live(t, o)
      BY <1>10 DEF TlsOps, Turn
    <3>2. /\ Live(t, "shakeClient") => ~t.client
          /\ Live(t, "shakeUp") => ~t.up
      BY <1>1, <1>3, <1>7, <1>8, Names DEF Inner, Stages, Kept
    <3> QED
      BY <1>9, <1>10, <3>1, <3>2 DEF Stages, Turn
  <2>3. Transactions(t) /\ Writes(t) /\ Watches(t)
    BY <1>9, <1>10 DEF Transactions, Writes, Watches, Turn
  <2> QED
    BY <1>7, <1>8, <1>9, <2>1, <2>2, <2>3 DEF Inner
<1> QED
  BY <1>11, <1>12

\* Of a session that is about to serve an open transaction.
Serving(t) ==
    /\ t \in Object /\ AllOnce(t) /\ Entries(t) /\ Stream(t) /\ ~t.closed /\ ~t.held
    /\ \A o \in All \ {"timer", "writeClient"} : ~Live(t, o)
    /\ t.client /\ t.up /\ t.tls
    /\ t.id = t.n /\ t.id # 0
    /\ t.wq <= Len(t.out) /\ (Live(t, "writeClient") => t.wq > 0)
    /\ t.uq = 0

LEMMA ForwardStep == ASSUME NEW t, Serving(t), ~t.resp, t.timer PROVE Inner(WriteUpstream(t))
<1> USE DEF Serving
<1> DEFINE c == [t EXCEPT !.uq = @ + 1]
           u == Start(c, "writeUp")
<1>1. WriteUpstream(t) = u
  BY DEF WriteUpstream
<1>2. c = [t EXCEPT !.uq = 1]
  BY DEF Object
<1>3. /\ c \in Object /\ c.ops = t.ops /\ c.done = t.done /\ Flags(t, c) /\ c.uq = 1
      /\ c.tls = t.tls /\ c.client = t.client /\ c.up = t.up /\ c.id = t.id /\ c.n = t.n
      /\ c.resp = t.resp /\ c.log = t.log /\ c.wq = t.wq /\ c.out = t.out
  BY <1>2 DEF Object, Flags
<1> HIDE DEF c
<1>4. AllOnce(c) /\ \A o : Live(c, o) <=> Live(t, o)
  BY <1>3, QueuesDecide
<1>5. "writeUp" \in Turn
  BY DEF Turn
<1>6. /\ u \in Object /\ AllOnce(u) /\ Kept(c, u) /\ Flags(c, u)
      /\ \A o \in All \ {"timer", "writeClient"} : Live(u, o) <=> o = "writeUp"
      /\ Live(u, "writeClient") = Live(c, "writeClient")
  BY <1>3, <1>4, <1>5, StartsNext
<1> HIDE DEF u
<1>7. Entries(u) /\ Stream(u)
  BY <1>3, <1>6 DEF Entries, Stream, Kept
<1>8. Settled(u, "writeUp")
  BY <1>3, <1>4, <1>5, <1>6, <1>7 DEF Settled, Kept, Flags
<1> QED
  BY <1>1, <1>8, SettledInner

\* The next transaction: what was answered before it is complete.
LEMMA TransactionFacts ==
    ASSUME NEW t \in Object, AllOnce(t), Entries(t), Stream(t), t.id = 0, NEW u, u = NewTransaction(t)
    PROVE  /\ u \in Object /\ u.ops = t.ops /\ u.done = t.done /\ Flags(t, u)
           /\ u.id = u.n /\ u.id # 0
           /\ u.tls = t.tls /\ u.client = t.client /\ u.up = t.up /\ u.caw = t.caw
           /\ u.resp = t.resp /\ u.log = t.log /\ u.wq = t.wq /\ u.uq = t.uq /\ u.out = t.out
           /\ Entries(u) /\ Stream(u)
<1>0. PICK k \in Nat : k = t.n + 1 /\ t.n \in Nat
  BY DEF Object
<1>1. u = [t EXCEPT !.id = k, !.n = k] /\ t.n \in Nat
  BY <1>0 DEF NewTransaction, Object
<1>2. /\ u \in Object /\ u.ops = t.ops /\ u.done = t.done /\ Flags(t, u)
      /\ u.id = k /\ u.n = k
      /\ u.tls = t.tls /\ u.client = t.client /\ u.up = t.up /\ u.caw = t.caw
      /\ u.resp = t.resp /\ u.log = t.log /\ u.wq = t.wq /\ u.uq = t.uq /\ u.out = t.out
  BY <1>1 DEF Object, Flags
<1>3. \A i \in DOMAIN t.log : t.log[i].id \in Nat /\ t.log[i].id <= t.n
  <2> SUFFICES ASSUME NEW i \in DOMAIN t.log PROVE t.log[i].id \in Nat /\ t.log[i].id <= t.n
    OBVIOUS
  <2>1. t.log \in Seq(Entry)
    BY DEF Object
  <2>2. t.log[i] \in Entry
    BY <2>1
  <2> QED
    BY <2>2 DEF Entry, Entries
<1>4. \A i \in DOMAIN t.out : t.out[i].id \in Nat \ {0} /\ t.out[i].id <= t.n
  <2> SUFFICES ASSUME NEW i \in DOMAIN t.out
               PROVE  t.out[i].id \in Nat \ {0} /\ t.out[i].id <= t.n
    OBVIOUS
  <2>1. t.out \in Seq(Chunk)
    BY DEF Object
  <2>2. t.out[i] \in Chunk
    BY <2>1
  <2> QED
    BY <2>2 DEF Chunk, Stream
<1>5. Entries(u)
  BY <1>0, <1>1, <1>2, <1>3 DEF Entries
<1>6. Stream(u)
  <2>1. Complete(u.out, u.id)
    BY <1>2, <1>4 DEF Stream, Complete
  <2>2. \A i \in DOMAIN u.out : u.out[i].id <= u.n
    BY <1>0, <1>2, <1>4
  <2> QED
    BY <1>2, <2>1, <2>2 DEF Stream
<1> QED
  BY <1>0, <1>2, <1>5, <1>6

\* resetTimer() and cancelTimer().
LEMMA TimerFacts ==
    ASSUME NEW t \in Object, NEW u, u = ResetTimer(t) \/ u = CancelTimer(t)
    PROVE  /\ u \in Object /\ u.ops = t.ops /\ u.done = t.done /\ Kept(t, u)
           /\ u.closed = t.closed /\ u.held = t.held
           /\ u = ResetTimer(t) => u.timer
           /\ Entries(t) => Entries(u)
           /\ Stream(t) => Stream(u)
<1>1. /\ u \in Object /\ u.ops = t.ops /\ u.done = t.done /\ Kept(t, u)
      /\ u.closed = t.closed /\ u.held = t.held
      /\ u = ResetTimer(t) => u.timer
  <2>1. CASE u = ResetTimer(t)
    BY <2>1 DEF ResetTimer, Object, Kept
  <2>2. CASE u = CancelTimer(t)
    <3>1. u # ResetTimer(t) \/ u.timer
      BY DEF ResetTimer, Object
    <3> QED
      BY <2>2, <3>1 DEF CancelTimer, Object, Kept
  <2> QED
    BY <2>1, <2>2
<1>2. /\ Entries(t) => Entries(u)
      /\ Stream(t) => Stream(u)
  BY <1>1 DEF Kept, Entries, Stream
<1> QED
  BY <1>1, <1>2

\* A request, or a part of one, was read.
LEMMA RequestStep ==
    ASSUME IInv, Due("readClient"), ~m.closed
    PROVE  /\ Inner(Start(ResetTimer(Ran), "readClient"))
           /\ Inner(Close(ResetTimer(Ran)))
           /\ LET t == NewTransaction(ResetTimer(Ran)) IN
              /\ Inner(WriteUpstream(t))
              /\ Inner([CancelTimer(t) EXCEPT !.held = TRUE])
<1>1. Inner(m) /\ "readClient" \in Turn \cup {"decision"} /\ "readClient" \in All
  BY Names DEF IInv, Turn
<1>2. /\ Ran \in Object /\ AllOnce(Ran)
      /\ Kept(m, Ran) /\ ~Ran.held /\ ~Ran.closed
      /\ \A o \in All \ {"timer", "writeClient"} : ~Live(Ran, o)
      /\ Live(Ran, "writeClient") => Ran.wq > 0
      /\ Entries(Ran) /\ Stream(Ran) /\ Ran.id \in {0, Ran.n} /\ Ran.wq <= Len(Ran.out)
      /\ Ran.client \/ Ran.up => Ran.tls
      /\ Live(m, "readClient") /\ Ran.uq = 0
  BY <1>1, TurnTaken
<1>3. m.client /\ m.up /\ m.id = 0 /\ ~m.resp
  BY <1>1, <1>2 DEF Inner, Stages, Transactions, TlsOps
<1>4. Ran.client /\ Ran.up /\ Ran.tls /\ Ran.id = 0 /\ ~Ran.resp
  BY <1>2, <1>3 DEF Kept
<1> HIDE DEF Ran
<1> DEFINE r == ResetTimer(Ran)
<1>5. /\ r \in Object /\ r.ops = Ran.ops /\ r.done = Ran.done /\ Kept(Ran, r)
      /\ ~r.closed /\ ~r.held /\ r.timer /\ Entries(r) /\ Stream(r)
  BY <1>2, TimerFacts
<1> HIDE DEF r
<1>6. AllOnce(r) /\ \A o : Live(r, o) <=> Live(Ran, o)
  BY <1>2, <1>5, QueuesDecide
<1>7. Inner(Start(r, "readClient"))
  <2> DEFINE u == Start(r, "readClient")
  <2>1. "readClient" \in Turn
    BY DEF Turn
  <2>2. /\ u \in Object /\ AllOnce(u) /\ Kept(r, u) /\ Flags(r, u)
        /\ \A o \in All \ {"timer", "writeClient"} : Live(u, o) <=> o = "readClient"
        /\ Live(u, "writeClient") = Live(r, "writeClient")
    BY <1>2, <1>5, <1>6, <2>1, StartsNext
  <2> HIDE DEF u
  <2>3. Entries(u) /\ Stream(u)
    BY <1>5, <2>2 DEF Entries, Stream, Kept
  <2>4. Settled(u, "readClient")
    BY <1>2, <1>4, <1>5, <1>6, <2>1, <2>2, <2>3 DEF Settled, Kept, Flags
  <2> QED
    BY <2>4, SettledInner DEF u
<1>8. Inner(Close(r))
  <2>1. Places(r) /\ Stages(r)
    BY <1>2, <1>4, <1>5, <1>6, Names DEF Places, Stages, Kept, Turn, TlsOps
  <2>2. Weak(r)
    BY <1>2, <1>4, <1>5, <1>6, <2>1, Names DEF Weak, Kept
  <2> QED
    BY <1>5, <2>2, CloseInner
<1> DEFINE t == NewTransaction(r)
<1>9. /\ t \in Object /\ t.ops = r.ops /\ t.done = r.done /\ Flags(r, t)
      /\ t.id = t.n /\ t.id # 0
      /\ t.tls = r.tls /\ t.client = r.client /\ t.up = r.up
      /\ t.resp = r.resp /\ t.log = r.log /\ t.wq = r.wq /\ t.uq = r.uq /\ t.out = r.out
      /\ Entries(t) /\ Stream(t)
  <2>1. r.id = 0
    BY <1>4, <1>5 DEF Kept
  <2> QED
    BY <1>5, <1>6, <2>1, TransactionFacts
<1> HIDE DEF t
<1>10. AllOnce(t) /\ \A o : Live(t, o) <=> Live(Ran, o)
  BY <1>6, <1>9, QueuesDecide
<1>11. Serving(t) /\ ~t.resp
  BY <1>2, <1>4, <1>5, <1>9, <1>10 DEF Serving, Kept, Flags
<1>12. Inner(WriteUpstream(t))
  <2>1. t.timer
    BY <1>5, <1>9 DEF Flags
  <2> QED
    BY <1>11, <2>1, ForwardStep
<1>13. Inner([CancelTimer(t) EXCEPT !.held = TRUE])
  <2> DEFINE c == CancelTimer(t)
             u == [c EXCEPT !.held = TRUE]
  <2>1. /\ c \in Object /\ c.ops = t.ops /\ c.done = t.done /\ Kept(t, c)
        /\ c.closed = t.closed /\ Entries(c) /\ Stream(c)
    BY <1>9, TimerFacts
  <2> HIDE DEF c
  <2>2. /\ u \in Object /\ u.ops = c.ops /\ u.done = c.done /\ Kept(c, u)
        /\ u.closed = c.closed /\ u.held
    BY <2>1 DEF Object, Kept
  <2> HIDE DEF u
  <2>3. AllOnce(u) /\ \A o : Live(u, o) <=> Live(t, o)
    BY <1>10, <2>1, <2>2, QueuesDecide
  <2>4. Entries(u) /\ Stream(u)
    BY <2>1, <2>2 DEF Entries, Stream, Kept
  <2>5. Settled(u, "nobody")
    <3>1. \A o \in All \ {"timer", "writeClient"} : o # "nobody"
      BY DEF All, Ops, ClientOps, UpstreamOps
    <3>2. \A o \in All \ {"timer", "writeClient"} : ~Live(u, o)
      BY <1>11, <2>3 DEF Serving
    <3>3. \A o \in All \ {"timer", "writeClient"} : Live(u, o) <=> o = "nobody"
      BY <3>1, <3>2
    <3>4. "nobody" \notin TlsOps
      BY DEF TlsOps
    <3> QED
      BY <1>11, <2>1, <2>2, <2>3, <2>4, <3>3, <3>4 DEF Serving, Settled, Kept
  <2> QED
    BY <2>5, SettledInner DEF u, c
<1> QED
  BY <1>7, <1>8, <1>12, <1>13 DEF r, t

LEMMA InnerClose == ASSUME NEW t, Inner(t), ~t.closed PROVE Inner(Close(t))
<1>1. Fewer(t, t)
  BY DEF Fewer, Inner, Kept, Flags
<1> QED
  BY <1>1, FewerWeak, CloseInner

LEMMA ServingInner ==
    ASSUME NEW t, Serving(t), t.timer \/ Live(t, "timer") PROVE Inner(t)
<1>1. \A o \in All \ {"timer", "writeClient"} : o # "nobody"
  BY DEF All, Ops, ClientOps, UpstreamOps
<1>2. \A o \in All \ {"timer", "writeClient"} : Live(t, o) <=> o = "nobody"
  BY <1>1 DEF Serving
<1>3. "nobody" \notin TlsOps
  BY DEF TlsOps
<1>4. Settled(t, "nobody")
  BY <1>2, <1>3 DEF Serving, Settled
<1> QED
  BY <1>4, SettledInner

\* Writing to the client, and to the log, leave the transaction served.
LEMMA WriteServing ==
    ASSUME NEW t, Serving(t), NEW last \in BOOLEAN,
           NEW u, u = WriteClient(t, [id |-> t.id, last |-> last])
    PROVE  /\ Serving(u) /\ u.timer = t.timer /\ u.resp = t.resp
           /\ last => Complete(u.out, 0)
<1>0. /\ t \in Object /\ AllOnce(t) /\ (Live(t, "writeClient") => t.wq > 0)
      /\ t.id # 0 /\ t.id = t.n /\ Stream(t)
  BY DEF Serving
<1>1. /\ u \in Object /\ AllOnce(u) /\ Flags(t, u)
      /\ \A o \in All : Live(u, o) <=> Live(t, o) \/ (o = "writeClient" /\ t.wq = 0)
      /\ u.wq = t.wq + 1 /\ Len(u.out) = Len(t.out) + 1 /\ Len(t.out) \in Nat
      /\ Stream(u) /\ (last => Complete(u.out, 0))
      /\ u.tls = t.tls /\ u.client = t.client /\ u.up = t.up
      /\ u.id = t.id /\ u.n = t.n /\ u.resp = t.resp
      /\ u.uq = t.uq /\ u.log = t.log
  BY <1>0, WriteFacts
<1>2. Entries(u)
  BY <1>1 DEF Serving, Entries
<1>3. t.wq \in Nat /\ t.wq + 1 <= Len(t.out) + 1 /\ t.wq + 1 > 0
  BY <1>0, <1>1 DEF Object, Serving
<1>4. \A o \in All \ {"timer", "writeClient"} : ~Live(u, o)
  BY <1>1 DEF Serving
<1>5. Serving(u)
  BY <1>0, <1>1, <1>2, <1>3, <1>4 DEF Serving, Flags
<1> QED
  BY <1>1, <1>5 DEF Flags

LEMMA LogServing ==
    ASSUME NEW t, Serving(t), ~t.resp, NEW status \in Statuses, NEW u, u = LogAs(t, status)
    PROVE  Serving(u) /\ u.timer = t.timer /\ u.resp /\ u.out = t.out
           /\ (Live(u, "timer") <=> Live(t, "timer"))
<1>0. t \in Object /\ AllOnce(t) /\ Entries(t) /\ Stream(t) /\ t.id = t.n /\ t.id # 0
  BY DEF Serving
<1>1. /\ u \in Object /\ u.ops = t.ops /\ u.done = t.done
      /\ u.resp /\ u.log = Append(t.log, [id |-> t.id, status |-> status])
      /\ Flags(t, u)
      /\ u.tls = t.tls /\ u.client = t.client /\ u.up = t.up
      /\ u.id = t.id /\ u.n = t.n /\ u.wq = t.wq /\ u.uq = t.uq /\ u.out = t.out
  BY <1>0, LogFacts
<1>2. AllOnce(u) /\ \A o : Live(u, o) <=> Live(t, o)
  BY <1>0, <1>1, QueuesDecide
<1>3. Entries(u)
  BY <1>0, <1>1, LogEntries
<1>4. Stream(u)
  BY <1>0, <1>1 DEF Stream
<1> QED
  BY <1>1, <1>2, <1>3, <1>4 DEF Serving, Flags

\* The upstream server is asked for (more of) the response.
LEMMA AskStep ==
    ASSUME NEW t, Serving(t), ~t.resp, t.timer \/ Live(t, "timer")
    PROVE  Inner(Start(t, "readUp"))
<1> USE DEF Serving
<1> DEFINE u == Start(t, "readUp")
<1>1. "readUp" \in Turn
  BY DEF Turn
<1>2. /\ u \in Object /\ AllOnce(u) /\ Kept(t, u) /\ Flags(t, u)
      /\ \A o \in All \ {"timer", "writeClient"} : Live(u, o) <=> o = "readUp"
      /\ Live(u, "writeClient") = Live(t, "writeClient")
      /\ Live(u, "timer") = Live(t, "timer")
  BY <1>1, StartsNext
<1> HIDE DEF u
<1>3. Entries(u) /\ Stream(u)
  BY <1>2 DEF Entries, Stream, Kept
<1>4. Settled(u, "readUp")
  BY <1>1, <1>2, <1>3 DEF Settled, Kept, Flags
<1> QED
  BY <1>4, SettledInner DEF u

\* The user has decided.
LEMMA DecisionStep ==
    ASSUME IInv, Due("decision"), ~m.closed
    PROVE  /\ Inner(WriteUpstream(ResetTimer(Ran)))
           /\ Inner(SendErrorResponse(ResetTimer(Ran), "dropped"))
<1>1. Inner(m) /\ "decision" \in Turn \cup {"decision"}
  BY DEF IInv
<1>2. /\ Ran \in Object /\ AllOnce(Ran)
      /\ Kept(m, Ran) /\ ~Ran.held /\ ~Ran.closed
      /\ \A o \in All \ {"timer", "writeClient"} : ~Live(Ran, o)
      /\ Live(Ran, "writeClient") => Ran.wq > 0
      /\ Entries(Ran) /\ Stream(Ran) /\ Ran.id \in {0, Ran.n} /\ Ran.wq <= Len(Ran.out)
      /\ Ran.client \/ Ran.up => Ran.tls
      /\ Live(m, "decision") /\ Ran.uq = 0
  BY <1>1, TurnTaken
<1>3. m.client /\ m.up /\ m.id # 0 /\ ~m.resp
  BY <1>1, <1>2 DEF Inner, Stages, Transactions
<1>4. Ran.client /\ Ran.up /\ Ran.tls /\ Ran.id # 0 /\ ~Ran.resp
  BY <1>2, <1>3 DEF Kept
<1> HIDE DEF Ran
<1> DEFINE r == ResetTimer(Ran)
<1>5. /\ r \in Object /\ r.ops = Ran.ops /\ r.done = Ran.done /\ Kept(Ran, r)
      /\ ~r.closed /\ ~r.held /\ r.timer /\ Entries(r) /\ Stream(r)
  BY <1>2, TimerFacts
<1> HIDE DEF r
<1>6. AllOnce(r) /\ \A o : Live(r, o) <=> Live(Ran, o)
  BY <1>2, <1>5, QueuesDecide
<1>7. Serving(r) /\ ~r.resp
  BY <1>2, <1>4, <1>5, <1>6 DEF Serving, Kept
<1>8. Inner(SendErrorResponse(r, "dropped"))
  <2> DEFINE l == LogAs(r, "dropped")
             c == [l EXCEPT !.caw = TRUE]
             u == WriteClient(c, [id |-> r.id, last |-> TRUE])
  <2>1. "dropped" \in Statuses
    BY DEF Statuses
  <2>2. Serving(l) /\ l.timer /\ l.id = r.id /\ l.client /\ l.tls
    <3>1. Serving(l) /\ l.timer
      BY <1>5, <1>7, <2>1, LogServing
    <3>2. l.id = r.id
      BY <1>5, <2>1, LogFacts
    <3> QED
      BY <3>1, <3>2 DEF Serving
  <2>3. SendErrorResponse(r, "dropped") = u
    <3>1. r.client /\ r.tls
      BY <1>7 DEF Serving
    <3> QED
      BY <3>1 DEF SendErrorResponse
  <2> HIDE DEF l
  <2>4. /\ c \in Object /\ c.ops = l.ops /\ c.done = l.done /\ Flags(l, c)
        /\ c.tls = l.tls /\ c.client = l.client /\ c.up = l.up /\ c.id = l.id /\ c.n = l.n
        /\ c.resp = l.resp /\ c.log = l.log /\ c.wq = l.wq /\ c.uq = l.uq /\ c.out = l.out
    BY <2>2 DEF Object, Flags, Serving
  <2> HIDE DEF c
  <2>5. AllOnce(c) /\ \A o : Live(c, o) <=> Live(l, o)
    BY <2>2, <2>4, QueuesDecide DEF Serving
  <2>6. Entries(c) /\ Stream(c)
    BY <2>2, <2>4 DEF Serving, Entries, Stream
  <2>7. Serving(c) /\ c.timer /\ c.id = r.id
    BY <2>2, <2>4, <2>5, <2>6 DEF Serving, Flags
  <2>8. Serving(u) /\ u.timer
    BY <2>7, WriteServing
  <2> QED
    BY <2>3, <2>8, ServingInner
<1> QED
  BY <1>5, <1>7, <1>8, ForwardStep DEF r

\* The request is written: the response is awaited.
LEMMA WrittenStep ==
    ASSUME IInv, Due("writeUp"), ~m.closed, NEW t, t = [Ran EXCEPT !.uq = @ - 1]
    PROVE  Inner(Start(t, IF t.uq > 0 THEN "writeUp" ELSE "readUp"))
<1>1. Inner(m) /\ "writeUp" \in Turn \cup {"decision"}
  BY DEF IInv, Turn
<1>2. /\ Ran \in Object /\ AllOnce(Ran)
      /\ Kept(m, Ran) /\ ~Ran.held /\ ~Ran.closed
      /\ \A o \in All \ {"timer", "writeClient"} : ~Live(Ran, o)
      /\ Live(Ran, "writeClient") => Ran.wq > 0
      /\ Entries(Ran) /\ Stream(Ran) /\ Ran.id \in {0, Ran.n} /\ Ran.wq <= Len(Ran.out)
      /\ Ran.client \/ Ran.up => Ran.tls
      /\ Live(m, "writeUp")
      /\ Ran.timer \/ Live(Ran, "timer")
  BY <1>1, TurnTaken
<1>3. m.client /\ m.up /\ m.id # 0 /\ ~m.resp /\ m.uq = 1
  BY <1>1, <1>2 DEF Inner, Stages, Transactions, Writes, TlsOps
<1>4. Ran.client /\ Ran.up /\ Ran.tls /\ Ran.id # 0 /\ ~Ran.resp /\ Ran.uq = 1
  BY <1>2, <1>3 DEF Kept
<1> HIDE DEF Ran
<1>5. t = [Ran EXCEPT !.uq = 0]
  BY <1>4
<1>6. /\ t \in Object /\ t.ops = Ran.ops /\ t.done = Ran.done /\ Flags(Ran, t) /\ t.uq = 0
      /\ t.tls = Ran.tls /\ t.client = Ran.client /\ t.up = Ran.up /\ t.id = Ran.id
      /\ t.n = Ran.n /\ t.resp = Ran.resp /\ t.log = Ran.log /\ t.wq = Ran.wq /\ t.out = Ran.out
  BY <1>2, <1>5 DEF Object, Flags
<1>7. AllOnce(t) /\ \A o : Live(t, o) <=> Live(Ran, o)
  BY <1>2, <1>6, QueuesDecide
<1>8. Entries(t) /\ Stream(t)
  BY <1>2, <1>6 DEF Entries, Stream
<1>9. Serving(t) /\ ~t.resp /\ (t.timer \/ Live(t, "timer"))
  BY <1>2, <1>4, <1>6, <1>7, <1>8 DEF Serving, Flags
<1>10. Inner(Start(t, "readUp"))
  BY <1>9, AskStep
<1> QED
  BY <1>6, <1>10

\* The response, or a part of it, was read; or there is no more of it.
LEMMA ResponseStep ==
    ASSUME IInv, Due("readUp"), ~m.closed
    PROVE  /\ \A t \in EmitAtEof(Ran) : Inner(Close(t))
           /\ Inner(Start(Relayed, "readUp"))
           /\ Result \in {"keep", "last"} =>
                /\ Inner(NextRequest(LogAs(Relayed, "response")))
                /\ Inner([LogAs(Relayed, "response") EXCEPT !.caw = TRUE])
<1>1. Inner(m) /\ "readUp" \in Turn \cup {"decision"}
  BY DEF IInv, Turn
<1>2. /\ Ran \in Object /\ AllOnce(Ran)
      /\ Kept(m, Ran) /\ ~Ran.held /\ ~Ran.closed
      /\ \A o \in All \ {"timer", "writeClient"} : ~Live(Ran, o)
      /\ Live(Ran, "writeClient") => Ran.wq > 0
      /\ Entries(Ran) /\ Stream(Ran) /\ Ran.id \in {0, Ran.n} /\ Ran.wq <= Len(Ran.out)
      /\ Ran.client \/ Ran.up => Ran.tls
      /\ Live(m, "readUp") /\ Ran.uq = 0
      /\ Ran.timer \/ Live(Ran, "timer")
  BY <1>1, TurnTaken
<1>3. m.client /\ m.up /\ m.id # 0 /\ ~m.resp
  BY <1>1, <1>2 DEF Inner, Stages, Transactions, TlsOps
<1>4. Ran.client /\ Ran.up /\ Ran.tls /\ Ran.id # 0 /\ ~Ran.resp /\ Ran.id = m.id
  BY <1>2, <1>3 DEF Kept
<1>5. Serving(Ran)
  BY <1>2, <1>4 DEF Serving
<1> HIDE DEF Ran
<1>6. ASSUME NEW t \in EmitAtEof(Ran) PROVE Inner(Close(t))
  <2>1. Inner(t) /\ ~t.closed
    <3>1. CASE t = Ran
      BY <1>2, <1>5, <3>1, ServingInner
    <3>2. CASE t = LogAs(Ran, "replayed")
      <4>1. "replayed" \in Statuses
        BY DEF Statuses
      <4>2. /\ Serving(t) /\ t.timer = Ran.timer
            /\ Live(t, "timer") <=> Live(Ran, "timer")
        BY <1>4, <1>5, <3>2, <4>1, LogServing
      <4>3. Inner(t)
        BY <1>2, <4>2, ServingInner
      <4> QED
        BY <4>2, <4>3 DEF Serving
    <3> QED
      BY <3>1, <3>2 DEF EmitAtEof
  <2> QED
    BY <2>1, InnerClose
<1> DEFINE r == ResetTimer(Ran)
           a == [r EXCEPT !.acc = TRUE]
           last == Result \in {"keep", "last"}
           w == WriteClient(a, [id |-> a.id, last |-> last])
<1>7. /\ r \in Object /\ r.ops = Ran.ops /\ r.done = Ran.done /\ Kept(Ran, r)
      /\ ~r.closed /\ ~r.held /\ r.timer /\ Entries(r) /\ Stream(r)
  BY <1>2, TimerFacts
<1>8. /\ w = Relayed /\ a.id = m.id
  <2>1. a.id = m.id
    BY <1>4, <1>7 DEF Object, Kept
  <2> QED
    BY <2>1 DEF Relayed
<1> HIDE DEF r
<1>9. /\ a \in Object /\ a.ops = r.ops /\ a.done = r.done /\ Flags(r, a)
      /\ a.tls = r.tls /\ a.client = r.client /\ a.up = r.up /\ a.id = r.id /\ a.n = r.n
      /\ a.resp = r.resp /\ a.log = r.log /\ a.wq = r.wq /\ a.uq = r.uq /\ a.out = r.out
  BY <1>7 DEF Object, Flags
<1> HIDE DEF a
<1>10. AllOnce(a) /\ \A o : Live(a, o) <=> Live(Ran, o)
  BY <1>2, <1>7, <1>9, QueuesDecide
<1>11. Entries(a) /\ Stream(a)
  BY <1>7, <1>9 DEF Entries, Stream
<1>12. Serving(a) /\ ~a.resp /\ a.timer
  BY <1>2, <1>4, <1>7, <1>9, <1>10, <1>11 DEF Serving, Kept, Flags
<1>13. last \in BOOLEAN
  OBVIOUS
<1> HIDE DEF last
<1>14. Serving(w) /\ w.timer /\ ~w.resp /\ (last => Complete(w.out, 0))
  BY <1>12, <1>13, WriteServing
<1> HIDE DEF w
<1>15. Inner(Start(w, "readUp"))
  BY <1>14, AskStep
<1> DEFINE l == LogAs(w, "response")
<1>16. Serving(l) /\ l.timer /\ (last => Complete(l.out, 0))
  <2>1. "response" \in Statuses
    BY DEF Statuses
  <2> QED
    BY <1>14, <2>1, LogServing
<1> HIDE DEF l
<1>17. ASSUME last PROVE Inner(NextRequest(l))
  <2> DEFINE c == [l EXCEPT !.id = 0, !.resp = FALSE, !.acc = FALSE]
             u == Start(c, "readClient")
  <2>0. l \in Object /\ Complete(l.out, 0)
    BY <1>16, <1>17 DEF Serving
  <2>1. /\ c \in Object /\ c.ops = l.ops /\ c.done = l.done /\ Flags(l, c)
        /\ c.tls = l.tls /\ c.client = l.client /\ c.up = l.up /\ c.id = 0 /\ c.n = l.n
        /\ ~c.resp /\ c.log = l.log /\ c.wq = l.wq /\ c.uq = l.uq /\ c.out = l.out
    BY <2>0 DEF Object, Flags
  <2>2. u = NextRequest(l)
    BY DEF NextRequest
  <2> HIDE DEF c
  <2>3. AllOnce(c) /\ \A o : Live(c, o) <=> Live(l, o)
    BY <1>16, <2>1, QueuesDecide DEF Serving
  <2>4. "readClient" \in Turn
    BY DEF Turn
  <2>5. /\ u \in Object /\ AllOnce(u) /\ Kept(c, u) /\ Flags(c, u)
        /\ \A o \in All \ {"timer", "writeClient"} : Live(u, o) <=> o = "readClient"
        /\ Live(u, "writeClient") = Live(c, "writeClient")
    BY <1>16, <2>1, <2>3, <2>4, StartsNext DEF Serving
  <2> HIDE DEF u
  <2>6. Entries(u)
    BY <1>16, <2>1, <2>5 DEF Serving, Entries, Kept
  <2>7. Stream(u)
    BY <1>16, <2>0, <2>1, <2>5 DEF Serving, Stream, Kept
  <2>8. Settled(u, "readClient")
    BY <1>16, <2>1, <2>3, <2>4, <2>5, <2>6, <2>7 DEF Serving, Settled, Kept, Flags
  <2> QED
    BY <2>2, <2>8, SettledInner
<1>18. Inner([l EXCEPT !.caw = TRUE])
  <2> DEFINE c == [l EXCEPT !.caw = TRUE]
  <2>1. /\ c \in Object /\ c.ops = l.ops /\ c.done = l.done /\ Flags(l, c)
        /\ c.tls = l.tls /\ c.client = l.client /\ c.up = l.up /\ c.id = l.id /\ c.n = l.n
        /\ c.resp = l.resp /\ c.log = l.log /\ c.wq = l.wq /\ c.uq = l.uq /\ c.out = l.out
    BY <1>16 DEF Object, Flags, Serving
  <2> HIDE DEF c
  <2>2. AllOnce(c) /\ \A o : Live(c, o) <=> Live(l, o)
    BY <1>16, <2>1, QueuesDecide DEF Serving
  <2>3. Entries(c) /\ Stream(c)
    BY <1>16, <2>1 DEF Serving, Entries, Stream
  <2>4. Serving(c) /\ c.timer
    BY <1>16, <2>1, <2>2, <2>3 DEF Serving, Flags
  <2> QED
    BY <2>4, ServingInner DEF c
<1> QED
  BY <1>6, <1>8, <1>15, <1>17, <1>18 DEF l, last

\* A chunk is written to the client.
LEMMA FlushedStep ==
    ASSUME IInv, Due("writeClient"), ~m.closed, NEW t, t = [Ran EXCEPT !.wq = @ - 1]
    PROVE  /\ t.wq > 0 => Inner(Start(t, "writeClient"))
           /\ t.wq = 0 => Inner(t) /\ Inner(Close(t))
           /\ t.wq \in Nat
<1>1. Inner(m) /\ "writeClient" \in All
  BY Names DEF IInv
<1>2. Taken(m, Ran, "writeClient") /\ Fewer(m, Ran)
  BY <1>1, TakenFacts
<1>3. /\ Ran \in Object /\ AllOnce(Ran) /\ Kept(m, Ran) /\ Flags(m, Ran) /\ Live(m, "writeClient")
      /\ \A o \in All \ {"timer"} : Live(Ran, o) <=> Live(m, o) /\ o # "writeClient"
      /\ Live(Ran, "timer") <=> Live(m, "timer")
  BY <1>1, <1>2 DEF Taken
<1>4. m.wq > 0 /\ m.client /\ m.up
  BY <1>1, <1>3 DEF Inner, Writes, Stages, TlsOps
<1> HIDE DEF Ran
<1>5. PICK k \in Nat : k = Ran.wq - 1 /\ Ran.wq = m.wq
  BY <1>3, <1>4 DEF Object, Kept
<1>6. t = [Ran EXCEPT !.wq = k]
  BY <1>3, <1>5 DEF Object
<1>7. /\ t \in Object /\ t.ops = Ran.ops /\ t.done = Ran.done /\ Flags(Ran, t) /\ t.wq = k
      /\ t.tls = Ran.tls /\ t.client = Ran.client /\ t.up = Ran.up /\ t.id = Ran.id
      /\ t.caw = Ran.caw
      /\ t.n = Ran.n /\ t.resp = Ran.resp /\ t.log = Ran.log /\ t.uq = Ran.uq /\ t.out = Ran.out
  BY <1>3, <1>6 DEF Object, Flags
<1>8. /\ AllOnce(t)
      /\ \A o \in All \ {"timer"} : Live(t, o) <=> Live(m, o) /\ o # "writeClient"
      /\ Live(t, "timer") <=> Live(m, "timer")
  BY <1>3, <1>7, QueuesDecide
<1>9. k <= Len(m.out) /\ m.out = t.out
  <2>1. m.wq <= Len(m.out) /\ Len(m.out) \in Nat
    BY <1>1 DEF Inner, Writes, Object
  <2> QED
    BY <1>3, <1>5, <1>7, <2>1 DEF Object, Kept
\* What holds whether another write is started or not.
<1>10. ASSUME NEW u \in Object, AllOnce(u), Kept(t, u), Flags(t, u),
              \A o \in All \ {"writeClient"} : Live(u, o) <=> Live(t, o),
              Live(u, "writeClient") => t.wq > 0
       PROVE  Inner(u)
  <2>1. /\ \A o \in All \ {"timer", "writeClient"} : Live(u, o) <=> Live(m, o)
        /\ Live(u, "timer") <=> Live(m, "timer")
        /\ u.tls = m.tls /\ u.client = m.client /\ u.up = m.up /\ u.id = m.id
        /\ u.caw = m.caw /\ u.closed = m.closed /\ u.held = m.held /\ u.timer = m.timer
        /\ u.n = m.n /\ u.resp = m.resp /\ u.log = m.log /\ u.uq = m.uq /\ u.out = m.out
        /\ u.wq = k
    <3>1. "timer" \in All
      BY DEF All
    <3> QED
      BY <1>3, <1>7, <1>8, <1>10, <3>1 DEF Kept, Flags
  <2>2. Places(u)
    BY <1>1, <2>1, Names DEF Inner, Places, Turn
  <2>3. Stages(u)
    BY <1>1, <1>4, <2>1, Names DEF Inner, Stages, TlsOps
  <2>4. Transactions(u)
    BY <1>1, <2>1, Names DEF Inner, Transactions
  <2>5. Writes(u)
    BY <1>1, <1>7, <1>9, <1>10, <2>1, Names DEF Inner, Writes
  <2>6. Watches(u)
    BY <1>1, <2>1, Names DEF Inner, Watches
  <2>7. Entries(u) /\ Stream(u)
    BY <1>1, <2>1 DEF Inner, Entries, Stream
  <2> QED
    BY <1>10, <2>2, <2>3, <2>4, <2>5, <2>6, <2>7 DEF Inner
<1>11. ~Live(t, "writeClient")
  BY <1>8, Names
<1>12. t.wq > 0 => Inner(Start(t, "writeClient"))
  <2> SUFFICES ASSUME t.wq > 0 PROVE Inner(Start(t, "writeClient"))
    OBVIOUS
  <2> DEFINE u == Start(t, "writeClient")
  <2>1. "writeClient" \in Ops
    BY DEF Ops, ClientOps
  <2>2. /\ u \in Object /\ AllOnce(u) /\ Kept(t, u) /\ Flags(t, u)
        /\ \A o \in All : Live(u, o) <=> Live(t, o) \/ o = "writeClient"
    BY <1>7, <1>8, <1>11, <2>1, StartFacts
  <2> HIDE DEF u
  <2> QED
    BY <1>10, <2>2 DEF u
<1>13. Inner(t)
  BY <1>7, <1>8, <1>10, <1>11 DEF Kept, Flags
<1>14. Inner(Close(t))
  <2>1. ~t.closed
    BY <1>3, <1>7 DEF Flags
  <2> QED
    BY <1>13, <2>1, InnerClose
<1> QED
  BY <1>7, <1>12, <1>13, <1>14

-----------------------------------------------------------------------------
(* Every step *)

\* A handler of a closed session is dropped.
LEMMA ClosedDrops ==
    ASSUME IInv, m.closed, Handlers
    PROVE  Inner(Ran) /\ m' = Ran /\ UNCHANGED env /\ Ran.ops = m.ops
<1>1. \E op \in All : Due(op)
  BY DEF Handlers, HandleResolve, HandleUpstreamConnect, HandleTold, HandleClientHandshake,
         HandleUpstreamHandshake, HandleClientRead, HandleDecision, HandleUpstreamWrite,
         HandleUpstreamRead, HandleClientWrite, HandleTimeout, All, Ops, ClientOps, UpstreamOps
<1>2. Inner(Ran) /\ Close(Ran) = Ran /\ Ran.ops = m.ops
  BY <1>1, DropOrClose, TakenFacts
<1>3. UNCHANGED env
  BY DEF Handlers, HandleResolve, HandleUpstreamConnect, HandleTold, HandleClientHandshake,
         HandleUpstreamHandshake, HandleClientRead, HandleDecision, HandleUpstreamWrite,
         HandleUpstreamRead, HandleClientWrite, HandleTimeout
<1>4. m' = Ran
  <2>1. CASE HandleTold \/ HandleTimeout
    BY <1>2, <2>1 DEF HandleTold, HandleTimeout
  <2>2. CASE HandleResolve \/ HandleUpstreamConnect
    BY <2>2 DEF HandleResolve, HandleUpstreamConnect, UnlessClosed
  <2>3. CASE HandleClientHandshake \/ HandleUpstreamHandshake
    BY <2>3 DEF HandleClientHandshake, HandleUpstreamHandshake, UnlessClosed
  <2>4. CASE HandleClientRead \/ HandleUpstreamRead
    BY <2>4 DEF HandleClientRead, HandleUpstreamRead
  <2>5. CASE HandleDecision \/ HandleUpstreamWrite \/ HandleClientWrite
    BY <2>5 DEF HandleDecision, HandleUpstreamWrite, HandleClientWrite, UnlessClosed
  <2> QED
    BY <2>1, <2>2, <2>3, <2>4, <2>5 DEF Handlers
<1> QED
  BY <1>2, <1>3, <1>4

\* A handler of an open session.
LEMMA OpenHandles == ASSUME IInv, ~m.closed, Handlers PROVE Inner(m') /\ UNCHANGED env
<1> USE DEF UnlessClosed
<1>1. CASE HandleResolve
  BY <1>1, TargetStep DEF HandleResolve
<1>2. CASE HandleUpstreamConnect
  BY <1>2, TargetStep DEF HandleUpstreamConnect
<1>3. CASE HandleTold
  <2>1. "tell" \in All
    BY Names
  <2> QED
    BY <1>3, <2>1, ToldStep, DropOrClose DEF HandleTold
<1>4. CASE HandleClientHandshake
  <2> DEFINE t == [Ran EXCEPT !.client = TRUE]
  <2>1. "shakeClient" \in All /\ Due("shakeClient")
    BY <1>4, Names DEF HandleClientHandshake
  <2>2. t.client /\ t.up = m.up
    <3>1. Ran \in Object /\ Kept(m, Ran)
      BY <2>1, TakenFacts DEF Taken
    <3> QED
      BY <3>1 DEF Object, Kept
  <2>3. /\ m.up => Inner(Start(t, "readClient"))
        /\ ~m.up => Inner(t)
    <3>1. t = IF "shakeClient" = "shakeClient" THEN [Ran EXCEPT !.client = TRUE]
                                               ELSE [Ran EXCEPT !.up = TRUE]
      OBVIOUS
    <3> HIDE DEF t
    <3> QED
      BY <2>1, <2>2, <3>1, ShakenStep
  <2> QED
    BY <1>4, <2>1, <2>3, DropOrClose DEF HandleClientHandshake
<1>5. CASE HandleUpstreamHandshake
  <2> DEFINE t == [Ran EXCEPT !.up = TRUE]
  <2>1. "shakeUp" \in All /\ Due("shakeUp")
    BY <1>5, Names DEF HandleUpstreamHandshake
  <2>2. t.up /\ t.client = m.client
    <3>1. Ran \in Object /\ Kept(m, Ran)
      BY <2>1, TakenFacts DEF Taken
    <3> QED
      BY <3>1 DEF Object, Kept
  <2>3. /\ m.client => Inner(Start(t, "readClient"))
        /\ ~m.client => Inner(t)
    <3>1. t = IF "shakeUp" = "shakeClient" THEN [Ran EXCEPT !.client = TRUE]
                                           ELSE [Ran EXCEPT !.up = TRUE]
      OBVIOUS
    <3> HIDE DEF t
    <3> QED
      BY <2>1, <2>2, <3>1, ShakenStep
  <2> QED
    BY <1>5, <2>1, <2>3, DropOrClose DEF HandleUpstreamHandshake
<1>6. CASE HandleClientRead
  <2>1. "readClient" \in All
    BY Names
  <2> QED
    BY <1>6, <2>1, RequestStep, DropOrClose DEF HandleClientRead
<1>7. CASE HandleDecision
  BY <1>7, DecisionStep DEF HandleDecision
<1>8. CASE HandleUpstreamWrite
  <2>1. "writeUp" \in All
    BY Names
  <2> QED
    BY <1>8, <2>1, WrittenStep, DropOrClose DEF HandleUpstreamWrite
<1>9. CASE HandleUpstreamRead
  BY <1>9, ResponseStep DEF HandleUpstreamRead
<1>10. CASE HandleClientWrite
  <2> DEFINE t == [Ran EXCEPT !.wq = @ - 1]
  <2>1. "writeClient" \in All /\ Due("writeClient")
    BY <1>10, Names DEF HandleClientWrite
  <2>2. /\ t.wq > 0 => Inner(Start(t, "writeClient"))
        /\ t.wq = 0 => Inner(t) /\ Inner(Close(t))
        /\ t.wq \in Nat
    BY <2>1, FlushedStep
  <2>3. \/ m' = Close(Ran)
        \/ t.wq > 0 /\ m' = Start(t, "writeClient")
        \/ ~(t.wq > 0) /\ (m' = Close(t) \/ m' = t)
    BY <1>10 DEF HandleClientWrite
  <2>4. UNCHANGED env
    BY <1>10 DEF HandleClientWrite
  <2> HIDE DEF t
  <2>5. ~(t.wq > 0) => t.wq = 0
    BY <2>2
  <2> QED
    BY <2>1, <2>2, <2>3, <2>4, <2>5, DropOrClose
<1>11. CASE HandleTimeout
  <2>1. "timer" \in All
    BY DEF All
  <2> QED
    BY <1>11, <2>1, DropOrClose DEF HandleTimeout
<1> QED
  BY <1>1, <1>2, <1>3, <1>4, <1>5, <1>6, <1>7, <1>8, <1>9, <1>10, <1>11 DEF Handlers

\* An operation completes.
LEMMA CompletesStep ==
    ASSUME IInv, NEW op \in Ops, NEW res \in Results, Completes(op, res)
    PROVE  Completed(m, m')
<1> DEFINE ops == [m.ops EXCEPT ![op] = @ - 1]
<1>1. m \in Object /\ AllOnce(m) /\ m.ops \in [Ops -> {0, 1}]
  BY DEF IInv, Inner, Object
<1>2. m.ops[op] = 1
  BY <1>1 DEF Completes
<1>3. /\ ops \in [Ops -> {0, 1}] /\ ops[op] = 0
      /\ \A o \in Ops \ {op} : ops[o] = m.ops[o]
  BY <1>1, <1>2
<1>4. m' = Finish([m EXCEPT !.ops = ops], op, res)
  BY <1>1 DEF Completes, Object
<1> HIDE DEF ops
<1>5. op \in All /\ op # "decision" /\ Live(m, op)
  BY <1>2 DEF All, Ops, ClientOps, UpstreamOps, Live
<1>6. /\ m' \in Object /\ AllOnce(m')
      /\ \A o \in All : Live(m', o) <=> Live(m, o) \/ o = op
      /\ \A o \in Ops : m'.ops[o] <= m.ops[o]
      /\ Kept(m, m') /\ Flags(m, m')
  BY <1>1, <1>2, <1>3, <1>4, <1>5, FinishFacts
<1> QED
  BY <1>5, <1>6 DEF Completed

\* The network.
LEMMA NetworkStep ==
    ASSUME IInv, ClientSends \/ DataArrives \/ Succeeds \/ Fails
    PROVE  Completed(m, m') /\ asked' \in 0 .. MaxReq /\ reads' \in 0 .. MaxReads
<1>1. PICK op \in Ops, res \in Results : Completes(op, res)
  <2> USE DEF Ops, ClientOps, UpstreamOps, Results, Failed
  <2>1. CASE ClientSends
    BY <2>1 DEF ClientSends
  <2>2. CASE DataArrives
    BY <2>2 DEF DataArrives
  <2>3. CASE Succeeds
    BY <2>3 DEF Succeeds
  <2>4. CASE Fails
    BY <2>4 DEF Fails
  <2> QED
    BY <2>1, <2>2, <2>3, <2>4
<1>2. asked' \in 0 .. MaxReq /\ reads' \in 0 .. MaxReads
  BY MitmAssumption DEF IInv, ClientSends, DataArrives, Succeeds, Fails, env
<1> QED
  BY <1>1, <1>2, CompletesStep

\* The timer, and the user's decision.
LEMMA OutsideStep ==
    ASSUME IInv, TimerExpires \/ Decide
    PROVE  /\ Inner(m') /\ UNCHANGED env
           /\ m.closed => OnlyDrains
<1>1. m \in Object /\ AllOnce(m) /\ Inner(m) /\ m.ops \in [Ops -> {0, 1}]
  BY DEF IInv, Inner, Object
<1>2. CASE TimerExpires
  <2> DEFINE c == CancelTimer(m)
  <2>1. m' = Finish(c, "timer", "ok") /\ m.timer /\ UNCHANGED env
    BY <1>2 DEF TimerExpires
  <2>2. /\ c \in Object /\ c.ops = m.ops /\ c.done = m.done /\ Kept(m, c)
        /\ c.closed = m.closed /\ c.held = m.held
    BY <1>1, TimerFacts
  <2> HIDE DEF c
  <2>3. AllOnce(c) /\ \A o : Live(c, o) <=> Live(m, o)
    BY <1>1, <2>2, QueuesDecide
  <2>4. c = [c EXCEPT !.ops = c.ops]
    BY <2>2 DEF Object
  <2>5. "timer" \in All /\ "timer" \notin Ops /\ "ok" \in Results
    BY DEF All, Ops, ClientOps, UpstreamOps, Results
  <2>6. /\ m' \in Object /\ AllOnce(m')
        /\ \A o \in All : Live(m', o) <=> Live(c, o) \/ o = "timer"
        /\ Kept(c, m') /\ Flags(c, m')
    BY <1>1, <2>1, <2>2, <2>3, <2>4, <2>5, FinishFacts
  <2>7. /\ Kept(m, m') /\ m'.closed = m.closed /\ m'.held = m.held
        /\ \A o \in All \ {"timer"} : Live(m', o) <=> Live(m, o)
        /\ Live(m', "timer")
    BY <2>2, <2>3, <2>5, <2>6 DEF Kept, Flags
  <2>8. ~m.closed
    BY <1>1, <2>1 DEF Inner, Watches
  <2>9. Places(m')
    BY <1>1, <2>7, Names DEF Inner, Places
  <2>10. Stages(m')
    BY <1>1, <2>7, Names DEF Inner, Stages, Kept
  <2>11. Transactions(m') /\ Writes(m')
    BY <1>1, <2>7, Names DEF Inner, Transactions, Writes, Kept
  <2>12. Watches(m')
    BY <2>7, <2>8 DEF Watches
  <2>13. Entries(m') /\ Stream(m')
    BY <1>1, <2>7 DEF Inner, Entries, Stream, Kept
  <2> QED
    BY <2>1, <2>6, <2>8, <2>9, <2>10, <2>11, <2>12, <2>13 DEF Inner
<1>3. CASE Decide
  <2> DEFINE c == [m EXCEPT !.held = FALSE]
  <2>1. /\ m.held /\ UNCHANGED env
        /\ \E act \in {"forward", "drop"} : m' = Finish(c, "decision", act)
    BY <1>3 DEF Decide
  <2>2. /\ c \in Object /\ c.ops = m.ops /\ c.done = m.done /\ Kept(m, c)
        /\ c.closed = m.closed /\ ~c.held /\ c.timer = m.timer
    BY <1>1 DEF Object, Kept
  <2> HIDE DEF c
  <2>3. AllOnce(c) /\ \A o : Live(c, o) <=> Live(m, o)
    BY <1>1, <2>2, QueuesDecide
  <2>4. c = [c EXCEPT !.ops = c.ops]
    BY <2>2 DEF Object
  <2>5. "decision" \in All /\ "decision" \notin Ops /\ {"forward", "drop"} \subseteq Results
    BY DEF All, Ops, ClientOps, UpstreamOps, Results
  <2>6. \A o \in Turn \cup {"decision"} : ~Live(m, o)
    BY <1>1, <2>1 DEF Inner, Places
  <2>7. ~Queued(c, "decision")
    BY <2>3, <2>6 DEF Live
  <2>8. /\ m' \in Object /\ AllOnce(m')
        /\ \A o \in All : Live(m', o) <=> Live(c, o) \/ o = "decision"
        /\ Kept(c, m') /\ Flags(c, m')
    <3>1. PICK act \in {"forward", "drop"} : m' = Finish(c, "decision", act)
      BY <2>1
    <3>2. m' = Finish([c EXCEPT !.ops = c.ops], "decision", act) /\ act \in Results
      BY <2>4, <2>5, <3>1
    <3> QED
      BY <1>1, <2>2, <2>3, <2>5, <2>7, <3>2, FinishFacts
  <2>9. /\ Kept(m, m') /\ m'.closed = m.closed /\ ~m'.held /\ m'.timer = m.timer
        /\ \A o \in All \ {"decision"} : Live(m', o) <=> Live(m, o)
        /\ Live(m', "decision")
    BY <2>2, <2>3, <2>5, <2>8 DEF Kept, Flags
  <2>10. ~m.closed /\ m.id # 0 /\ ~m.resp /\ m.client /\ m.up /\ ~Live(m, "shakeClient") /\ ~Live(m, "shakeUp")
    BY <1>1, <2>1 DEF Inner, Places, Stages, Transactions, Watches
  <2>11. \A o \in Turn : ~Live(m', o)
    BY <2>6, <2>9, Names DEF Turn
  <2>12. ~Live(m', "shakeClient") /\ ~Live(m', "shakeUp")
    BY <2>9, <2>10, Names
  <2>13. Places(m')
    BY <2>9, <2>11, <2>12 DEF Places
  <2>14. Stages(m')
    BY <1>1, <2>9, <2>10, <2>11, <2>12, Names DEF Inner, Stages, Kept, TlsOps
  <2>15. Transactions(m')
    BY <1>1, <2>9, <2>10, <2>11, <2>12 DEF Inner, Transactions, Kept, Turn
  <2>16. Writes(m') /\ Watches(m')
    BY <1>1, <2>9, <2>10, Names DEF Inner, Writes, Watches, Kept
  <2>17. Entries(m') /\ Stream(m')
    BY <1>1, <2>9 DEF Inner, Entries, Stream, Kept
  <2> QED
    BY <2>1, <2>8, <2>10, <2>13, <2>14, <2>15, <2>16, <2>17 DEF Inner
<1> QED
  BY <1>2, <1>3

LEMMA IInvStep == IInv /\ [Next]_vars => IInv'
<1> SUFFICES ASSUME IInv, [Next]_vars PROVE IInv'
  OBVIOUS
<1>1. CASE Handlers
  <2>1. Inner(m') /\ UNCHANGED env
    BY <1>1, ClosedDrops, OpenHandles
  <2> QED
    BY <2>1 DEF IInv, env
<1>2. CASE ClientSends \/ DataArrives \/ Succeeds \/ Fails
  <2>1. Completed(m, m') /\ asked' \in 0 .. MaxReq /\ reads' \in 0 .. MaxReads
    BY <1>2, NetworkStep
  <2>2. Inner(m')
    BY <2>1, CompletedKeeps DEF IInv
  <2> QED
    BY <2>1, <2>2 DEF IInv
<1>3. CASE TimerExpires \/ Decide
  <2>1. Inner(m') /\ UNCHANGED env
    BY <1>3, OutsideStep
  <2> QED
    BY <2>1 DEF IInv, env
<1>4. CASE UNCHANGED vars
  BY <1>4 DEF vars, IInv
<1> QED
  BY <1>1, <1>2, <1>3, <1>4 DEF Next, Environment

LEMMA OnlyDrainsStep == IInv /\ [Next]_vars => OnlyDrains \/ UNCHANGED vars
<1> SUFFICES ASSUME IInv, [Next]_vars, m.closed, ~UNCHANGED vars PROVE OnlyDrains
  BY DEF OnlyDrains
<1>1. Next
  OBVIOUS
<1>2. m.ops \in [Ops -> {0, 1}] /\ ~m.held /\ ~m.timer
  BY DEF IInv, Inner, Object, Watches
<1>3. CASE Handlers
  <2>1. m' = Ran /\ Ran.ops = m.ops /\ \E op \in All : Due(op)
    <3>1. \E op \in All : Due(op)
      BY <1>3 DEF Handlers, HandleResolve, HandleUpstreamConnect, HandleTold, HandleClientHandshake,
         HandleUpstreamHandshake, HandleClientRead, HandleDecision, HandleUpstreamWrite,
         HandleUpstreamRead, HandleClientWrite, HandleTimeout, All, Ops, ClientOps, UpstreamOps
    <3> QED
      BY <1>3, <3>1, ClosedDrops
  <2>2. Kept(m, Ran) /\ Flags(m, Ran)
    BY <2>1, TakenFacts DEF Taken
  <2> QED
    BY <1>2, <2>1, <2>2 DEF OnlyDrains, Kept, Flags
<1>4. CASE ClientSends \/ DataArrives \/ Succeeds \/ Fails
  <2>1. Completed(m, m')
    BY <1>4, NetworkStep
  <2> QED
    BY <1>2, <2>1 DEF Completed, OnlyDrains, Kept, Flags
<1>5. CASE TimerExpires \/ Decide
  BY <1>5, OutsideStep
<1> QED
  BY <1>1, <1>3, <1>4, <1>5 DEF Next, Environment

-----------------------------------------------------------------------------
(* The theorems *)

\* The object stays within its fields' ranges; the writes counted in the
\* client's queue are chunks the client was answered with.
THEOREM MitmTypes == Spec => []TypeOK
<1>1. IInv => TypeOK
  BY InnerImplies
<1> QED
  BY InitIInv, IInvStep, <1>1, PTL DEF Spec

\* Plain text, handshakes and decrypted traffic never overlap on a connection,
\* whatever fails or completes late.
THEOREM MitmLayers == Spec => []Layers
<1>1. IInv => Layers
  BY InnerImplies
<1> QED
  BY InitIInv, IInvStep, <1>1, PTL DEF Spec

\* Parsers, buffers and currentTransaction_ belong to one request at a time and
\* no operation is started twice: no handler finds the state of another one.
THEOREM MitmOneTurn == Spec => []OneTurn
<1>1. IInv => OneTurn
  BY InnerImplies
<1> QED
  BY InitIInv, IInvStep, <1>1, PTL DEF Spec

\* No path through the handlers leaves an open session without its timer,
\* unless the user is asked; no path leaves a closed one with an item queued.
THEOREM MitmWatched == Spec => []Watched
<1>1. IInv => Watched
  BY InnerImplies
<1> QED
  BY InitIInv, IInvStep, <1>1, PTL DEF Spec

\* logTransaction() is called at most once for a request.
THEOREM MitmLogOnce == Spec => []LogOnce
<1>1. IInv => LogOnce
  BY InnerImplies
<1> QED
  BY InitIInv, IInvStep, <1>1, PTL DEF Spec

\* Bytes of two responses never mix on the client's stream.
THEOREM MitmStreamInOrder == Spec => []StreamInOrder
<1>1. IInv => StreamInOrder
  BY InnerImplies
<1> QED
  BY InitIInv, IInvStep, <1>1, PTL DEF Spec

\* isClosed_ stops every handler that close() found queued.
THEOREM MitmStaysClosed == Spec => StaysClosed
<1>1. IInv /\ [Next]_vars => [OnlyDrains]_vars
  BY OnlyDrainsStep
<1>2. Spec => [][OnlyDrains]_vars
  BY InitIInv, IInvStep, <1>1, PTL DEF Spec
<1> QED
  BY <1>2 DEF StaysClosed
=============================================================================
