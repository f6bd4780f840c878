--------------------------- MODULE InterceptProofs ---------------------------
(***************************************************************************)
(* Proofs about Intercept.tla, for every set of requests: the inductive    *)
(* invariant IInv, that a decision is acted on once, that the screen       *)
(* follows the queue, that nobody overtakes, and that the manager          *)
(* implements the atomic InterceptGate.                                    *)
(***************************************************************************)
EXTENDS Intercept, SequenceLemmas, TLAPS

-----------------------------------------------------------------------------
(* Lists of decisions.                                                      *)

\* The requests of a sequence of decisions follow its Append and Tail.
LEMMA ReqsOfSteps ==
    /\ \A s \in Seq(Decision) : ReqsOf(s) \in Seq(Req)
    /\ \A s \in Seq(Decision), d \in Decision :
          ReqsOf(Append(s, d)) = Append(ReqsOf(s), d.req)
    /\ \A s \in Seq(Decision) : s # <<>> =>
          /\ ReqsOf(s) # <<>>
          /\ ReqsOf(Tail(s)) = Tail(ReqsOf(s))
          /\ Head(ReqsOf(s)) = Head(s).req
          /\ Head(s) \in Decision /\ Head(s).req \in Req
          /\ Tail(s) \in Seq(Decision)
  <1>1. ASSUME NEW s \in Seq(Decision) PROVE ReqsOf(s) \in Seq(Req)
    <2>1. \A i \in 1 .. Len(s) : s[i].req \in Req
      <3>1. \A i \in 1 .. Len(s) : s[i] \in Decision
        OBVIOUS
      <3>2. \A d \in Decision : d.req \in Req
        BY DEF Decision
      <3> QED BY <3>1, <3>2
    <2>2. ReqsOf(s) \in [1 .. Len(s) -> Req] /\ Len(s) \in Nat
      BY <2>1 DEF ReqsOf
    <2> QED BY <2>2
  <1>2. ASSUME NEW s \in Seq(Decision), NEW d \in Decision
        PROVE  ReqsOf(Append(s, d)) = Append(ReqsOf(s), d.req)
    BY DEF ReqsOf
  <1>3. ASSUME NEW s \in Seq(Decision), s # <<>>
        PROVE  /\ ReqsOf(s) # <<>>
               /\ ReqsOf(Tail(s)) = Tail(ReqsOf(s))
               /\ Head(ReqsOf(s)) = Head(s).req
               /\ Head(s) \in Decision /\ Head(s).req \in Req
               /\ Tail(s) \in Seq(Decision)
    <2>1. Len(s) \in Nat \ {0} /\ Head(s) = s[1] /\ Head(s) \in Decision
          /\ Tail(s) \in Seq(Decision)
      BY <1>3
    <2>2. Head(s).req \in Req
      BY <2>1 DEF Decision
    <2>3. ReqsOf(s) # <<>> /\ Head(ReqsOf(s)) = Head(s).req
      <3>1. /\ ReqsOf(s) \in Seq(Req) /\ Len(ReqsOf(s)) = Len(s)
            /\ ReqsOf(s)[1] = s[1].req
        BY <1>1, <2>1 DEF ReqsOf
      <3> QED BY <2>1, <3>1
    <2>4. ReqsOf(Tail(s)) = Tail(ReqsOf(s))
      BY <1>3, <2>1 DEF ReqsOf
    <2> QED BY <2>1, <2>2, <2>3, <2>4
  <1> QED BY <1>1, <1>2, <1>3

\* Taking the oldest decision of a sequence, and adding one.
LEMMA DecisionTail ==
    ASSUME NEW s \in Seq(Decision), s # <<>>, Distinct(ReqsOf(s))
    PROVE  /\ Occurs(ReqsOf(s), Head(s).req)
           /\ Distinct(ReqsOf(Tail(s)))
           /\ \A x : Occurs(ReqsOf(Tail(s)), x) <=> Occurs(ReqsOf(s), x) /\ x # Head(s).req
  <1> DEFINE q == ReqsOf(s)
  <1>1. q \in Seq(Req) /\ q # <<>> /\ Distinct(q)
        /\ ReqsOf(Tail(s)) = Tail(q) /\ Head(q) = Head(s).req
    BY ReqsOfSteps
  <1> HIDE DEF q
  <1>2. /\ Occurs(q, Head(q)) /\ Distinct(Tail(q))
        /\ \A x : Occurs(Tail(q), x) <=> Occurs(q, x) /\ x # Head(q)
    BY <1>1, TailElements
  <1> QED BY <1>1, <1>2 DEF q

LEMMA DecisionAppend ==
    ASSUME NEW s \in Seq(Decision), NEW d \in Decision,
           Distinct(ReqsOf(s)), ~Occurs(ReqsOf(s), d.req)
    PROVE  /\ Distinct(ReqsOf(Append(s, d)))
           /\ \A x : Occurs(ReqsOf(Append(s, d)), x) <=> Occurs(ReqsOf(s), x) \/ x = d.req
  <1> DEFINE q == ReqsOf(s)
  <1>1. q \in Seq(Req) /\ Distinct(q) /\ ~Occurs(q, d.req) /\ d.req \in Req
        /\ ReqsOf(Append(s, d)) = Append(q, d.req)
    BY ReqsOfSteps DEF Decision
  <1> HIDE DEF q
  <1>2. /\ Distinct(Append(q, d.req))
        /\ \A x : Occurs(Append(q, d.req), x) <=> Occurs(q, x) \/ x = d.req
    BY <1>1, AppendElements
  <1> QED BY <1>1, <1>2 DEF q

-----------------------------------------------------------------------------
(* Type correctness *)

LEMMA TypeStep ==
    ASSUME TypeOK, PcInv, [Next]_vars
    PROVE  TypeOK'
  <1> USE InterceptAssumption DEF TypeOK
  <1>1. ASSUME NEW r \in Req, Receive(r) PROVE TypeOK'
    BY <1>1 DEF Receive, netVars, uiVars, viewVars, SessStates
  <1>2. ASSUME NEW r \in Req, Close(r) PROVE TypeOK'
    <2>1. queue' \in Seq(Req)
      <3>1. CASE Queued(r)
        <4>1. PICK i \in DOMAIN queue : queue[i] = r
          BY <3>1 DEF Queued, Occurs
        <4>2. /\ Len(queue) - 1 \in Nat
              /\ \A j \in 1 .. Len(queue) : queue[j] \in Req
          BY <4>1
        <4> DEFINE k == CHOOSE n \in DOMAIN queue : queue[n] = r
        <4>3. Without(queue, r) = [j \in 1 .. (Len(queue) - 1) |->
                                     IF j < k THEN queue[j] ELSE queue[j + 1]]
          BY DEF Without
        <4>4. k \in 1 .. Len(queue)
          BY <4>1
        <4> HIDE DEF k
        <4>5. \A j \in 1 .. (Len(queue) - 1) :
                (IF j < k THEN queue[j] ELSE queue[j + 1]) \in Req
          BY <4>2, <4>4
        <4>6. Without(queue, r) \in [1 .. (Len(queue) - 1) -> Req]
          BY <4>3, <4>5
        <4>7. Without(queue, r) \in Seq(Req)
          BY ONLY <4>2, <4>6
        <4> QED BY <1>2, <3>1, <4>7 DEF Close
      <3> QED BY <1>2, <3>1 DEF Close
    <2> QED BY <1>2, <2>1 DEF Close, netVars, uiVars, viewVars, SessStates
  <1>3. CASE Enqueue
    <2>1. netReq \in Req
      BY <1>3 DEF Enqueue, PcInv
    <2> QED BY <1>3, <2>1 DEF Enqueue, uiVars, viewVars, SessStates
  <1>4. CASE NetNotify
    BY <1>4 DEF NetNotify, uiVars, viewVars
  <1>5. CASE Resume
    <2>1. Head(posted) \in Decision /\ Tail(posted) \in Seq(Decision)
      BY <1>5 DEF Resume
    <2>2. Head(posted).req \in Req /\ Head(posted).act \in SessStates
      BY <2>1 DEF Decision, SessStates
    <2> QED BY <1>5, <2>1, <2>2 DEF Resume, netVars, uiVars, viewVars
  <1>6. CASE Toggle
    BY <1>6 DEF Toggle, Click, netVars, viewVars
  <1>7. CASE ForwardClick
    <2>1. queue # <<>> => Head(queue) \in Req
      OBVIOUS
    <2> QED BY <1>7, <2>1 DEF ForwardClick, Click, netVars, viewVars
  <1>8. ASSUME NEW act \in {"forward", "drop"}, TakeFront(act), redraw' \in BOOLEAN
        PROVE  TypeOK'
    <2>1. CASE queue = <<>>
      BY <1>8, <2>1 DEF TakeFront, netVars, viewVars
    <2>2. CASE queue # <<>>
      <3>1. Head(queue) \in Req /\ Tail(queue) \in Seq(Req)
        BY <2>2
      <3>2. [req |-> Head(queue), act |-> act] \in Decision
        BY <3>1 DEF Decision
      <3>3. <<[req |-> Head(queue), act |-> act]>> \in Seq(Decision)
        BY <3>2
      <3> QED BY <1>8, <2>2, <3>1, <3>3 DEF TakeFront, netVars, viewVars
    <2> QED BY <2>1, <2>2
  <1>9. CASE ForwardPop
    BY <1>8, <1>9 DEF ForwardPop
  <1>10. CASE DropClick
    BY <1>8, <1>10 DEF DropClick, Click
  <1>11. CASE DropAllClick
    BY <1>11 DEF DropAllClick, Click, netVars, viewVars
  <1>12. ASSUME NEW act \in {"forward", "drop"}, TakeAll(act)
         PROVE  TypeOK'
    <2>1. \A i \in 1 .. Len(queue) : [req |-> queue[i], act |-> act] \in Decision
      <3>1. \A i \in 1 .. Len(queue) : queue[i] \in Req
        OBVIOUS
      <3> QED BY <3>1 DEF Decision
    <2>2. hand' \in [1 .. Len(queue) -> Decision] /\ Len(queue) \in Nat
      BY <1>12, <2>1 DEF TakeAll
    <2>3. hand' \in Seq(Decision)
      BY <2>2
    <2> QED BY <1>12, <2>3 DEF TakeAll, netVars, viewVars
  <1>13. CASE SwapOut
    BY <1>12, <1>13 DEF SwapOut
  <1>14. CASE Deliver
    <2>1. Head(hand) \in Decision /\ Tail(hand) \in Seq(Decision)
      BY <1>14 DEF Deliver, PcInv
    <2> QED BY <1>14, <2>1 DEF Deliver, netVars, viewVars
  <1>15. CASE UiNotify
    BY <1>15 DEF UiNotify, netVars, viewVars
  <1>16. CASE Render
    <2>1. queue # <<>> => Head(queue) \in Req
      OBVIOUS
    <2> QED BY <1>16, <2>1 DEF Render, netVars, uiVars
  <1>17. CASE UNCHANGED vars
    BY <1>17 DEF vars
  <1> QED
    BY <1>1, <1>2, <1>3, <1>4, <1>5, <1>6, <1>7, <1>9, <1>10, <1>11, <1>13,
       <1>14, <1>15, <1>16, <1>17
       DEF Next, NetStep, UiStep, User

-----------------------------------------------------------------------------
(* The hand-over of requests: one lemma per action that moves one          *)

LEMMA EmptyHolds == \A x : ~Occurs(<<>>, x) /\ Distinct(<<>>) /\ ReqsOf(<<>>) = <<>>
  BY DEF Occurs, Distinct, ReqsOf

\* A step that touches neither the queue, nor a decision, nor a session.
LEMMA HandOverUnchanged ==
    ASSUME OneWayOut, UNCHANGED <<queue, hand, posted, sess>>
    PROVE  OneWayOut'
  BY DEF OneWayOut, OnItsWay, Queued, InHand, InPosted

LEMMA ReceiveStep ==
    ASSUME IInv, NEW r \in Req, Receive(r)
    PROVE  OneWayOut' /\ PcInv'
  <1> USE InterceptAssumption DEF IInv, TypeOK, Receive, uiVars, viewVars, netVars
  <1>1. sess' \in [Req -> SessStates] /\ sess[r] = "new"
        /\ \A x \in Req : x # r => sess'[x] = sess[x]
        /\ sess'[r] \in {"arriving", "forward"}
    BY DEF SessStates
  <1>2. OneWayOut'
    BY <1>1 DEF OneWayOut, OnItsWay, Queued, InHand, InPosted
  <1>3. PcInv'
    BY <1>1 DEF PcInv
  <1> QED BY <1>2, <1>3

LEMMA EnqueueStep ==
    ASSUME IInv, Enqueue
    PROVE  OneWayOut' /\ PcInv'
  <1> USE InterceptAssumption DEF IInv, Enqueue, uiVars, viewVars
  <1>1. netReq \in Req /\ sess[netReq] = "arriving"
    BY DEF TypeOK, PcInv
  <1>2. ~Queued(netReq) /\ ~OnItsWay(netReq)
    BY <1>1 DEF OneWayOut
  <1>3. /\ \A x : Occurs(queue', x) <=> Occurs(queue, x) \/ x = netReq
        /\ Distinct(queue')
    BY <1>1, <1>2, AppendElements DEF TypeOK, OneWayOut, Queued
  <1>4. /\ sess'[netReq] = "paused"
        /\ \A x \in Req : x # netReq => sess'[x] = sess[x]
    BY <1>1 DEF TypeOK
  <1>5. OneWayOut'
    BY <1>1, <1>2, <1>3, <1>4 DEF OneWayOut, OnItsWay, Queued, InHand, InPosted
  <1>6. PcInv'
    BY <1>1, <1>4 DEF PcInv
  <1> QED BY <1>5, <1>6

LEMMA ResumeStep ==
    ASSUME IInv, Resume
    PROVE  OneWayOut' /\ PcInv'
  <1> USE DEF IInv, Resume, uiVars, viewVars, netVars
  <1> DEFINE d == Head(posted)
  <1>1. d.req \in Req /\ d.act \in {"forward", "drop"}
    BY ReqsOfSteps DEF TypeOK, Decision
  <1>2. /\ InPosted(d.req)
        /\ Distinct(ReqsOf(posted'))
        /\ \A x : Occurs(ReqsOf(posted'), x) <=> InPosted(x) /\ x # d.req
    BY DecisionTail DEF TypeOK, OneWayOut, InPosted
  <1>3. /\ ~Queued(d.req) /\ ~InHand(d.req)
        /\ sess[d.req] \in {"paused", "closed"}
    BY <1>1, <1>2 DEF OneWayOut, OnItsWay
  <1>4. /\ sess'[d.req] \in {"forward", "drop", "closed"}
        /\ \A x \in Req : x # d.req => sess'[x] = sess[x]
    BY <1>1, <1>3 DEF TypeOK
  <1>5. OneWayOut'
    BY <1>1, <1>2, <1>3, <1>4 DEF OneWayOut, OnItsWay, Queued, InHand, InPosted
  <1>6. PcInv'
    BY <1>1, <1>3, <1>4 DEF PcInv
  <1> QED BY <1>5, <1>6

LEMMA CloseStep ==
    ASSUME IInv, NEW r \in Req, Close(r)
    PROVE  OneWayOut' /\ PcInv'
  <1> USE DEF IInv, Close, uiVars, viewVars
  <1>1. /\ Distinct(queue')
        /\ \A x : Occurs(queue', x) <=> Queued(x) /\ x # r
    <2>1. CASE Queued(r)
      BY <2>1, WithoutElements DEF TypeOK, OneWayOut, Queued
    <2>2. CASE ~Queued(r)
      BY <2>2 DEF OneWayOut, Queued
    <2> QED BY <2>1, <2>2
  <1>2. /\ sess'[r] = "closed"
        /\ \A x \in Req : x # r => sess'[x] = sess[x]
    BY DEF TypeOK
  <1>3. sess[r] # "arriving"
    OBVIOUS
  <1>4. OneWayOut'
    BY <1>1, <1>2 DEF OneWayOut, OnItsWay, Queued, InHand, InPosted
  <1>5. PcInv'
    BY <1>2, <1>3 DEF PcInv
  <1> QED BY <1>4, <1>5

LEMMA TakeFrontStep ==
    ASSUME IInv, uiPc # "deliver", NEW act \in {"forward", "drop"}, TakeFront(act)
    PROVE  OneWayOut' /\ PcInv'
  <1> USE DEF IInv, TakeFront, viewVars, netVars
  <1>1. CASE queue = <<>>
    <2>1. OneWayOut'
      BY <1>1, HandOverUnchanged
    <2>2. PcInv'
      BY <1>1 DEF PcInv
    <2> QED BY <2>1, <2>2
  <1>2. CASE queue # <<>>
    <2> DEFINE r == Head(queue)
    <2>1. /\ r \in Req /\ Queued(r)
          /\ Distinct(queue')
          /\ \A x : Occurs(queue', x) <=> Queued(x) /\ x # r
      <3>1. queue \in Seq(Req) /\ Distinct(queue) /\ queue' = Tail(queue)
        BY DEF TypeOK, OneWayOut
      <3> QED BY <1>2, <3>1, TailElements DEF Queued
    <2>2. hand = <<>>
      BY DEF PcInv
    <2>3. /\ \A x : ~InHand(x)
          /\ sess[r] = "paused" /\ ~InPosted(r)
      BY <2>1, <2>2, EmptyHolds DEF OneWayOut, OnItsWay, InHand
    <2>4. hand' = <<[req |-> r, act |-> act]>>
      BY <1>2
    <2>5. /\ Distinct(ReqsOf(hand'))
          /\ \A x : Occurs(ReqsOf(hand'), x) <=> x = r
      BY <2>4 DEF ReqsOf, Distinct, Occurs
    <2> HIDE DEF r
    <2>6. OneWayOut'
      BY <2>1, <2>3, <2>5 DEF OneWayOut, OnItsWay, Queued, InHand, InPosted
    <2>7. PcInv'
      BY <1>2, <2>4 DEF PcInv
    <2> QED BY <2>6, <2>7
  <1> QED BY <1>1, <1>2

LEMMA TakeAllStep ==
    ASSUME IInv, uiPc # "deliver", NEW act \in {"forward", "drop"}, TakeAll(act)
    PROVE  OneWayOut' /\ PcInv'
  <1> USE DEF IInv, TakeAll, viewVars, netVars
  <1>1. hand = <<>>
    BY DEF PcInv
  <1>2. ReqsOf(hand') = queue
    <2>1. queue \in Seq(Req)
      BY DEF TypeOK
    <2>2. Len(hand') = Len(queue)
      BY <2>1
    <2>3. \A i \in 1 .. Len(queue) : hand'[i].req = queue[i]
      BY <2>1
    <2> QED BY <2>1, <2>2, <2>3 DEF ReqsOf
  <1>3. /\ \A x : ~InHand(x)
        /\ \A x : ~Occurs(queue', x)
        /\ Distinct(queue')
    BY <1>1, EmptyHolds DEF InHand
  <1>4. OneWayOut'
    BY <1>2, <1>3 DEF OneWayOut, OnItsWay, Queued, InHand, InPosted
  <1>5. hand' = <<>> <=> queue = <<>>
    BY DEF TypeOK
  <1>6. PcInv'
    BY <1>5 DEF PcInv
  <1> QED BY <1>4, <1>6

LEMMA DeliverStep ==
    ASSUME IInv, Deliver
    PROVE  OneWayOut' /\ PcInv'
  <1> USE DEF IInv, Deliver, viewVars, netVars
  <1> DEFINE d == Head(hand)
  <1>1. hand # <<>>
    BY DEF PcInv
  <1>2. d \in Decision /\ d.req \in Req
    BY <1>1, ReqsOfSteps DEF TypeOK
  <1>3. /\ InHand(d.req)
        /\ Distinct(ReqsOf(hand'))
        /\ \A x : Occurs(ReqsOf(hand'), x) <=> InHand(x) /\ x # d.req
    BY <1>1, DecisionTail DEF TypeOK, OneWayOut, InHand
  <1>4. ~Queued(d.req) /\ ~InPosted(d.req)
    BY <1>2, <1>3 DEF OneWayOut, OnItsWay
  <1>5. /\ \A x : Occurs(ReqsOf(posted'), x) <=> InPosted(x) \/ x = d.req
        /\ Distinct(ReqsOf(posted'))
    BY <1>2, <1>4, DecisionAppend DEF TypeOK, OneWayOut, InPosted
  <1>6. OneWayOut'
    BY <1>2, <1>3, <1>4, <1>5 DEF OneWayOut, OnItsWay, Queued, InHand, InPosted
  <1>7. Tail(hand) = <<>> <=> Len(hand) = 1
    <2>1. hand \in Seq(Decision)
      BY DEF TypeOK
    <2>2. Len(Tail(hand)) = Len(hand) - 1 /\ Tail(hand) \in Seq(Decision)
          /\ Len(hand) \in Nat
      BY ONLY <1>1, <2>1
    <2>3. PICK t : t = Tail(hand)
      OBVIOUS
    <2>4. t \in Seq(Decision) /\ Len(t) = Len(hand) - 1
      BY ONLY <2>2, <2>3
    <2>5. t = <<>> <=> Len(t) = 0
      BY <2>4, EmptySeq
    <2> QED BY ONLY <2>2, <2>3, <2>4, <2>5
  <1>8. PcInv'
    BY <1>7 DEF PcInv
  <1> QED BY <1>6, <1>8

-----------------------------------------------------------------------------
(* The inductive invariant *)

LEMMA InvInit == Init => IInv
  <1> SUFFICES ASSUME Init PROVE IInv
    OBVIOUS
  <1> USE InterceptAssumption DEF Init
  <1>1. TypeOK
    <2>1. sess \in [Req -> SessStates] /\ content \in [Req -> Req \cup {None}]
      BY DEF SessStates
    <2>2. queue \in Seq(Req) /\ hand \in Seq(Decision) /\ posted \in Seq(Decision)
      OBVIOUS
    <2>3. /\ enabled \in BOOLEAN /\ redraw \in BOOLEAN
          /\ netReq \in Req \cup {None} /\ editor \in Req \cup {None}
          /\ lastInterceptId \in Req \cup {None}
      OBVIOUS
    <2> QED BY <2>1, <2>2, <2>3 DEF TypeOK
  <1>2. OneWayOut
    BY EmptyHolds DEF OneWayOut, OnItsWay, Queued, InHand, InPosted
  <1>3. PcInv
    BY DEF PcInv
  <1> QED BY <1>1, <1>2, <1>3 DEF IInv

LEMMA HandOverStep ==
    ASSUME IInv, [Next]_vars
    PROVE  OneWayOut' /\ PcInv'
  <1>2. ASSUME NEW r \in Req, Receive(r) PROVE OneWayOut' /\ PcInv'
    BY <1>2, ReceiveStep
  <1>3. ASSUME NEW r \in Req, Close(r) PROVE OneWayOut' /\ PcInv'
    BY <1>3, CloseStep
  <1>4. CASE Enqueue
    BY <1>4, EnqueueStep
  <1>5. CASE NetNotify
    BY <1>5, HandOverUnchanged DEF IInv, NetNotify, PcInv, uiVars, viewVars
  <1>6. CASE Resume
    BY <1>6, ResumeStep
  <1>7. CASE Toggle
    BY <1>7, HandOverUnchanged DEF IInv, Toggle, Click, PcInv, netVars, viewVars
  <1>8. CASE ForwardClick
    BY <1>8, HandOverUnchanged DEF IInv, ForwardClick, Click, PcInv, netVars, viewVars
  <1>9. CASE ForwardPop
    BY <1>9, TakeFrontStep DEF ForwardPop
  <1>10. CASE DropClick
    BY <1>10, TakeFrontStep DEF DropClick, Click
  <1>11. CASE DropAllClick
    BY <1>11, HandOverUnchanged DEF IInv, DropAllClick, Click, PcInv, netVars, viewVars
  <1>12. CASE SwapOut
    BY <1>12, TakeAllStep DEF SwapOut
  <1>13. CASE Deliver
    BY <1>13, DeliverStep
  <1>14. CASE UiNotify
    BY <1>14, HandOverUnchanged DEF IInv, UiNotify, PcInv, netVars, viewVars
  <1>15. CASE Render
    BY <1>15, HandOverUnchanged DEF IInv, Render, PcInv, netVars, uiVars
  <1>16. CASE UNCHANGED vars
    BY <1>16, HandOverUnchanged DEF IInv, vars, PcInv
  <1> QED
    BY <1>2, <1>3, <1>4, <1>5, <1>6, <1>7, <1>8, <1>9, <1>10, <1>11, <1>12,
       <1>13, <1>14, <1>15, <1>16
       DEF Next, NetStep, UiStep, User

LEMMA InvStep == IInv /\ [Next]_vars => IInv'
  BY TypeStep, HandOverStep DEF IInv

\* Every request a session waits for has exactly one way back to it, whatever
\* the UI thread is doing (InterceptManager.cpp: interceptRequest,
\* forwardCurrent, dropCurrent, forwardAll, dropAll, removeById).
THEOREM InterceptInvariant == Spec => []IInv
  BY InvInit, InvStep, PTL DEF Spec

\* A session acts on one decision only, although the handler that resumes it
\* checks nothing but that its socket is open.
LEMMA DecidedOnceStep ==
    ASSUME IInv, [Next]_vars, NEW r \in Req
    PROVE  /\ sess[r] \in {"forward", "drop"} => sess'[r] \in {sess[r], "closed"}
           /\ sess[r] = "closed" => sess'[r] = "closed"
  <1> USE DEF IInv, TypeOK
  <1>1. ASSUME NEW x \in Req, Receive(x) PROVE r # x => sess'[r] = sess[r]
    BY <1>1 DEF Receive
  <1>2. ASSUME NEW x \in Req, Receive(x) PROVE sess[x] = "new"
    BY <1>2 DEF Receive
  <1>3. ASSUME NEW x \in Req, Close(x)
        PROVE  IF r = x THEN sess[r] # "closed" /\ sess'[r] = "closed"
                        ELSE sess'[r] = sess[r]
    BY <1>3 DEF Close
  <1>4. CASE Enqueue
    <2>1. netReq \in Req /\ sess[netReq] = "arriving"
      BY <1>4 DEF Enqueue, PcInv
    <2> QED BY <1>4, <2>1 DEF Enqueue
  <1>5. CASE Resume
    <2>1. /\ Head(posted).req \in Req
          /\ Occurs(ReqsOf(posted), Head(posted).req)
      BY <1>5, ReqsOfSteps, DecisionTail DEF Resume, OneWayOut
    <2>2. sess[Head(posted).req] \in {"paused", "closed"}
      BY <2>1 DEF OneWayOut, OnItsWay, InPosted
    <2> QED BY <1>5, <2>1, <2>2 DEF Resume
  <1>6. CASE NetNotify \/ UiStep \/ User \/ UNCHANGED vars
    <2>1. UNCHANGED sess
      BY <1>6 DEF NetNotify, UiStep, User, vars, ForwardPop, SwapOut, Deliver, UiNotify,
         Render, Toggle, ForwardClick, DropClick, DropAllClick, TakeFront, TakeAll
    <2> QED BY <2>1
  <1> QED BY <1>1, <1>2, <1>3, <1>4, <1>5, <1>6 DEF Next, NetStep

THEOREM InterceptDecidedOnce == Spec => DecidedOnce
  <1>1. IInv /\ [Next]_vars =>
          [\A r \in Req :
              /\ sess[r] \in {"forward", "drop"} => sess'[r] \in {sess[r], "closed"}
              /\ sess[r] = "closed" => sess'[r] = "closed"]_vars
    BY DecidedOnceStep
  <1> QED BY <1>1, InterceptInvariant, PTL DEF Spec, DecidedOnce

-----------------------------------------------------------------------------
(* The screen: what the editor shows belongs to the front of the queue. *)

\* A request in the queue still has its own text, but for the front between the
\* two halves of Forward; the editor has the text of the item it was loaded for;
\* whatever the UI thread has begun ends with a frame.
Texts ==
    /\ \A r \in Req : sess[r] \in {"new", "arriving"} => content[r] = r
    /\ \A r \in Req : Queued(r) => content[r] = r \/ (uiPc = "pop" /\ r = Head(queue))
    /\ lastInterceptId # None => editor = lastInterceptId
    /\ uiPc # "idle" => redraw

Screen == Texts /\ ScreenFollowsQueue

\* removeById leaves the front where it is, if it removes another item.
LEMMA WithoutHead ==
    ASSUME NEW q \in Seq(Req), NEW r \in Req, Distinct(q), Occurs(q, r), Head(q) # r
    PROVE  Head(Without(q, r)) = Head(q)
  <1>1. PICK i \in DOMAIN q :
           /\ q[i] = r
           /\ Without(q, r) = [j \in 1 .. (Len(q) - 1) |-> IF j < i THEN q[j] ELSE q[j + 1]]
    BY WithoutElements
  <1>2. Len(q) \in Nat /\ DOMAIN q = 1 .. Len(q) /\ (q # <<>> => Head(q) = q[1])
    OBVIOUS
  <1>3. i > 1 /\ i \in Nat /\ i <= Len(q) /\ q # <<>>
    BY <1>1, <1>2
  <1>4. Without(q, r)[1] = q[1] /\ Without(q, r) \in Seq(Req)
    BY <1>1, <1>3, <1>2, WithoutElements
  <1>5. Occurs(Without(q, r), q[1])
    <2>1. Occurs(q, q[1]) /\ q[1] # r
      BY <1>2, <1>3 DEF Occurs
    <2> QED BY <2>1, WithoutElements
  <1>6. Without(q, r) # <<>>
    BY <1>5, EmptyHolds
  <1> QED BY <1>2, <1>3, <1>4, <1>6

LEMMA ScreenStep == IInv /\ Screen /\ [Next]_vars => Screen'
  <1> SUFFICES ASSUME IInv, Screen, [Next]_vars PROVE Screen'
    OBVIOUS
  <1> USE InterceptAssumption DEF IInv, Screen
  <1>1. /\ queue \in Seq(Req) /\ Distinct(queue) /\ content \in [Req -> Req \cup {None}]
        /\ sess \in [Req -> SessStates] /\ enabled \in BOOLEAN /\ redraw \in BOOLEAN
    BY DEF TypeOK, OneWayOut
  <1>2. queue # <<>> =>
           /\ Head(queue) \in Req /\ Queued(Head(queue))
           /\ \A x : Occurs(Tail(queue), x) <=> Queued(x) /\ x # Head(queue)
    BY <1>1, TailElements DEF Queued
  <1>3. ASSUME NEW r \in Req, Receive(r) PROVE Screen'
    <2>1. Texts'
      BY <1>1, <1>3 DEF Receive, Texts, Queued, viewVars, uiVars
    <2>2. ScreenFollowsQueue'
      BY <1>1, <1>3 DEF Receive, ScreenFollowsQueue, viewVars, uiVars, netVars
    <2> QED BY <2>1, <2>2
  <1>4. ASSUME NEW r \in Req, Close(r) PROVE Screen'
    <2>1. CASE Queued(r)
      <3>1. /\ queue' = Without(queue, r) /\ netPc' = "notify"
            /\ \A x : Occurs(queue', x) <=> Queued(x) /\ x # r
        BY <1>1, <1>4, <2>1, WithoutElements DEF Close, Queued
      <3>2. Head(queue) # r => Head(queue') = Head(queue)
        BY <1>1, <2>1, <3>1, WithoutHead DEF Queued
      <3>3. Texts'
        BY <1>1, <1>4, <3>1, <3>2 DEF Close, Texts, Queued, viewVars, uiVars
      <3> QED BY <3>1, <3>3 DEF ScreenFollowsQueue
    <2>2. CASE ~Queued(r)
      <3>1. Texts'
        BY <1>1, <1>4, <2>2 DEF Close, Texts, Queued, viewVars, uiVars
      <3> QED BY <1>4, <2>2, <3>1 DEF Close, ScreenFollowsQueue, viewVars, uiVars
    <2> QED BY <2>1, <2>2
  <1>5. CASE Enqueue
    <2>1. netReq \in Req /\ sess[netReq] = "arriving"
      BY <1>5 DEF Enqueue, TypeOK, PcInv
    <2>2. \A x : Occurs(queue', x) <=> Queued(x) \/ x = netReq
      BY <1>1, <1>5, <2>1, AppendElements DEF Enqueue, Queued
    <2>3. queue # <<>> => Head(queue') = Head(queue)
      BY <1>1, <1>5, <2>1 DEF Enqueue
    <2>4. \A x : ~Occurs(<<>>, x)
      BY EmptyHolds
    <2>5. Texts'
      BY <1>1, <1>5, <2>1, <2>2, <2>3, <2>4 DEF Enqueue, Texts, Queued, viewVars, uiVars
    <2> QED BY <1>5, <2>5 DEF Enqueue, ScreenFollowsQueue
  <1>6. CASE NetNotify
    BY <1>6 DEF NetNotify, Texts, ScreenFollowsQueue, Queued, viewVars, uiVars
  <1>7. CASE Resume
    <2>1. /\ Head(posted).req \in Req
          /\ Occurs(ReqsOf(posted), Head(posted).req)
          /\ Head(posted).act \in {"forward", "drop"}
      BY <1>7, ReqsOfSteps, DecisionTail DEF Resume, TypeOK, OneWayOut, Decision
    <2>2. \A x \in Req : sess'[x] \in {"new", "arriving"} => sess'[x] = sess[x]
      BY <1>1, <1>7, <2>1 DEF Resume
    <2>3. Texts'
      BY <1>7, <2>2 DEF Resume, Texts, Queued, viewVars, uiVars
    <2> QED BY <1>7, <2>3 DEF Resume, ScreenFollowsQueue, viewVars, uiVars, netVars
  <1>8. CASE Toggle \/ DropAllClick
    <2>1. redraw'
      BY <1>8 DEF Toggle, DropAllClick, Click
    <2>2. Texts'
      BY <1>8, <2>1 DEF Toggle, DropAllClick, Click, Texts, Queued, viewVars
    <2> QED BY <2>1, <2>2 DEF ScreenFollowsQueue
  <1>9. CASE ForwardClick
    <2>1. redraw' /\ uiPc = "idle" /\ uiPc' = "pop"
      BY <1>9 DEF ForwardClick, Click
    <2>2. \A x \in Req : content'[x] = content[x] \/ (Queued(x) /\ x = Head(queue))
      BY <1>1, <1>2, <1>9 DEF ForwardClick
    <2>3. \A x \in Req : Queued(x) => sess[x] = "paused"
      BY DEF OneWayOut
    <2>4. Texts'
      BY <1>9, <2>1, <2>2, <2>3 DEF ForwardClick, Texts, Queued, viewVars
    <2> QED BY <2>1, <2>4 DEF ScreenFollowsQueue
  <1>10. ASSUME NEW act, TakeFront(act), redraw' PROVE Screen'
    <2>1. \A x : Occurs(queue', x) => Queued(x) /\ x # Head(queue)
      BY <1>1, <1>2, <1>10, EmptyHolds DEF TakeFront, Queued
    <2>2. Texts'
      BY <1>10, <2>1 DEF TakeFront, Texts, Queued, viewVars
    <2> QED BY <1>10, <2>2 DEF ScreenFollowsQueue
  <1>11. CASE ForwardPop \/ DropClick
    <2>1. PICK act \in {"forward", "drop"} : TakeFront(act)
      BY <1>11 DEF ForwardPop, DropClick
    <2>2. redraw'
      BY <1>11 DEF ForwardPop, DropClick, Click, Texts
    <2> QED BY <1>10, <2>1, <2>2
  <1>12. CASE SwapOut
    <2>1. redraw /\ redraw' /\ queue' = <<>>
      BY <1>12 DEF SwapOut, TakeAll, Texts
    <2>2. Texts'
      BY <1>12, <2>1, EmptyHolds DEF SwapOut, TakeAll, Texts, Queued, viewVars
    <2> QED BY <2>1, <2>2 DEF ScreenFollowsQueue
  <1>13. CASE Deliver \/ UiNotify
    <2>1. redraw'
      BY <1>13 DEF Deliver, UiNotify, Texts
    <2>2. Texts'
      BY <1>13, <2>1 DEF Deliver, UiNotify, Texts, Queued, viewVars
    <2> QED BY <2>1, <2>2 DEF ScreenFollowsQueue
  <1>14. CASE Render
    <2>1. queue # <<>> => content[Head(queue)] = Head(queue)
      BY <1>2, <1>14 DEF Render, Texts
    <2>2. Texts'
      BY <1>2, <1>14, <2>1 DEF Render, Texts, Queued, uiVars
    <2>3. ScreenFollowsQueue'
      BY <1>2, <1>14, <2>1 DEF Render, Texts, ScreenFollowsQueue, uiVars, netVars
    <2> QED BY <2>2, <2>3
  <1>15. CASE UNCHANGED vars
    BY <1>15 DEF vars, Texts, ScreenFollowsQueue, Queued, uiVars, netVars, viewVars
  <1> QED
    BY <1>3, <1>4, <1>5, <1>6, <1>7, <1>8, <1>9, <1>11, <1>12, <1>13, <1>14, <1>15
       DEF Next, NetStep, UiStep, User

\* The editor shows the front of the queue unless a frame is due: every path
\* that changes the front notifies, removeById included, and the Renderer loads a
\* front that is new.
THEOREM InterceptScreen == Spec => []ScreenFollowsQueue
  <1>1. Init => Screen
    BY InterceptAssumption, EmptyHolds DEF Init, Screen, Texts, ScreenFollowsQueue, Queued
  <1>2. IInv /\ IInv' /\ Screen /\ [Next]_vars => Screen'
    BY ScreenStep
  <1>3. Screen => ScreenFollowsQueue
    BY DEF Screen
  <1> QED BY <1>1, <1>2, <1>3, InterceptInvariant, PTL DEF Spec

-----------------------------------------------------------------------------
(* The line: posted decisions, those in hand, and the queue. *)

\* Who is before whom in two sequences, one after the other.
LEMMA ConcatBefore ==
    ASSUME NEW s \in Seq(Req), NEW t \in Seq(Req), NEW a, NEW b
    PROVE  /\ s \o t \in Seq(Req)
           /\ Occurs(s \o t, b) <=> Occurs(s, b) \/ Occurs(t, b)
           /\ Before(s \o t, a, b) <=>
                Before(s, a, b) \/ Before(t, a, b) \/ (Occurs(s, a) /\ Occurs(t, b))
  <1> DEFINE u == s \o t
             m == Len(s)
             n == Len(t)
  <1>1. /\ u \in Seq(Req) /\ m \in Nat /\ n \in Nat
        /\ DOMAIN s = 1 .. m /\ DOMAIN t = 1 .. n /\ DOMAIN u = 1 .. (m + n)
        /\ \A i \in 1 .. m : u[i] = s[i]
        /\ \A i \in 1 .. n : u[m + i] = t[i]
    OBVIOUS
  <1> HIDE DEF u, m, n
  <1>2. \A i \in 1 .. m : i \in 1 .. (m + n)
    BY <1>1
  <1>3. \A i \in 1 .. n : m + i \in 1 .. (m + n) /\ m + i > m
    BY <1>1
  <1>4. \A i \in 1 .. (m + n) :
           \/ i \in 1 .. m
           \/ i > m /\ i - m \in 1 .. n /\ u[i] = t[i - m]
    <2> SUFFICES ASSUME NEW i \in 1 .. (m + n), i \notin 1 .. m
                 PROVE  i > m /\ i - m \in 1 .. n /\ u[i] = t[i - m]
      OBVIOUS
    <2>1. i > m /\ i - m \in 1 .. n /\ m + (i - m) = i
      BY <1>1
    <2> QED BY <1>1, <2>1
  <1>5. \A x : Occurs(u, x) <=> Occurs(s, x) \/ Occurs(t, x)
    <2> TAKE x
    <2>1. ASSUME Occurs(u, x) PROVE Occurs(s, x) \/ Occurs(t, x)
      BY <1>1, <1>4, <2>1 DEF Occurs
    <2>2. ASSUME Occurs(s, x) PROVE Occurs(u, x)
      BY <1>1, <1>2, <2>2 DEF Occurs
    <2>3. ASSUME Occurs(t, x) PROVE Occurs(u, x)
      BY <1>1, <1>3, <2>3 DEF Occurs
    <2> QED BY <2>1, <2>2, <2>3
  <1>6. ASSUME Before(u, a, b)
        PROVE  Before(s, a, b) \/ Before(t, a, b) \/ (Occurs(s, a) /\ Occurs(t, b))
    <2>1. PICK i \in 1 .. (m + n), j \in 1 .. (m + n) : i < j /\ u[i] = a /\ u[j] = b
      BY <1>1, <1>6 DEF Before
    <2>2. CASE j \in 1 .. m
      <3>1. i \in 1 .. m
        BY <1>1, <2>1, <2>2
      <3> QED BY <1>1, <2>1, <2>2, <3>1 DEF Before
    <2>3. CASE j \notin 1 .. m
      <3>1. j - m \in 1 .. n /\ t[j - m] = b
        BY <1>4, <2>1, <2>3
      <3>2. CASE i \in 1 .. m
        BY <1>1, <2>1, <3>1, <3>2 DEF Occurs
      <3>3. CASE i \notin 1 .. m
        <4>1. i - m \in 1 .. n /\ t[i - m] = a /\ i - m < j - m
          BY <1>1, <1>4, <2>1, <3>3
        <4> QED BY <1>1, <3>1, <4>1 DEF Before
      <3> QED BY <3>2, <3>3
    <2> QED BY <2>2, <2>3
  <1>7. ASSUME Before(s, a, b) PROVE Before(u, a, b)
    BY <1>1, <1>2, <1>7 DEF Before
  <1>8. ASSUME Before(t, a, b) PROVE Before(u, a, b)
    <2>1. PICK i \in 1 .. n, j \in 1 .. n : i < j /\ t[i] = a /\ t[j] = b
      BY <1>1, <1>8 DEF Before
    <2>2. m + i < m + j /\ u[m + i] = a /\ u[m + j] = b
      BY <1>1, <2>1
    <2> QED BY <1>1, <1>3, <2>1, <2>2 DEF Before
  <1>9. ASSUME Occurs(s, a), Occurs(t, b) PROVE Before(u, a, b)
    <2>1. PICK i \in 1 .. m, j \in 1 .. n : s[i] = a /\ t[j] = b
      BY <1>1, <1>9 DEF Occurs
    <2>2. i < m + j /\ u[i] = a /\ u[m + j] = b
      BY <1>1, <2>1
    <2> QED BY <1>1, <1>2, <1>3, <2>1, <2>2 DEF Before
  <1>10. u \in Seq(Req) /\ (Occurs(u, b) <=> Occurs(s, b) \/ Occurs(t, b))
    BY <1>1, <1>5
  <1>11. Before(u, a, b) <=>
            Before(s, a, b) \/ Before(t, a, b) \/ (Occurs(s, a) /\ Occurs(t, b))
    BY <1>6, <1>7, <1>8, <1>9
  <1> QED BY <1>10, <1>11 DEF u

\* The line in three parts.
LEMMA LineParts ==
    ASSUME NEW p \in Seq(Req), NEW h \in Seq(Req), NEW q \in Seq(Req), NEW a, NEW b
    PROVE  /\ Occurs(p \o h \o q, b) <=> Occurs(p, b) \/ Occurs(h, b) \/ Occurs(q, b)
           /\ Before(p \o h \o q, a, b) <=>
                \/ Before(p, a, b) \/ Before(h, a, b) \/ Before(q, a, b)
                \/ Occurs(p, a) /\ Occurs(h, b)
                \/ Occurs(p, a) /\ Occurs(q, b)
                \/ Occurs(h, a) /\ Occurs(q, b)
  <1>1. /\ p \o h \in Seq(Req)
        /\ \A x : Occurs(p \o h, x) <=> Occurs(p, x) \/ Occurs(h, x)
        /\ Before(p \o h, a, b) <=>
             Before(p, a, b) \/ Before(h, a, b) \/ (Occurs(p, a) /\ Occurs(h, b))
    BY ConcatBefore
  <1>2. PICK u : u = p \o h
    OBVIOUS
  <1>3. /\ Occurs(u \o q, b) <=> Occurs(u, b) \/ Occurs(q, b)
        /\ Before(u \o q, a, b) <=>
             Before(u, a, b) \/ Before(q, a, b) \/ (Occurs(u, a) /\ Occurs(q, b))
    <2>1. u \in Seq(Req)
      BY <1>1, <1>2
    <2>2. Occurs(u \o q, b) <=> Occurs(u, b) \/ Occurs(q, b)
      BY <2>1, ConcatBefore
    <2>3. Before(u \o q, a, b) <=>
             Before(u, a, b) \/ Before(q, a, b) \/ (Occurs(u, a) /\ Occurs(q, b))
      BY <2>1, ConcatBefore
    <2> QED BY <2>2, <2>3
  <1> QED BY <1>1, <1>2, <1>3

\* One element, and the ends of a sequence.
LEMMA OneBefore ==
    ASSUME NEW e \in Req, NEW o, o = <<e>>, NEW a, NEW b
    PROVE  o \in Seq(Req) /\ (Occurs(o, a) <=> a = e) /\ ~Before(o, a, b)
  <1>1. o \in Seq(Req) /\ Len(o) = 1 /\ o[1] = e /\ DOMAIN o = 1 .. 1
    OBVIOUS
  <1> QED BY <1>1 DEF Occurs, Before

LEMMA AppendBefore ==
    ASSUME NEW s \in Seq(Req), NEW e \in Req, NEW a, NEW b
    PROVE  Before(Append(s, e), a, b) <=> Before(s, a, b) \/ (Occurs(s, a) /\ b = e)
  <1>1. PICK o : o = <<e>>
    OBVIOUS
  <1>2. Append(s, e) = s \o o
    BY <1>1
  <1>3. o \in Seq(Req) /\ (Occurs(o, b) <=> b = e) /\ ~Before(o, a, b)
    BY <1>1, OneBefore
  <1>4. Before(s \o o, a, b) <=>
           Before(s, a, b) \/ Before(o, a, b) \/ (Occurs(s, a) /\ Occurs(o, b))
    BY <1>3, ConcatBefore
  <1> QED BY <1>2, <1>3, <1>4

LEMMA HeadBefore ==
    ASSUME NEW s \in Seq(Req), s # <<>>, NEW a, NEW b
    PROVE  /\ Tail(s) \in Seq(Req)
           /\ Occurs(s, b) <=> b = Head(s) \/ Occurs(Tail(s), b)
           /\ Before(s, a, b) <=> Before(Tail(s), a, b) \/ (a = Head(s) /\ Occurs(Tail(s), b))
  <1>1. PICK e \in Req : e = Head(s)
    OBVIOUS
  <1>2. PICK t \in Seq(Req) : t = Tail(s)
    <2>1. Tail(s) \in Seq(Req)
      OBVIOUS
    <2> QED BY <2>1
  <1>3. PICK o : o = <<e>>
    OBVIOUS
  <1>4. s = o \o t
    BY <1>1, <1>2, <1>3
  <1>5. /\ o \in Seq(Req) /\ (Occurs(o, a) <=> a = e) /\ (Occurs(o, b) <=> b = e)
        /\ ~Before(o, a, b)
    BY <1>3, OneBefore
  <1>6. /\ Occurs(o \o t, b) <=> Occurs(o, b) \/ Occurs(t, b)
        /\ Before(o \o t, a, b) <=>
             Before(o, a, b) \/ Before(t, a, b) \/ (Occurs(o, a) /\ Occurs(t, b))
    BY <1>5, ConcatBefore
  <1> QED BY <1>1, <1>2, <1>4, <1>5, <1>6

\* removeById keeps the order of the others.
LEMMA WithoutBefore ==
    ASSUME NEW q \in Seq(Req), NEW r \in Req, Distinct(q), Occurs(q, r), NEW a, NEW b,
           Before(Without(q, r), a, b)
    PROVE  Before(q, a, b)
  <1>1. PICK i \in DOMAIN q :
           Without(q, r) = [j \in 1 .. (Len(q) - 1) |-> IF j < i THEN q[j] ELSE q[j + 1]]
    BY WithoutElements
  <1>2. PICK w : w = Without(q, r)
    OBVIOUS
  <1>3. Len(q) \in Nat /\ DOMAIN q = 1 .. Len(q) /\ i \in 1 .. Len(q)
    OBVIOUS
  <1>4. /\ DOMAIN w = 1 .. (Len(q) - 1)
        /\ \A j \in 1 .. (Len(q) - 1) : w[j] = IF j < i THEN q[j] ELSE q[j + 1]
    BY <1>1, <1>2
  <1>5. PICK j \in 1 .. (Len(q) - 1), k \in 1 .. (Len(q) - 1) : j < k /\ w[j] = a /\ w[k] = b
    BY <1>2, <1>4 DEF Before
  <1>6. PICK x \in 1 .. Len(q) : x = (IF j < i THEN j ELSE j + 1) /\ q[x] = a
    BY <1>3, <1>4, <1>5
  <1>7. PICK y \in 1 .. Len(q) : y = (IF k < i THEN k ELSE k + 1) /\ q[y] = b
    BY <1>3, <1>4, <1>5
  <1>8. x < y
    BY <1>3, <1>5, <1>6, <1>7
  <1> QED BY <1>3, <1>6, <1>7, <1>8 DEF Before

\* The parts of the line, and of the next one.
LEMMA NoOvertakingStep ==
    ASSUME IInv, [Next]_vars, NEW a \in Req, NEW b \in Req, Before(Line', a, b), Occurs(Line, b)
    PROVE  Before(Line, a, b)
  <1>1. PICK p : p = ReqsOf(posted)
    OBVIOUS
  <1>2. PICK h : h = ReqsOf(hand)
    OBVIOUS
  <1>3. PICK p2 : p2 = ReqsOf(posted')
    OBVIOUS
  <1>4. PICK h2 : h2 = ReqsOf(hand')
    OBVIOUS
  <1>5. Line = p \o h \o queue /\ Line' = p2 \o h2 \o queue'
    BY <1>1, <1>2, <1>3, <1>4 DEF Line
  <1>6. /\ IInv' /\ posted \in Seq(Decision) /\ posted' \in Seq(Decision)
        /\ hand \in Seq(Decision) /\ hand' \in Seq(Decision)
        /\ queue \in Seq(Req) /\ queue' \in Seq(Req) /\ Distinct(queue)
    BY InvStep DEF IInv, TypeOK, OneWayOut
  <1>7. p \in Seq(Req) /\ h \in Seq(Req) /\ p2 \in Seq(Req) /\ h2 \in Seq(Req)
    BY <1>1, <1>2, <1>3, <1>4, <1>6, ReqsOfSteps
  <1>8. /\ Occurs(p, b) \/ Occurs(h, b) \/ Occurs(queue, b)
        /\ \/ Before(p2, a, b) \/ Before(h2, a, b) \/ Before(queue', a, b)
           \/ Occurs(p2, a) /\ Occurs(h2, b)
           \/ Occurs(p2, a) /\ Occurs(queue', b)
           \/ Occurs(h2, a) /\ Occurs(queue', b)
    BY <1>5, <1>6, <1>7, LineParts
  <1> DEFINE Order == \/ Before(p, a, b) \/ Before(h, a, b) \/ Before(queue, a, b)
                      \/ Occurs(p, a) /\ Occurs(h, b)
                      \/ Occurs(p, a) /\ Occurs(queue, b)
                      \/ Occurs(h, a) /\ Occurs(queue, b)
  <1>9. SUFFICES Order
    BY <1>5, <1>6, <1>7, LineParts
  <1>10. \A x, y : ~Occurs(<<>>, x) /\ ~Before(<<>>, x, y)
    BY EmptyHolds DEF Before
  <1>11. CASE UNCHANGED <<queue, hand, posted>>
    BY <1>1, <1>2, <1>3, <1>4, <1>8, <1>11
  <1>12. ASSUME NEW r \in Req, Close(r) PROVE Order
    <2>1. p2 = p /\ h2 = h
      BY <1>1, <1>2, <1>3, <1>4, <1>12 DEF Close, uiVars
    <2>2. CASE Queued(r)
      <3>1. queue' = Without(queue, r)
        BY <1>12, <2>2 DEF Close
      <3>2. /\ Before(queue', a, b) => Before(queue, a, b)
            /\ Occurs(queue', b) => Occurs(queue, b)
        BY <1>6, <2>2, <3>1, WithoutBefore, WithoutElements DEF Queued
      <3> QED BY <1>8, <2>1, <3>2
    <2>3. CASE ~Queued(r)
      <3>1. queue' = queue
        BY <1>12, <2>3 DEF Close
      <3> QED BY <1>8, <2>1, <3>1
    <2> QED BY <2>2, <2>3
  <1>13. CASE Enqueue
    <2>1. p2 = p /\ h2 = h /\ queue' = Append(queue, netReq)
      BY <1>1, <1>2, <1>3, <1>4, <1>13 DEF Enqueue, uiVars
    <2>2. netReq \in Req /\ sess[netReq] = "arriving"
      BY <1>13 DEF Enqueue, IInv, TypeOK, PcInv
    <2>3. ~Queued(netReq) /\ ~OnItsWay(netReq)
      BY <2>2 DEF IInv, OneWayOut
    <2>4. b # netReq
      BY <1>1, <1>2, <1>8, <2>3 DEF Queued, OnItsWay, InHand, InPosted
    <2>5. /\ Before(queue', a, b) => Before(queue, a, b)
          /\ Occurs(queue', b) => Occurs(queue, b)
      BY <1>6, <2>1, <2>2, <2>4, AppendBefore, AppendElements
    <2> QED BY <1>8, <2>1, <2>5
  <1>14. CASE Resume
    <2>1. h2 = h /\ queue' = queue /\ p # <<>> /\ p2 = Tail(p)
      BY <1>1, <1>2, <1>3, <1>4, <1>6, <1>14, ReqsOfSteps DEF Resume, uiVars
    <2>2. /\ Before(p2, a, b) => Before(p, a, b)
          /\ Occurs(p2, a) => Occurs(p, a)
      BY <1>7, <2>1, HeadBefore
    <2> QED BY <1>8, <2>1, <2>2
  <1>15. ASSUME NEW act, TakeFront(act), uiPc # "deliver" PROVE Order
    <2>1. CASE queue = <<>>
      <3>1. UNCHANGED <<queue, hand, posted>>
        BY <1>15, <2>1 DEF TakeFront
      <3> QED BY <1>11, <3>1
    <2>2. CASE queue # <<>>
      <3>1. /\ p2 = p /\ hand = <<>> /\ queue' = Tail(queue)
            /\ hand' = <<[req |-> Head(queue), act |-> act]>>
        BY <1>1, <1>3, <1>15, <2>2 DEF TakeFront, IInv, PcInv
      <3>2. Head(queue) \in Req
        BY <1>6, <2>2
      <3>3. h2 = <<Head(queue)>>
        BY <1>4, <3>1 DEF ReqsOf
      <3>4. /\ Occurs(h2, a) <=> a = Head(queue)
            /\ Occurs(h2, b) <=> b = Head(queue)
            /\ ~Before(h2, a, b)
        BY <3>2, <3>3, OneBefore
      <3>5. /\ Occurs(queue, b) <=> b = Head(queue) \/ Occurs(queue', b)
            /\ Before(queue, a, b) <=>
                 Before(queue', a, b) \/ (a = Head(queue) /\ Occurs(queue', b))
        BY <1>6, <2>2, <3>1, HeadBefore
      <3> QED BY <1>8, <3>1, <3>4, <3>5
    <2> QED BY <2>1, <2>2
  <1>16. ASSUME NEW act, TakeAll(act), uiPc # "deliver" PROVE Order
    <2>1. p2 = p /\ hand = <<>> /\ queue' = <<>>
      BY <1>1, <1>3, <1>16 DEF TakeAll, IInv, PcInv
    <2>2. h2 = queue
      <3>1. hand' = [i \in 1 .. Len(queue) |-> [req |-> queue[i], act |-> act]]
        BY <1>16 DEF TakeAll
      <3>2. Len(hand') = Len(queue)
        BY <1>6, <3>1
      <3>3. \A i \in 1 .. Len(queue) : hand'[i].req = queue[i]
        BY <3>1
      <3> QED BY <1>4, <1>6, <3>2, <3>3 DEF ReqsOf
    <2> QED BY <1>8, <1>10, <2>1, <2>2
  <1>17. CASE Deliver
    <2>1. hand # <<>> /\ queue' = queue /\ hand' = Tail(hand) /\ posted' = Append(posted, Head(hand))
      BY <1>17 DEF Deliver, IInv, PcInv
    <2>2. PICK e \in Req : e = Head(hand).req
      BY <1>6, <2>1, ReqsOfSteps
    <2>3. h # <<>> /\ Head(h) = e /\ h2 = Tail(h) /\ p2 = Append(p, e)
      BY <1>1, <1>2, <1>3, <1>4, <1>6, <2>1, <2>2, ReqsOfSteps
    <2>4. /\ Occurs(h, a) <=> a = e \/ Occurs(h2, a)
          /\ Occurs(h, b) <=> b = e \/ Occurs(h2, b)
          /\ Before(h, a, b) <=> Before(h2, a, b) \/ (a = e /\ Occurs(h2, b))
      BY <1>7, <2>3, HeadBefore
    <2>5. /\ Occurs(p2, a) <=> Occurs(p, a) \/ a = e
          /\ Before(p2, a, b) <=> Before(p, a, b) \/ (Occurs(p, a) /\ b = e)
      BY <1>7, <2>3, AppendBefore, AppendElements
    <2> QED BY <1>8, <2>1, <2>4, <2>5
  <1>18. ASSUME NEW r \in Req, Receive(r) PROVE UNCHANGED <<queue, hand, posted>>
    BY <1>18 DEF Receive, uiVars
  <1>19. CASE \/ NetNotify \/ UiNotify \/ Render \/ Toggle \/ ForwardClick \/ DropAllClick
              \/ UNCHANGED vars
    <2>1. UNCHANGED <<queue, hand, posted>>
      BY <1>19 DEF NetNotify, UiNotify, Render, Toggle, ForwardClick, DropAllClick, vars, uiVars
    <2> QED BY <1>11, <2>1
  <1>20. CASE ForwardPop \/ DropClick
    BY <1>15, <1>20 DEF ForwardPop, DropClick, Click
  <1>21. CASE SwapOut
    BY <1>16, <1>21 DEF SwapOut
  <1> HIDE DEF Order
  <1> QED
    BY <1>11, <1>12, <1>13, <1>14, <1>17, <1>18, <1>19, <1>20, <1>21
       DEF Next, NetStep, UiStep, User

\* Decisions reach the sessions in the order in which the requests were queued:
\* pops, swaps and posts keep the line, removeById only shortens it.
THEOREM InterceptNoOvertaking == Spec => NoOvertaking
  <1>1. IInv /\ [Next]_vars =>
          [\A a, b \in Req :
              /\ Before(Line', a, b)
              /\ Occurs(Line, b)
              => Before(Line, a, b)]_vars
    BY NoOvertakingStep
  <1> QED BY <1>1, InterceptInvariant, PTL DEF Spec, NoOvertaking

-----------------------------------------------------------------------------
(* Refinement: the verdict of a request that is on its way is the one that *)
(* was decided when it was popped or swapped out.                          *)

\* The decisions made are at most one per request, and cover OnItsWay.
LEMMA DecisionsUnique ==
    ASSUME IInv
    PROVE  /\ DecisionsMade \subseteq Decision
           /\ \A d, e \in DecisionsMade : d.req = e.req => d = e
           /\ \A r : OnItsWay(r) <=> \E d \in DecisionsMade : d.req = r
  <1>1. /\ hand \in Seq(Decision) /\ posted \in Seq(Decision)
        /\ DOMAIN hand = 1 .. Len(hand) /\ DOMAIN posted = 1 .. Len(posted)
        /\ \A i \in DOMAIN hand : hand[i] \in Decision
        /\ \A i \in DOMAIN posted : posted[i] \in Decision
    BY DEF IInv, TypeOK
  <1>2. DecisionsMade \subseteq Decision
    BY <1>1 DEF DecisionsMade
  <1>3. \A d \in Decision : d.req \in Req
    BY DEF Decision
  <1>4. ASSUME NEW r PROVE /\ InHand(r) <=> \E i \in DOMAIN hand : hand[i].req = r
                           /\ InPosted(r) <=> \E i \in DOMAIN posted : posted[i].req = r
    BY <1>1 DEF InHand, InPosted, Occurs, ReqsOf
  <1>5. \A i, j \in DOMAIN hand : hand[i].req = hand[j].req => i = j
    BY <1>1 DEF IInv, OneWayOut, Distinct, ReqsOf
  <1>6. \A i, j \in DOMAIN posted : posted[i].req = posted[j].req => i = j
    BY <1>1 DEF IInv, OneWayOut, Distinct, ReqsOf
  <1>7. \A r \in Req : ~(InHand(r) /\ InPosted(r))
    BY DEF IInv, OneWayOut
  <1>8. \A d, e \in DecisionsMade : d.req = e.req => d = e
    BY <1>1, <1>3, <1>4, <1>5, <1>6, <1>7 DEF DecisionsMade
  <1>9. \A r : OnItsWay(r) <=> \E d \in DecisionsMade : d.req = r
    BY <1>4 DEF OnItsWay, DecisionsMade
  <1> QED BY <1>2, <1>8, <1>9

\* DecisionFor picks the one decision made about r.
LEMMA DecisionForUnique ==
    ASSUME NEW M \in SUBSET Decision, NEW d \in M,
           \A e, f \in M : e.req = f.req => e = f
    PROVE  (CHOOSE e \in M : e.req = d.req).act = d.act
  OBVIOUS

\* The verdict of every request, case by case.
VerdictCorrect ==
    /\ Verdict = [r \in Req |-> Verdict[r]]
    /\ \A r \in Req :
        /\ sess[r] \in {"new", "arriving"} => Verdict[r] = "new"
        /\ sess[r] = "closed" => Verdict[r] = "gone"
        /\ sess[r] \in {"forward", "drop"} => Verdict[r] = sess[r]
        /\ Queued(r) <=> Verdict[r] = "held"
        /\ sess[r] = "paused" /\ ~Queued(r) =>
              \E d \in DecisionsMade : d.req = r /\ Verdict[r] = d.act
        /\ \A d \in DecisionsMade :
              d.req = r /\ sess[r] = "paused" => ~Queued(r) /\ Verdict[r] = d.act

LEMMA VerdictOfOne ==
    ASSUME IInv, NEW r \in Req
    PROVE  /\ sess[r] \in {"new", "arriving"} => Verdict[r] = "new"
           /\ sess[r] = "closed" => Verdict[r] = "gone"
           /\ sess[r] \in {"forward", "drop"} => Verdict[r] = sess[r]
           /\ Queued(r) <=> Verdict[r] = "held"
           /\ sess[r] = "paused" /\ ~Queued(r) =>
                 \E d \in DecisionsMade : d.req = r /\ Verdict[r] = d.act
           /\ \A d \in DecisionsMade :
                 d.req = r /\ sess[r] = "paused" => ~Queued(r) /\ Verdict[r] = d.act
  <1>1. sess[r] \in SessStates
    BY DEF IInv, TypeOK
  <1>2. Verdict[r] = CASE sess[r] \in {"new", "arriving"} -> "new"
                       [] sess[r] = "closed"              -> "gone"
                       [] sess[r] \in {"forward", "drop"} -> sess[r]
                       [] OTHER -> IF Queued(r) THEN "held" ELSE DecisionFor(r)
    BY DEF Verdict
  <1>3. Queued(r) => sess[r] = "paused" /\ ~OnItsWay(r)
    BY DEF IInv, OneWayOut
  <1>4. ASSUME NEW d \in DecisionsMade, d.req = r
        PROVE  ~Queued(r) /\ DecisionFor(r) = d.act /\ d.act \in {"forward", "drop"}
    <2>1. DecisionFor(r) = d.act
      BY <1>4, DecisionsUnique, DecisionForUnique DEF DecisionFor
    <2>2. d.act \in {"forward", "drop"}
      BY DecisionsUnique DEF Decision
    <2>3. OnItsWay(r)
      BY <1>4, DecisionsUnique
    <2> QED BY <1>3, <2>1, <2>2, <2>3
  <1>5. sess[r] = "paused" /\ ~Queued(r) => \E d \in DecisionsMade : d.req = r
    BY DecisionsUnique DEF IInv, OneWayOut
  <1>6. \A d \in DecisionsMade :
           d.req = r /\ sess[r] = "paused" => ~Queued(r) /\ Verdict[r] = d.act
    BY <1>2, <1>4
  <1>7. Queued(r) => Verdict[r] = "held"
    BY <1>2, <1>3
  <1>8. Verdict[r] = "held" => Queued(r)
    BY <1>1, <1>2, <1>4, <1>5 DEF SessStates
  <1> QED BY <1>2, <1>5, <1>6, <1>7, <1>8

LEMMA VerdictCases == IInv => VerdictCorrect
  <1>1. Verdict = [r \in Req |-> Verdict[r]]
    BY DEF Verdict
  <1> QED BY <1>1, VerdictOfOne DEF VerdictCorrect

LEMMA VerdictCasesNext == IInv' => VerdictCorrect'
  BY VerdictCases, PTL

\* A step that keeps what is made and held keeps every verdict.
LEMMA VerdictUnchanged ==
    ASSUME sess' = sess, queue' = queue, DecisionsMade' = DecisionsMade
    PROVE  UNCHANGED <<queue, Verdict>>
  BY DEF Verdict, Queued, DecisionFor

\* Receive: nothing happens to the gate, or the request passes.
LEMMA ReceiveRefines ==
    ASSUME IInv, IInv', VerdictCorrect, VerdictCorrect', NEW r \in Req, Receive(r)
    PROVE  Gate!PassThrough(r) \/ UNCHANGED <<queue, Verdict>>
  <1> USE DEF Receive, netVars, uiVars, viewVars
  <1>1. sess[r] = "new" /\ Verdict[r] = "new"
    BY DEF VerdictCorrect
  <1>2. /\ \A x \in Req : x # r => sess'[x] = sess[x]
        /\ sess'[r] = IF enabled THEN "arriving" ELSE "forward"
        /\ UNCHANGED <<queue, DecisionsMade>>
    BY DEF IInv, TypeOK, DecisionsMade
  <1>3. \A x \in Req : x # r => Verdict'[x] = Verdict[x]
    BY <1>2 DEF Verdict, Queued, DecisionFor
  <1>4. Verdict'[r] = IF enabled THEN "new" ELSE "forward"
    BY <1>2 DEF VerdictCorrect
  <1>5. CASE enabled
    <2>1. Verdict' = Verdict
      BY <1>1, <1>3, <1>4, <1>5 DEF VerdictCorrect
    <2> QED BY <1>2, <2>1
  <1>6. CASE ~enabled
    <2>1. Verdict' = [Verdict EXCEPT ![r] = "forward"]
      BY <1>3, <1>4, <1>6 DEF VerdictCorrect
    <2> QED BY <1>1, <1>2, <2>1 DEF Gate!PassThrough
  <1> QED BY <1>5, <1>6

\* Enqueue: the critical section of interceptRequest holds the request.
LEMMA EnqueueRefines ==
    ASSUME IInv, IInv', VerdictCorrect, VerdictCorrect', Enqueue
    PROVE  netReq \in Req /\ Gate!Hold(netReq)
  <1> USE DEF Enqueue, uiVars, viewVars
  <1>1. netReq \in Req /\ sess[netReq] = "arriving" /\ Verdict[netReq] = "new"
    BY DEF IInv, TypeOK, PcInv, VerdictCorrect
  <1>2. /\ \A x \in Req : x # netReq => sess'[x] = sess[x]
        /\ UNCHANGED DecisionsMade
    BY DEF IInv, TypeOK, DecisionsMade
  <1>3. /\ \A x : Occurs(queue', x) <=> Occurs(queue, x) \/ x = netReq
    BY <1>1, AppendElements DEF IInv, TypeOK
  <1>4. \A x \in Req : x # netReq => Verdict'[x] = Verdict[x]
    BY <1>2, <1>3 DEF Verdict, Queued, DecisionFor
  <1>5. Verdict'[netReq] = "held"
    BY <1>1, <1>3 DEF VerdictCorrect, Queued
  <1>6. Verdict' = [Verdict EXCEPT ![netReq] = "held"]
    BY <1>1, <1>4, <1>5 DEF VerdictCorrect
  <1> QED BY <1>1, <1>6 DEF Gate!Hold

\* Resume: acting on a decision changes no verdict.
LEMMA ResumeRefines ==
    ASSUME IInv, IInv', VerdictCorrect, VerdictCorrect', Resume
    PROVE  UNCHANGED <<queue, Verdict>>
  <1> USE DEF Resume, netVars, uiVars, viewVars
  <1> DEFINE d == Head(posted)
  <1>1. d \in DecisionsMade /\ d.req \in Req /\ d.act \in {"forward", "drop"}
    <2>1. 1 \in DOMAIN posted /\ d = posted[1] /\ d \in Decision
      BY DEF IInv, TypeOK
    <2> QED BY <2>1 DEF DecisionsMade, Decision
  <1>2. sess[d.req] \in {"paused", "closed"} /\ ~Queued(d.req)
    BY <1>1, DecisionsUnique DEF IInv, OneWayOut
  <1>3. /\ \A x \in Req : x # d.req => sess'[x] = sess[x]
        /\ sess'[d.req] = IF sess[d.req] = "closed" THEN "closed" ELSE d.act
    BY <1>1, <1>2 DEF IInv, TypeOK
  <1>4. DecisionsMade' \subseteq DecisionsMade
    <2>1. \A i \in DOMAIN posted' : \E j \in DOMAIN posted : posted'[i] = posted[j]
      BY DEF IInv, TypeOK
    <2> QED BY <2>1 DEF DecisionsMade
  <1>5. ASSUME NEW x \in Req, x # d.req PROVE Verdict'[x] = Verdict[x]
    <2>1. CASE sess[x] = "paused" /\ ~Queued(x)
      <3>1. sess'[x] = "paused" /\ ~Queued(x)'
        BY <1>3, <1>5, <2>1 DEF Queued
      <3>2. PICK e \in DecisionsMade' : e.req = x /\ Verdict'[x] = e.act
        BY <3>1 DEF VerdictCorrect
      <3> QED BY <1>4, <2>1, <3>2 DEF VerdictCorrect
    <2>2. CASE ~(sess[x] = "paused" /\ ~Queued(x))
      <3>1. sess[x] \in SessStates /\ sess'[x] = sess[x] /\ (Queued(x)' <=> Queued(x))
        BY <1>3, <1>5 DEF IInv, TypeOK, Queued
      <3> QED BY <2>2, <3>1 DEF VerdictCorrect, SessStates
    <2> QED BY <2>1, <2>2
  <1>6. Verdict'[d.req] = Verdict[d.req]
    BY <1>1, <1>2, <1>3 DEF VerdictCorrect
  <1>7. Verdict' = Verdict
    BY <1>5, <1>6 DEF VerdictCorrect
  <1> QED BY <1>7

\* Close: the gate lets go of the request.
LEMMA CloseRefines ==
    ASSUME IInv, IInv', VerdictCorrect, VerdictCorrect', NEW r \in Req, Close(r)
    PROVE  Gate!Leave(r)
  <1> USE DEF Close, uiVars, viewVars
  <1>1. /\ sess'[r] = "closed"
        /\ \A x \in Req : x # r => sess'[x] = sess[x]
        /\ UNCHANGED DecisionsMade
    BY DEF IInv, TypeOK, DecisionsMade
  <1>2. Verdict[r] \notin {"new", "gone"}
    <2>1. CASE sess[r] = "paused" /\ ~Queued(r)
      BY <2>1, DecisionsUnique DEF VerdictCorrect, Decision
    <2>2. CASE ~(sess[r] = "paused" /\ ~Queued(r))
      BY <2>2 DEF VerdictCorrect
    <2> QED BY <2>1, <2>2
  <1>3. ASSUME NEW x \in Req, x # r PROVE Verdict'[x] = Verdict[x]
    <2>1. Queued(x)' <=> Queued(x)
      <3>1. CASE Queued(r)
        BY <1>3, <3>1, WithoutElements DEF IInv, TypeOK, OneWayOut, Queued
      <3>2. CASE ~Queued(r)
        BY <3>2 DEF Queued
      <3> QED BY <3>1, <3>2
    <2> QED BY <1>1, <1>3, <2>1 DEF Verdict, DecisionFor
  <1>4. Verdict'[r] = "gone"
    BY <1>1 DEF VerdictCorrect
  <1>5. Verdict' = [Verdict EXCEPT ![r] = "gone"]
    BY <1>3, <1>4 DEF VerdictCorrect
  <1>6. Gate!Held(r) <=> Queued(r)
    BY DEF Gate!Held, Queued, Occurs
  <1>7. CASE Queued(r)
    <2>1. queue \in Seq(Req) /\ Distinct(queue) /\ Occurs(queue, r)
      BY <1>7 DEF IInv, TypeOK, OneWayOut, Queued
    <2>2. \E i \in DOMAIN queue :
             /\ queue[i] = r
             /\ Without(queue, r) = [j \in 1 .. (Len(queue) - 1) |->
                                       IF j < i THEN queue[j] ELSE queue[j + 1]]
      BY <2>1, WithoutElements
    <2>3. queue' = Without(queue, r)
      BY <1>7
    <2> QED BY <1>2, <1>5, <1>6, <1>7, <2>2, <2>3 DEF Gate!Leave
  <1>8. CASE ~Queued(r)
    BY <1>2, <1>5, <1>6, <1>8 DEF Gate!Leave
  <1> QED BY <1>7, <1>8

\* TakeFront: the pop decides the front, or finds nothing held.
LEMMA TakeFrontRefines ==
    ASSUME IInv, IInv', VerdictCorrect, VerdictCorrect', uiPc # "deliver",
           NEW act \in {"forward", "drop"}, TakeFront(act)
    PROVE  Gate!DecideFront(act) \/ UNCHANGED <<queue, Verdict>>
  <1> USE DEF TakeFront, netVars, viewVars
  <1>1. CASE queue = <<>>
    BY <1>1, VerdictUnchanged DEF DecisionsMade
  <1>2. CASE queue # <<>>
    <2> DEFINE r == Head(queue)
    <2>1. /\ queue \in Seq(Req) /\ Distinct(queue)
      BY DEF IInv, TypeOK, OneWayOut
    <2>2. /\ r \in Req /\ Occurs(queue, r)
          /\ \A x : Occurs(Tail(queue), x) <=> Occurs(queue, x) /\ x # r
      BY <1>2, <2>1, TailElements
    <2>3. queue' = Tail(queue) /\ sess' = sess /\ posted' = posted
          /\ hand' = <<[req |-> r, act |-> act]>>
      BY <1>2
    <2>4. hand = <<>>
      BY DEF IInv, PcInv
    <2>5. DecisionsMade' = DecisionsMade \cup {[req |-> r, act |-> act]}
      BY <2>3, <2>4 DEF DecisionsMade
    <2> HIDE DEF r
    <2>6. sess[r] = "paused" /\ ~Occurs(queue', r)
      BY <2>2, <2>3 DEF IInv, OneWayOut, Queued
    <2>7. Verdict'[r] = act
      BY <2>2, <2>3, <2>5, <2>6 DEF VerdictCorrect
    <2>8. ASSUME NEW x \in Req, x # r PROVE Verdict'[x] = Verdict[x]
      <3>1. sess[x] \in SessStates /\ sess'[x] = sess[x] /\ (Queued(x)' <=> Queued(x))
        BY <2>2, <2>3, <2>8 DEF IInv, TypeOK, Queued
      <3>2. CASE sess[x] = "paused" /\ ~Queued(x)
        BY <2>5, <3>1, <3>2 DEF VerdictCorrect
      <3>3. CASE ~(sess[x] = "paused" /\ ~Queued(x))
        BY <3>1, <3>3 DEF VerdictCorrect, SessStates
      <3> QED BY <3>2, <3>3
    <2>9. Verdict' = [Verdict EXCEPT ![r] = act]
      BY <2>7, <2>8 DEF VerdictCorrect
    <2> QED BY <1>2, <2>3, <2>9 DEF Gate!DecideFront, r
  <1> QED BY <1>1, <1>2

\* TakeAll: the swap decides everything held.
LEMMA TakeAllRefines ==
    ASSUME IInv, IInv', VerdictCorrect, VerdictCorrect', uiPc # "deliver",
           NEW act \in {"forward", "drop"}, TakeAll(act)
    PROVE  Gate!DecideAll(act)
  <1> USE DEF TakeAll, netVars, viewVars
  <1>1. hand = <<>> /\ queue \in Seq(Req)
    BY DEF IInv, PcInv, TypeOK
  <1>2. queue' = <<>> /\ sess' = sess /\ posted' = posted
        /\ hand' = [i \in 1 .. Len(queue) |-> [req |-> queue[i], act |-> act]]
    OBVIOUS
  <1>3. DecisionsMade' = DecisionsMade
                         \cup {[req |-> queue[i], act |-> act] : i \in DOMAIN queue}
    BY <1>1, <1>2 DEF DecisionsMade
  <1>4. \A x : ~Queued(x)'
    BY <1>2 DEF Queued, Occurs
  <1>5. ASSUME NEW x \in Req, Queued(x) PROVE Verdict'[x] = act
    <2>1. sess'[x] = "paused" /\ [req |-> x, act |-> act] \in DecisionsMade'
      BY <1>2, <1>3, <1>5 DEF IInv, OneWayOut, Queued, Occurs
    <2> QED BY <2>1 DEF VerdictCorrect
  <1>6. ASSUME NEW x \in Req, ~Queued(x) PROVE Verdict'[x] = Verdict[x]
    <2>1. sess[x] \in SessStates /\ sess'[x] = sess[x]
      BY <1>2 DEF IInv, TypeOK
    <2>2. CASE sess[x] = "paused"
      <3>1. PICK d \in DecisionsMade : d.req = x /\ Verdict[x] = d.act
        BY <1>6, <2>2 DEF VerdictCorrect
      <3> QED BY <1>3, <2>1, <2>2, <3>1 DEF VerdictCorrect
    <2>3. CASE sess[x] # "paused"
      BY <2>1, <2>3 DEF VerdictCorrect, SessStates
    <2> QED BY <2>2, <2>3
  <1>7. \A x : Gate!Held(x) <=> Queued(x)
    BY DEF Gate!Held, Queued, Occurs
  <1>8. Verdict' = [x \in Req |-> IF Gate!Held(x) THEN act ELSE Verdict[x]]
    BY <1>5, <1>6, <1>7 DEF VerdictCorrect
  <1> QED BY <1>2, <1>8 DEF Gate!DecideAll

\* Deliver: passing a decision on changes no verdict.
LEMMA DeliverRefines ==
    ASSUME IInv, Deliver
    PROVE  UNCHANGED <<queue, Verdict>>
  <1> USE DEF Deliver, netVars, viewVars
  <1>1. /\ hand \in Seq(Decision) /\ hand # <<>> /\ posted \in Seq(Decision)
    BY DEF IInv, TypeOK, PcInv
  <1>2. {hand[i] : i \in DOMAIN hand} = {Head(hand)} \cup {Tail(hand)[i] : i \in DOMAIN Tail(hand)}
    <2>1. /\ DOMAIN hand = 1 .. Len(hand) /\ Len(hand) \in Nat \ {0}
          /\ DOMAIN Tail(hand) = 1 .. (Len(hand) - 1)
          /\ \A i \in 1 .. (Len(hand) - 1) : Tail(hand)[i] = hand[i + 1]
          /\ Head(hand) = hand[1]
      BY <1>1
    <2> DEFINE t == Tail(hand)
    <2>2. ASSUME NEW i \in DOMAIN hand
          PROVE  hand[i] = Head(hand) \/ \E j \in DOMAIN t : t[j] = hand[i]
      <3>1. CASE i = 1
        BY <2>1, <3>1
      <3>2. CASE i # 1
        <4>1. i - 1 \in DOMAIN t /\ t[i - 1] = hand[i]
          BY <2>1, <3>2
        <4> QED BY <4>1
      <3> QED BY <3>1, <3>2
    <2>3. \A j \in DOMAIN t : \E i \in DOMAIN hand : hand[i] = t[j]
      BY <2>1
    <2>4. 1 \in DOMAIN hand /\ hand[1] = Head(hand)
      BY <2>1
    <2> HIDE DEF t
    <2>5. {hand[i] : i \in DOMAIN hand} = {Head(hand)} \cup {t[i] : i \in DOMAIN t}
      BY <2>2, <2>3, <2>4
    <2> QED BY <2>5 DEF t
  <1>3. {Append(posted, Head(hand))[i] : i \in DOMAIN Append(posted, Head(hand))}
          = {posted[i] : i \in DOMAIN posted} \cup {Head(hand)}
    <2>1. /\ DOMAIN posted = 1 .. Len(posted) /\ Len(posted) \in Nat
          /\ DOMAIN Append(posted, Head(hand)) = 1 .. (Len(posted) + 1)
          /\ \A i \in 1 .. Len(posted) : Append(posted, Head(hand))[i] = posted[i]
          /\ Append(posted, Head(hand))[Len(posted) + 1] = Head(hand)
      BY <1>1
    <2> DEFINE a == Append(posted, Head(hand))
    <2>2. DOMAIN a = DOMAIN posted \cup {Len(posted) + 1}
      BY <2>1
    <2>3. /\ \A i \in DOMAIN posted : a[i] = posted[i]
          /\ a[Len(posted) + 1] = Head(hand)
      BY <2>1
    <2> HIDE DEF a
    <2>4. {a[i] : i \in DOMAIN a} = {posted[i] : i \in DOMAIN posted} \cup {Head(hand)}
      <3>1. {a[i] : i \in DOMAIN a} = {a[i] : i \in DOMAIN posted} \cup {a[Len(posted) + 1]}
        BY ONLY <2>2
      <3>2. {a[i] : i \in DOMAIN posted} = {posted[i] : i \in DOMAIN posted}
        BY ONLY <2>3
      <3> QED BY <2>3, <3>1, <3>2
    <2> QED BY <2>4 DEF a
  <1>4. DecisionsMade' = DecisionsMade
    <2>1. hand' = Tail(hand) /\ posted' = Append(posted, Head(hand))
      OBVIOUS
    <2>2. DecisionsMade' = {Tail(hand)[i] : i \in DOMAIN Tail(hand)}
             \cup {Append(posted, Head(hand))[i] : i \in DOMAIN Append(posted, Head(hand))}
      BY <2>1 DEF DecisionsMade
    <2> HIDE DEF Deliver
    <2> QED BY <1>2, <1>3, <2>2 DEF DecisionsMade
  <1> QED BY <1>4, VerdictUnchanged

LEMMA GateInitHolds == Init => Gate!GateInit
  BY DEF Init, Gate!GateInit, Verdict

LEMMA GateStep ==
    ASSUME IInv, IInv', VerdictCorrect, VerdictCorrect', [Next]_vars
    PROVE  [Gate!GateNext]_<<queue, Verdict>>
  <1> USE DEF Gate!GateNext, Gate!Actions
  <1>1. ASSUME NEW r \in Req, Receive(r) PROVE [Gate!GateNext]_<<queue, Verdict>>
    BY <1>1, ReceiveRefines
  <1>2. ASSUME NEW r \in Req, Close(r) PROVE [Gate!GateNext]_<<queue, Verdict>>
    BY <1>2, CloseRefines
  <1>3. CASE Enqueue
    BY <1>3, EnqueueRefines
  <1>4. CASE Resume
    BY <1>4, ResumeRefines
  <1>5. CASE NetNotify \/ Toggle \/ ForwardClick \/ DropAllClick \/ UiNotify \/ Render
             \/ UNCHANGED vars
    <2>1. UNCHANGED <<queue, sess, hand, posted>>
      BY <1>5 DEF NetNotify, Toggle, ForwardClick, DropAllClick, UiNotify, Render, vars, uiVars
    <2> QED BY <2>1, VerdictUnchanged DEF DecisionsMade
  <1>6. CASE ForwardPop
    BY <1>6, TakeFrontRefines DEF ForwardPop
  <1>7. CASE DropClick
    BY <1>7, TakeFrontRefines DEF DropClick, Click
  <1>8. CASE SwapOut
    BY <1>8, TakeAllRefines DEF SwapOut
  <1>9. CASE Deliver
    BY <1>9, DeliverRefines
  <1> QED
    BY <1>1, <1>2, <1>3, <1>4, <1>5, <1>6, <1>7, <1>8, <1>9
       DEF Next, NetStep, UiStep, User

\* InterceptManager behaves as if each of its operations were one atomic step:
\* the lock-sized steps, the callbacks outside the lock and the decisions
\* posted across threads implement InterceptGate.
THEOREM InterceptImplementsGate == Spec => ImplementsGate
  <1>1. Init => Gate!GateInit
    BY GateInitHolds
  <1>2. IInv /\ IInv' /\ VerdictCorrect /\ VerdictCorrect' /\ [Next]_vars
          => [Gate!GateNext]_(Gate!gvars)
    BY GateStep DEF Gate!gvars
  <1>3. Spec => []VerdictCorrect
    BY InterceptInvariant, VerdictCases, PTL
  <1> QED
    BY <1>1, <1>2, <1>3, InterceptInvariant, PTL DEF Spec, ImplementsGate, Gate!GateSpec
=============================================================================
