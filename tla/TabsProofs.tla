------------------------------ MODULE TabsProofs ------------------------------
(***************************************************************************)
(* The two tabs that a trigger from another thread keeps up to date.       *)
(*                                                                         *)
(* History (Feed.tla), for any threads, transactions and bounds: no wakeup *)
(* is lost, nothing is lost or reordered, and the feed implements          *)
(* FeedChannel.  The argument is FlagIsBacked: a trigger that finds the    *)
(* flag set may do nothing, because an event is coming whose handler has   *)
(* not cleared the flag yet, and therefore has not drained yet either.     *)
(*                                                                         *)
(* Repeater (Repeater.tla), for every set of targets and texts and every   *)
(* number of sends: exactly one send is in flight while isSending_ is set, *)
(* and answers are stored in the order of the sends.                       *)
(***************************************************************************)
EXTENDS Feed, Repeater, SequenceTheorems, TLAPS

-----------------------------------------------------------------------------
(* The History tab *)

\* Where a thread is after a step of it, and that the others have not moved.
LEMMA GotoEffect ==
    ASSUME TypeOK, NEW t \in Thread, NEW from,
           NEW to \in {"idle", "cas", "post", "clear", "drain"},
           to \in {"clear", "drain"} => t = UI,
           Goto(t, from, to)
    PROVE  /\ pc[t] = from /\ pc'[t] = to
           /\ \A u \in Thread : u # t => pc'[u] = pc[u]
           /\ pc' \in [Thread -> {"idle", "cas", "post", "clear", "drain"}]
           /\ \A u \in Thread : pc'[u] \in {"clear", "drain"} => u = UI
  BY DEF Goto, TypeOK

\* The tab's list and the queue, one after the other, after a drain.
LEMMA PopAllEffect ==
    ASSUME TypeOK, InOrder, PopAll
    PROVE  /\ queue' \in Seq(Tx) /\ entries' \in Seq(Tx) /\ published' = published
           /\ queue' = <<>>
           /\ InOrder'
  <1>1. /\ entries \in Seq(Tx) /\ queue \in Seq(Tx)
        /\ entries' = entries \o queue /\ queue' = <<>> /\ published' = published
    BY DEF TypeOK, PopAll
  <1>2. entries \o queue \in Seq(Tx)
    BY <1>1, ConcatProperties
  <1>3. (entries \o queue) \o <<>> = entries \o queue
    BY <1>2, ConcatEmptySeq
  <1> QED BY <1>1, <1>2, <1>3 DEF InOrder

\* push appends to the whole of what was published.
LEMMA PublishEffect ==
    ASSUME TypeOK, InOrder, NEW x \in Tx, Publish(x)
    PROVE  /\ queue' \in Seq(Tx) /\ published' \in Seq(Tx)
           /\ InOrder'
  <1>1. /\ entries \in Seq(Tx) /\ queue \in Seq(Tx) /\ published \in Seq(Tx)
        /\ entries' = entries /\ queue' = Append(queue, x)
        /\ published' = Append(published, x)
    BY DEF TypeOK, Publish
  <1>2. Append(published, x) = Append(entries \o queue, x)
    BY DEF InOrder
  <1>3. Append(entries \o queue, x) = entries \o Append(queue, x)
    <2> DEFINE l == Append(entries \o queue, x)
               r == entries \o Append(queue, x)
    <2>1. /\ Append(queue, x) \in Seq(Tx) /\ Len(Append(queue, x)) = Len(queue) + 1
          /\ \A i \in 1 .. Len(queue) : Append(queue, x)[i] = queue[i]
          /\ Append(queue, x)[Len(queue) + 1] = x
          /\ Len(queue) \in Nat /\ Len(entries) \in Nat
      BY <1>1
    <2>2. /\ entries \o queue \in Seq(Tx)
          /\ Len(entries \o queue) = Len(entries) + Len(queue)
          /\ \A i \in 1 .. Len(entries) + Len(queue) : (entries \o queue)[i] =
                IF i <= Len(entries) THEN entries[i] ELSE queue[i - Len(entries)]
      BY <1>1, ConcatProperties
    <2>3. /\ r \in Seq(Tx)
          /\ Len(r) = Len(entries) + Len(queue) + 1
          /\ \A i \in 1 .. Len(entries) + Len(queue) + 1 : r[i] =
                IF i <= Len(entries) THEN entries[i] ELSE Append(queue, x)[i - Len(entries)]
      <3> DEFINE a == Append(queue, x)
      <3> HIDE DEF a
      <3>1. a \in Seq(Tx) /\ Len(a) = Len(queue) + 1
        BY <2>1 DEF a
      <3>2. /\ entries \o a \in Seq(Tx)
            /\ Len(entries \o a) = Len(entries) + Len(a)
            /\ \A i \in 1 .. Len(entries) + Len(a) : (entries \o a)[i] =
                  IF i <= Len(entries) THEN entries[i] ELSE a[i - Len(entries)]
        BY <1>1, <3>1, ConcatProperties
      <3>3. Len(entries) + Len(a) = Len(entries) + Len(queue) + 1
        BY <2>1, <3>1
      <3>4. r = entries \o a
        BY DEF a
      <3> HIDE DEF r
      <3> QED BY <3>2, <3>3, <3>4 DEF a
    <2>4. /\ l \in Seq(Tx) /\ Len(l) = Len(entries) + Len(queue) + 1
          /\ \A i \in 1 .. Len(entries) + Len(queue) : l[i] = (entries \o queue)[i]
          /\ l[Len(entries) + Len(queue) + 1] = x
      BY <2>2
    <2>5. ASSUME NEW i \in 1 .. Len(l) PROVE l[i] = r[i]
      BY <2>1, <2>2, <2>3, <2>4
    <2> HIDE DEF l, r
    <2>6. l = r
      BY <2>3, <2>4, <2>5, SeqEqual
    <2> QED BY <2>6 DEF l, r
  <1> QED BY <1>1, <1>2, <1>3 DEF InOrder

-----------------------------------------------------------------------------
LEMMA InitIInv == Init => IInv
  <1> SUFFICES ASSUME Init PROVE IInv
    OBVIOUS
  <1>1. TypeOK
    <2>1. <<>> \in Seq(Tx)
      BY EmptySeq
    <2>2. pc \in [Thread -> {"idle", "cas", "post", "clear", "drain"}]
      BY DEF Init
    <2>3. \A t \in Thread : pc[t] = "idle"
      BY DEF Init
    <2> QED BY <2>1, <2>2, <2>3 DEF Init, TypeOK
  <1>2. InOrder
    <2>1. <<>> \in Seq(Tx)
      BY EmptySeq
    <2>2. <<>> = <<>> \o <<>>
      BY <2>1, ConcatEmptySeq
    <2> QED BY <2>2 DEF Init, InOrder
  <1> QED BY <1>1, <1>2 DEF Init, IInv, FlagIsBacked, NoLostWakeup

\* Every step of a thread or of the loop keeps the invariant.
LEMMA NextIInv == IInv /\ [Next]_vars => IInv'
  <1> SUFFICES ASSUME IInv, [Next]_vars PROVE IInv'
    OBVIOUS
  <1> USE FeedAssumption
  <1>0. TypeOK /\ FlagIsBacked /\ NoLostWakeup /\ InOrder
    BY DEF IInv
  <1>1. ASSUME NEW x \in Tx, Publish(x) PROVE IInv'
    <2>1. /\ pc[Net] = "idle" /\ pc'[Net] = "cas"
          /\ \A u \in Thread : u # Net => pc'[u] = pc[u]
          /\ pc' \in [Thread -> {"idle", "cas", "post", "clear", "drain"}]
          /\ \A u \in Thread : pc'[u] \in {"clear", "drain"} => u = UI
      BY <1>0, <1>1, GotoEffect DEF Publish
    <2>2. TypeOK' /\ InOrder'
      BY <1>0, <1>1, <2>1, PublishEffect DEF TypeOK, Publish
    <2>3. FlagIsBacked'
      BY <1>0, <1>1, <2>1 DEF FlagIsBacked, Coming, Publish
    <2>4. NoLostWakeup'
      BY <2>1 DEF NoLostWakeup
    <2> QED BY <2>2, <2>3, <2>4 DEF IInv
  <1>2. ASSUME NEW t \in Thread, Notify(t) PROVE IInv'
    <2>1. /\ pc[t] = "idle" /\ pc'[t] = "cas"
          /\ \A u \in Thread : u # t => pc'[u] = pc[u]
          /\ pc' \in [Thread -> {"idle", "cas", "post", "clear", "drain"}]
          /\ \A u \in Thread : pc'[u] \in {"clear", "drain"} => u = UI
      BY <1>0, <1>2, GotoEffect DEF Notify
    <2>2. TypeOK' /\ InOrder'
      BY <1>0, <1>2, <2>1 DEF TypeOK, InOrder, Notify
    <2>3. FlagIsBacked' /\ NoLostWakeup'
      BY <1>0, <1>2, <2>1 DEF FlagIsBacked, NoLostWakeup, Coming, Notify
    <2> QED BY <2>2, <2>3 DEF IInv
  <1>3. ASSUME NEW t \in Thread, TestAndSet(t) PROVE IInv'
    <2> DEFINE to == IF updatePending THEN "idle" ELSE "post"
    <2>1. /\ pc[t] = "cas" /\ pc'[t] = to
          /\ \A u \in Thread : u # t => pc'[u] = pc[u]
          /\ pc' \in [Thread -> {"idle", "cas", "post", "clear", "drain"}]
          /\ \A u \in Thread : pc'[u] \in {"clear", "drain"} => u = UI
      BY <1>0, <1>3, GotoEffect DEF TestAndSet
    <2>2. TypeOK' /\ InOrder'
      BY <1>0, <1>3, <2>1 DEF TypeOK, InOrder, TestAndSet
    <2>3. FlagIsBacked'
      BY <1>0, <1>3, <2>1 DEF FlagIsBacked, Coming, TestAndSet
    <2>4. updatePending => Coming \/ pc[UI] = "clear"
      BY <1>0 DEF FlagIsBacked
    <2>5. NoLostWakeup'
      BY <1>3, <2>1, <2>4 DEF NoLostWakeup, Coming, TestAndSet
    <2> QED BY <2>2, <2>3, <2>5 DEF IInv
  <1>4. ASSUME NEW t \in Thread, Post(t) PROVE IInv'
    <2>1. /\ pc[t] = "post" /\ pc'[t] = "idle"
          /\ \A u \in Thread : u # t => pc'[u] = pc[u]
          /\ pc' \in [Thread -> {"idle", "cas", "post", "clear", "drain"}]
          /\ \A u \in Thread : pc'[u] \in {"clear", "drain"} => u = UI
      BY <1>0, <1>4, GotoEffect DEF Post
    <2>2. TypeOK' /\ InOrder' /\ events' > 0
      BY <1>0, <1>4, <2>1 DEF TypeOK, InOrder, Post
    <2> QED BY <2>2 DEF IInv, FlagIsBacked, NoLostWakeup, Coming
  <1>5. ASSUME SwitchTab PROVE IInv'
    <2>1. TypeOK' /\ InOrder' /\ events' > 0
      BY <1>0, <1>5 DEF TypeOK, InOrder, SwitchTab
    <2> QED BY <2>1 DEF IInv, FlagIsBacked, NoLostWakeup, Coming
  <1>6. ASSUME TakeEvent PROVE IInv'
    <2>1. /\ pc'[UI] = "clear"
          /\ pc' \in [Thread -> {"idle", "cas", "post", "clear", "drain"}]
          /\ \A u \in Thread : pc'[u] \in {"clear", "drain"} => u = UI
      BY <1>0, <1>6, GotoEffect DEF TakeEvent
    <2>2. TypeOK' /\ InOrder'
      BY <1>0, <1>6, <2>1 DEF TypeOK, InOrder, TakeEvent
    <2> QED BY <2>1, <2>2 DEF IInv, FlagIsBacked, NoLostWakeup
  <1>7. ASSUME ClearFlag PROVE IInv'
    <2>1. /\ pc'[UI] = "drain"
          /\ pc' \in [Thread -> {"idle", "cas", "post", "clear", "drain"}]
          /\ \A u \in Thread : pc'[u] \in {"clear", "drain"} => u = UI
      BY <1>0, <1>7, GotoEffect DEF ClearFlag
    <2>2. TypeOK' /\ InOrder' /\ ~updatePending'
      BY <1>0, <1>7, <2>1 DEF TypeOK, InOrder, ClearFlag
    <2> QED BY <2>1, <2>2 DEF IInv, FlagIsBacked, NoLostWakeup
  <1>8. ASSUME Drain \/ ShowHistory PROVE IInv'
    <2>1. /\ pc[UI] \in {"drain", "idle"} /\ pc'[UI] = "idle"
          /\ \A u \in Thread : u # UI => pc'[u] = pc[u]
          /\ pc' \in [Thread -> {"idle", "cas", "post", "clear", "drain"}]
          /\ \A u \in Thread : pc'[u] \in {"clear", "drain"} => u = UI
      BY <1>0, <1>8, GotoEffect DEF Drain, ShowHistory
    <2>2. /\ queue' \in Seq(Tx) /\ entries' \in Seq(Tx) /\ published' = published
          /\ queue' = <<>> /\ InOrder'
      BY <1>0, <1>8, PopAllEffect DEF Drain, ShowHistory
    <2>3. updatePending' = updatePending /\ events' = events
      BY <1>8 DEF Drain, ShowHistory, PopAll
    <2>4. TypeOK'
      BY <1>0, <2>1, <2>2, <2>3 DEF TypeOK
    <2>5. FlagIsBacked'
      BY <1>0, <2>1, <2>3 DEF FlagIsBacked, Coming
    <2> QED BY <2>2, <2>4, <2>5 DEF IInv, NoLostWakeup
  <1>9. ASSUME UNCHANGED vars PROVE IInv'
    BY <1>0, <1>9
       DEF vars, IInv, TypeOK, FlagIsBacked, NoLostWakeup, InOrder, Coming
  <1> QED
    BY <1>1, <1>2, <1>3, <1>4, <1>5, <1>6, <1>7, <1>8, <1>9
       DEF Next, Trigger, Handle

\* In every reachable state nothing is lost or reordered on the way to the
\* History tab, and whatever is still queued has a wakeup under way.
THEOREM FeedInvariant == Spec => []IInv
  <1>1. Init => IInv
    BY InitIInv
  <1>2. IInv /\ [Next]_vars => IInv'
    BY NextIInv
  <1> QED BY <1>1, <1>2, PTL DEF Spec

-----------------------------------------------------------------------------
\* The push is the abstract Publish, a drain the abstract Show, and every
\* other step leaves the list and the history of publications alone.
LEMMA StepImplementsChannel ==
    ASSUME IInv, [Next]_vars
    PROVE  [Channel!Next]_(Channel!vars)
  <1>1. ASSUME NEW x \in Tx, Publish(x) PROVE Channel!Publish
    BY <1>1 DEF Publish, Channel!Publish
  <1>2. ASSUME Drain \/ ShowHistory PROVE Channel!Show
    BY <1>2 DEF Drain, ShowHistory, PopAll, Channel!Show, IInv, InOrder
  <1>3. ASSUME NEW t \in Thread, Notify(t) \/ Trigger(t) PROVE UNCHANGED Channel!vars
    BY <1>3 DEF Notify, Trigger, TestAndSet, Post, Channel!vars
  <1>4. ASSUME SwitchTab \/ TakeEvent \/ ClearFlag PROVE UNCHANGED Channel!vars
    BY <1>4 DEF SwitchTab, TakeEvent, ClearFlag, Channel!vars
  <1>5. ASSUME UNCHANGED vars PROVE UNCHANGED Channel!vars
    BY <1>5 DEF vars, Channel!vars
  <1> QED BY <1>1, <1>2, <1>3, <1>4, <1>5 DEF Next, Handle, Channel!Next

\* The History tab shows a growing prefix of what the proxy published.
THEOREM FeedImplementsChannel == Spec => ImplementsChannel
  <1>1. Init => Channel!Init
    BY DEF Init, Channel!Init
  <1>2. IInv /\ [Next]_vars => [Channel!Next]_(Channel!vars)
    BY StepImplementsChannel
  <1> QED
    BY <1>1, <1>2, FeedInvariant, PTL DEF Spec, ImplementsChannel, Channel!Spec

-----------------------------------------------------------------------------
(* The Repeater tab *)

\* A sequence is a function on 1 .. its length, also when it is extended.
LEMMA SeqIsFunction ==
    ASSUME NEW S, NEW s \in Seq(S)
    PROVE  s \in [1 .. Len(s) -> S] /\ Len(s) \in Nat /\ DOMAIN s = 1 .. Len(s)
  OBVIOUS

\* What appending one element does, entry by entry.
LEMMA Extended ==
    ASSUME NEW S, NEW s \in Seq(S), NEW x \in S
    PROVE  /\ Append(s, x) \in Seq(S) /\ Len(Append(s, x)) = Len(s) + 1
           /\ \A i \in 1 .. Len(s) : Append(s, x)[i] = s[i]
           /\ Append(s, x)[Len(s) + 1] = x
  OBVIOUS

\* The initial state: nothing sent, nothing in flight.
LEMMA RepeaterInitInv == RepeaterInit => RepeaterInv
<1> SUFFICES ASSUME RepeaterInit PROVE RepeaterInv
  OBVIOUS
<1>1. Crlf[FirstText] \in Text /\ sent = <<>> /\ phase = <<>>
      /\ Len(sent) = 0 /\ DOMAIN phase = {}
  BY RepeaterAssumption DEF RepeaterInit
<1>2. phase \in [1 .. Len(sent) -> {"new", "net", "notify", "done"}] /\ sent \in Seq(Job)
  <2>1. phase \in Seq({"new", "net", "notify", "done"}) /\ Len(phase) = 0 /\ sent \in Seq(Job)
    BY <1>1
  <2> QED
    BY <1>1, <2>1, SeqIsFunction
<1>3. RepeaterTypes
  <2>2. res \in 0 .. Len(sent) /\ lastRes \in 0 .. Len(sent)
    BY <1>1 DEF RepeaterInit
  <2>3. /\ target \in Target /\ field \in Target
        /\ req \in Text /\ editor \in Text /\ lastReq \in Text
        /\ sending \in BOOLEAN /\ event \in BOOLEAN /\ button = "idle"
    BY <1>1, RepeaterAssumption DEF RepeaterInit
  <2> QED
    BY <1>2, <2>2, <2>3 DEF RepeaterTypes
<1>4. OneInFlight /\ LatestAnswer /\ NeverAhead /\ Announced
  BY <1>1 DEF RepeaterInit, OneInFlight, LatestAnswer, NeverAhead, Announced
<1> QED
  BY <1>3, <1>4 DEF RepeaterInv

\* The steps of the UI thread that touch neither the sends nor the workers.
LEMMA TabSteps ==
    ASSUME RepeaterInv,
           \/ \E t \in Target, x \in Text : SetRequest(t, x) \/ Edit(t, x)
           \/ SetTarget \/ SetRawRequest \/ HandleCustom \/ Render
    PROVE  RepeaterInv'
<1> USE RepeaterAssumption DEF RepeaterInv
<1>1. RepeaterTypes'
  <2>1. ASSUME NEW t \in Target, NEW x \in Text, SetRequest(t, x) PROVE RepeaterTypes'
    BY <2>1 DEF SetRequest, RepeaterTypes, tab, Job
  <2>2. ASSUME NEW t \in Target, NEW x \in Text, Edit(t, x) PROVE RepeaterTypes'
    BY <2>2 DEF Edit, RepeaterTypes, manager
  <2>3. CASE SetTarget
    BY <2>3 DEF SetTarget, RepeaterTypes, tab
  <2>4. CASE SetRawRequest
    BY <2>4 DEF SetRawRequest, RepeaterTypes, tab
  <2>5. CASE HandleCustom \/ Render
    <3>1. SyncWithManager /\ event' \in BOOLEAN
      BY <2>5 DEF HandleCustom, Render, RepeaterTypes
    <3> QED
      BY <3>1 DEF SyncWithManager, RepeaterTypes, manager
  <2> QED
    BY <2>1, <2>2, <2>3, <2>4, <2>5
<1>2. /\ UNCHANGED <<sent, phase, res, sending>>
      /\ button # "announce" /\ button' # "announce"
      /\ lastRes' \in {lastRes, res}
  BY DEF SetRequest, Edit, SetTarget, SetRawRequest, HandleCustom, Render,
         SyncWithManager, manager, tab
<1>3. OneInFlight'
  BY <1>2 DEF OneInFlight, Busy
<1>4. LatestAnswer' /\ NeverAhead'
  BY <1>2 DEF LatestAnswer, NeverAhead, RepeaterTypes
<1>5. Announced'
  BY <1>2 DEF Announced, SetRequest, Edit, SetTarget, SetRawRequest, HandleCustom, Render,
              SyncWithManager, manager, tab
<1> QED
  BY <1>1, <1>3, <1>4, <1>5

\* A send is accepted only when none is in flight, and becomes the last one.
LEMMA BeginStep == ASSUME RepeaterInv, Begin PROVE RepeaterInv'
<1> USE RepeaterAssumption DEF RepeaterInv
<1>1. CASE sending
  <2>1. UNCHANGED <<sent, phase, res, sending, lastRes>> /\ button = "begin" /\ button' = "idle"
    BY <1>1 DEF Begin, tab
  <2>2. RepeaterTypes'
    BY <1>1 DEF Begin, RepeaterTypes, tab
  <2>3. OneInFlight' /\ LatestAnswer' /\ NeverAhead'
    BY <2>1 DEF OneInFlight, Busy, LatestAnswer, NeverAhead
  <2>4. Announced'
    BY <1>1, <2>1 DEF Begin, Announced, tab
  <2> QED
    BY <2>2, <2>3, <2>4
<1>2. CASE ~sending
  <2> DEFINE job == [target |-> Clean[target], text |-> req]
  <2>1. /\ sending' = TRUE /\ button' = "announce"
        /\ sent' = Append(sent, job) /\ phase' = Append(phase, "new")
        /\ UNCHANGED <<target, req, res, field, editor, lastReq, lastRes, event>>
    BY <1>2 DEF Begin, tab
  <2>2. /\ job \in Job /\ sent \in Seq(Job)
        /\ phase \in Seq({"new", "net", "notify", "done"}) /\ Len(phase) = Len(sent)
    BY DEF RepeaterTypes, Job
  <2>3. /\ sent' \in Seq(Job) /\ Len(sent') = Len(sent) + 1 /\ Len(sent) \in Nat
        /\ DOMAIN phase = 1 .. Len(sent) /\ DOMAIN phase' = 1 .. Len(sent) + 1
        /\ \A n \in 1 .. Len(sent) : phase'[n] = phase[n]
        /\ phase'[Len(sent) + 1] = "new"
        /\ phase' \in [1 .. Len(sent') -> {"new", "net", "notify", "done"}]
    <3> HIDE DEF job
    <3>1. /\ sent' \in Seq(Job) /\ Len(sent') = Len(sent) + 1 /\ Len(sent) \in Nat
      BY <2>1, <2>2, Extended, SeqIsFunction
    <3>2. /\ phase' \in Seq({"new", "net", "notify", "done"}) /\ Len(phase') = Len(phase) + 1
          /\ \A n \in 1 .. Len(phase) : phase'[n] = phase[n]
          /\ phase'[Len(phase) + 1] = "new"
      BY <2>1, <2>2, Extended
    <3>3. /\ phase' \in [1 .. Len(phase') -> {"new", "net", "notify", "done"}]
          /\ DOMAIN phase' = 1 .. Len(phase') /\ DOMAIN phase = 1 .. Len(phase)
      BY <2>2, <3>2, SeqIsFunction
    <3> QED
      BY <2>2, <3>1, <3>2, <3>3
  <2>4. RepeaterTypes'
    BY <2>1, <2>3 DEF RepeaterTypes
  <2>5. \A n \in 1 .. Len(sent) : ~Busy(n)
    BY <1>2, <2>3 DEF OneInFlight
  <2>6. OneInFlight'
    BY <2>1, <2>3, <2>5 DEF OneInFlight, Busy
  <2>7. LatestAnswer' /\ NeverAhead'
    BY <1>2, <2>1, <2>3 DEF LatestAnswer, NeverAhead, RepeaterTypes
  <2>8. Announced'
    BY <2>1, <2>3 DEF Announced
  <2> QED
    BY <2>4, <2>6, <2>7, <2>8
<1> QED
  BY <1>1, <1>2 DEF Begin

\* What one step of the n-th worker's phase does to the function of phases.
LEMMA PhaseStep ==
    ASSUME RepeaterTypes, NEW n \in DOMAIN phase, NEW to \in {"net", "notify", "done"},
           phase' = [phase EXCEPT ![n] = to], sent' = sent
    PROVE  /\ DOMAIN phase' = DOMAIN phase /\ DOMAIN phase = 1 .. Len(sent)
           /\ phase'[n] = to
           /\ \A k \in DOMAIN phase : k # n => phase'[k] = phase[k]
           /\ phase' \in [1 .. Len(sent') -> {"new", "net", "notify", "done"}]
  BY DEF RepeaterTypes

\* The accepted send goes from the UI thread to its worker.
LEMMA AnnounceStep == ASSUME RepeaterInv, Announce PROVE RepeaterInv'
<1> USE DEF RepeaterInv
<1> DEFINE n == Len(sent)
<1>1. n \in DOMAIN phase /\ phase[n] = "new"
  BY DEF Announce, OneInFlight, RepeaterTypes
<1>2. /\ phase' = [phase EXCEPT ![n] = "net"] /\ sent' = sent
      /\ target' = sent[n].target /\ event' = TRUE
      /\ button = "announce" /\ button' = "idle"
      /\ UNCHANGED <<req, res, sending, field, editor, lastReq, lastRes>>
  BY DEF Announce, tab
<1>3. /\ DOMAIN phase' = DOMAIN phase /\ DOMAIN phase = 1 .. Len(sent)
      /\ phase'[n] = "net"
      /\ \A k \in DOMAIN phase : k # n => phase'[k] = phase[k]
      /\ phase' \in [1 .. Len(sent') -> {"new", "net", "notify", "done"}]
  <2> HIDE DEF n
  <2> QED
    BY <1>1, <1>2, PhaseStep
<1>4. sent[n].target \in Target
  <2>1. sent \in Seq(Job) /\ n \in 1 .. Len(sent)
    BY <1>1, <1>3 DEF RepeaterTypes
  <2>2. sent[n] \in Job
    BY <2>1
  <2> QED
    BY <2>2 DEF Job
<1>5. RepeaterTypes'
  BY <1>2, <1>3, <1>4 DEF RepeaterTypes
<1>6. OneInFlight'
  BY <1>1, <1>2, <1>3 DEF OneInFlight, Busy
<1>7. LatestAnswer' /\ NeverAhead'
  BY <1>2 DEF LatestAnswer, NeverAhead
<1>8. Announced'
  BY <1>2 DEF Announced
<1> QED
  BY <1>5, <1>6, <1>7, <1>8

\* The worker that ends is the last one, so its answer is the latest.
LEMMA FinishStep == ASSUME RepeaterInv, NEW n \in DOMAIN phase, Finish(n) PROVE RepeaterInv'
<1> USE DEF RepeaterInv
<1>1. /\ phase[n] = "net" /\ n = Len(sent) /\ n \in Nat
      /\ phase' = [phase EXCEPT ![n] = "notify"] /\ sent' = sent
      /\ sending' = FALSE /\ res' = n
      /\ UNCHANGED <<target, req, field, editor, lastReq, lastRes, button, event>>
  BY DEF Finish, tab, OneInFlight, Busy, RepeaterTypes
<1>2. /\ DOMAIN phase' = DOMAIN phase /\ DOMAIN phase = 1 .. Len(sent)
      /\ phase'[n] = "notify"
      /\ \A k \in DOMAIN phase : k # n => phase'[k] = phase[k]
      /\ phase' \in [1 .. Len(sent') -> {"new", "net", "notify", "done"}]
  BY <1>1, PhaseStep
<1>3. RepeaterTypes'
  <2>1. res' \in 0 .. Len(sent') /\ lastRes' \in 0 .. Len(sent')
    BY <1>1 DEF RepeaterTypes
  <2> QED
    BY <1>1, <1>2, <2>1 DEF RepeaterTypes
<1>4. button # "announce"
  BY <1>1 DEF OneInFlight
<1>5. OneInFlight'
  BY <1>1, <1>2, <1>4 DEF OneInFlight, Busy
<1>6. LatestAnswer' /\ NeverAhead'
  BY <1>1, <1>2 DEF LatestAnswer, NeverAhead, RepeaterTypes
<1>7. Announced'
  BY <1>1, <1>2 DEF Announced
<1> QED
  BY <1>3, <1>5, <1>6, <1>7

\* The notification after it changes no data.
LEMMA NotifyStep == ASSUME RepeaterInv, NEW n \in DOMAIN phase, TellTab(n) PROVE RepeaterInv'
<1> USE DEF RepeaterInv
<1>1. /\ phase[n] = "notify" /\ phase' = [phase EXCEPT ![n] = "done"] /\ sent' = sent
      /\ event' = TRUE
      /\ UNCHANGED <<target, req, res, sending, field, editor, lastReq, lastRes, button>>
  BY DEF TellTab, manager, tab
<1>2. /\ DOMAIN phase' = DOMAIN phase /\ DOMAIN phase = 1 .. Len(sent)
      /\ phase'[n] = "done"
      /\ \A k \in DOMAIN phase : k # n => phase'[k] = phase[k]
      /\ phase' \in [1 .. Len(sent') -> {"new", "net", "notify", "done"}]
  BY <1>1, PhaseStep
<1>3. RepeaterTypes'
  BY <1>1, <1>2 DEF RepeaterTypes
<1>4. OneInFlight'
  BY <1>1, <1>2 DEF OneInFlight, Busy
<1>5. LatestAnswer' /\ NeverAhead'
  BY <1>1 DEF LatestAnswer, NeverAhead
<1>6. Announced'
  BY <1>1 DEF Announced
<1> QED
  BY <1>3, <1>4, <1>5, <1>6

-----------------------------------------------------------------------------
\* RepeaterManager::executeRequest and its worker: in every reachable state at
\* most one send is in flight, exactly while isSending_ is set, and rawResponse_
\* is the answer to the last send, or to the one before while it is under way.
THEOREM RepeaterInvariant == RepeaterSpec => []RepeaterInv
<1>1. RepeaterInit => RepeaterInv
  BY RepeaterInitInv
<1>2. RepeaterInv /\ [RepeaterNext]_repeaterVars => RepeaterInv'
  <2> SUFFICES ASSUME RepeaterInv, [RepeaterNext]_repeaterVars PROVE RepeaterInv'
    OBVIOUS
  <2>1. CASE \/ \E t \in Target, x \in Text : SetRequest(t, x) \/ Edit(t, x)
             \/ SetTarget \/ SetRawRequest \/ HandleCustom \/ Render
    BY <2>1, TabSteps
  <2>2. CASE Begin
    BY <2>2, BeginStep
  <2>3. CASE Announce
    BY <2>3, AnnounceStep
  <2>4. ASSUME NEW n \in DOMAIN phase, Finish(n) \/ TellTab(n) PROVE RepeaterInv'
    BY <2>4, FinishStep, NotifyStep
  <2>5. CASE UNCHANGED repeaterVars
    BY <2>5 DEF repeaterVars, RepeaterInv, RepeaterTypes, OneInFlight, Busy, LatestAnswer, NeverAhead, Announced
  <2> QED
    BY <2>1, <2>2, <2>3, <2>4, <2>5 DEF RepeaterNext, SendButton
<1> QED
  BY <1>1, <1>2, PTL DEF RepeaterSpec
=============================================================================
