------------------------------ MODULE Intercept ------------------------------
(***************************************************************************)
(* The interception component: InterceptManager, the Proxy tab that drives *)
(* it from the UI thread, and the part of Session / MitmSession that       *)
(* pauses and resumes a request on the network thread.                     *)
(*                                                                         *)
(* A step is what one thread does between two points where the other one   *)
(* can interleave: one critical section of mutex_, one access to the       *)
(* atomic interceptEnabled_, one onDecision callback (which posts to the   *)
(* executor), one handler run by the executor.  Each request stands for    *)
(* the session that carries it: its id is drawn from nextId_++, so it is   *)
(* never used twice.                                                       *)
(***************************************************************************)
EXTENDS Naturals, Sequences, Queues

CONSTANTS
    Req,        \* requests the clients may send
    None,       \* "no request": an empty editor, lastInterceptId = -1
    UiOps       \* the operations the UI thread starts

AllUiOps == {"toggle", "forward", "drop", "dropAll"}

ASSUME InterceptAssumption ==
    /\ None \notin Req
    /\ UiOps \subseteq AllUiOps

VARIABLES
    enabled,          \* interceptEnabled_
    queue,            \* queue_: the requests held, front first
    sess,             \* where the session of each request is
    content,          \* whose text the request object holds
    netPc, netReq,    \* the network thread: inside handleClientRead, or idle
    uiPc,             \* the UI thread: inside a button's handler, or idle
    hand,             \* items popped or swapped out, their onDecision not yet called
    posted,           \* decisions posted to the executor, oldest first
    editor,           \* whose text the interception editor shows
    lastInterceptId,  \* the item the editor was last loaded for
    redraw            \* an event is queued after which the tab is rendered

netVars  == <<netPc, netReq>>
uiVars   == <<uiPc, hand>>
viewVars == <<editor, lastInterceptId>>
vars == <<enabled, queue, sess, content, netPc, netReq, uiPc, hand, posted,
          editor, lastInterceptId, redraw>>

SessStates == {"new", "arriving", "paused", "forward", "drop", "closed"}
Decision   == [req : Req, act : {"forward", "drop"}]

ReqsOf(s)    == [i \in 1 .. Len(s) |-> s[i].req]

Queued(r)    == Occurs(queue, r)
InHand(r)    == Occurs(ReqsOf(hand), r)
InPosted(r)  == Occurs(ReqsOf(posted), r)

TypeOK ==
    /\ enabled \in BOOLEAN
    /\ queue \in Seq(Req)
    /\ sess \in [Req -> SessStates]
    /\ content \in [Req -> Req \cup {None}]
    /\ netPc \in {"idle", "push", "notify"}
    /\ netReq \in Req \cup {None}
    /\ uiPc \in {"idle", "swapForward", "swapDrop", "pop", "deliver", "notify"}
    /\ hand \in Seq(Decision)
    /\ posted \in Seq(Decision)
    /\ editor \in Req \cup {None}
    /\ lastInterceptId \in Req \cup {None}
    /\ redraw \in BOOLEAN

Init ==
    /\ enabled = FALSE
    /\ queue = <<>>
    /\ sess = [r \in Req |-> "new"]
    /\ content = [r \in Req |-> r]
    /\ netPc = "idle" /\ netReq = None
    /\ uiPc = "idle" /\ hand = <<>>
    /\ posted = <<>>
    /\ editor = None
    /\ lastInterceptId = None
    /\ redraw = FALSE

-----------------------------------------------------------------------------
(* The network thread *)

\* handleClientRead has a complete request: it asks isInterceptEnabled() and
\* either forwards it at once or goes on to interceptRequest.
Receive(r) ==
    /\ netPc = "idle"
    /\ sess[r] = "new"
    /\ IF enabled
       THEN /\ sess' = [sess EXCEPT ![r] = "arriving"]
            /\ netPc' = "push" /\ netReq' = r
       ELSE /\ sess' = [sess EXCEPT ![r] = "forward"]
            /\ UNCHANGED netVars
    /\ UNCHANGED <<enabled, queue, content, uiVars, posted, viewVars, redraw>>

\* interceptRequest's critical section; the session now waits for a decision
\* with no read pending and its timer cancelled.
Enqueue ==
    /\ netPc = "push"
    /\ queue' = Append(queue, netReq)
    /\ sess' = [sess EXCEPT ![netReq] = "paused"]
    /\ netPc' = "notify" /\ netReq' = None
    /\ UNCHANGED <<enabled, content, uiVars, posted, viewVars, redraw>>

\* The notify callback, copied under the lock, called after it.
NetNotify ==
    /\ netPc = "notify"
    /\ redraw' = TRUE
    /\ netPc' = "idle"
    /\ UNCHANGED <<enabled, queue, sess, content, netReq, uiVars, posted, viewVars>>

\* Variant with a bug: the resumed handler does not look at the socket.
ResumeUnchecked ==
    /\ netPc = "idle"
    /\ posted # <<>>
    /\ posted' = Tail(posted)
    /\ sess' = [sess EXCEPT ![Head(posted).req] = Head(posted).act]
    /\ UNCHANGED <<enabled, queue, content, netVars, uiVars, viewVars, redraw>>

\* The executor runs the handler that onDecision posted: a session whose
\* client socket is closed ignores it, any other one resumes.
Resume ==
    /\ netPc = "idle"
    /\ posted # <<>>
    /\ posted' = Tail(posted)
    /\ LET d == Head(posted) IN
       sess' = IF sess[d.req] = "closed" THEN sess
               ELSE [sess EXCEPT ![d.req] = d.act]
    /\ UNCHANGED <<enabled, queue, content, netVars, uiVars, viewVars, redraw>>

\* Variant with a bug: removeById does not notify.
CloseSilently(r) ==
    /\ netPc = "idle"
    /\ sess[r] \in {"paused", "forward", "drop"}
    /\ sess' = [sess EXCEPT ![r] = "closed"]
    /\ queue' = IF Queued(r) THEN Without(queue, r) ELSE queue
    /\ UNCHANGED <<enabled, content, netVars, uiVars, posted, viewVars, redraw>>

\* close(): a paused session may be closed by a failed write of an earlier
\* response on the connection or by a timer that had already fired; one that
\* was resumed may be closed at any time.
Close(r) ==
    /\ netPc = "idle"
    /\ sess[r] \in {"paused", "forward", "drop"}
    /\ sess' = [sess EXCEPT ![r] = "closed"]
    /\ IF Queued(r)
       THEN queue' = Without(queue, r) /\ netPc' = "notify"
       ELSE UNCHANGED <<queue, netPc>>
    /\ UNCHANGED <<enabled, content, netReq, uiVars, posted, viewVars, redraw>>

-----------------------------------------------------------------------------
(* The UI thread: the buttons of the Proxy tab, one lock at a time *)

\* Every event the loop handles is followed by a frame.
Click(op) ==
    /\ op \in UiOps
    /\ uiPc = "idle"
    /\ redraw' = TRUE

\* setInterceptEnabled: the flag is stored before the queue is touched.
Toggle ==
    /\ Click("toggle")
    /\ enabled' = ~enabled
    /\ uiPc' = IF enabled THEN "swapForward" ELSE "notify"
    /\ UNCHANGED <<queue, sess, content, netVars, hand, posted, viewVars>>

\* Forward, first half: peekCurrent, then the front's request is overwritten
\* with what the editor holds.
ForwardClick ==
    /\ Click("forward")
    /\ content' = IF queue = <<>> THEN content
                  ELSE [content EXCEPT ![Head(queue)] = editor]
    /\ uiPc' = "pop"
    /\ UNCHANGED <<enabled, queue, sess, netVars, hand, posted, viewVars>>

\* Variants with a bug: the front is read but not popped; the back is popped.
TakeFrontNoPop(act) ==
    /\ queue # <<>>
    /\ hand' = <<[req |-> Head(queue), act |-> act]>>
    /\ uiPc' = "deliver"
    /\ UNCHANGED <<enabled, queue, sess, content, netVars, posted, viewVars>>
TakeBack(act) ==
    /\ queue # <<>>
    /\ hand' = <<[req |-> queue[Len(queue)], act |-> act]>>
    /\ queue' = SubSeq(queue, 1, Len(queue) - 1)
    /\ uiPc' = "deliver"
    /\ UNCHANGED <<enabled, sess, content, netVars, posted, viewVars>>

\* The critical section of forwardCurrent and dropCurrent.
TakeFront(act) ==
    /\ IF queue = <<>>
       THEN /\ uiPc' = "idle"
            /\ UNCHANGED <<queue, hand>>
       ELSE /\ hand' = <<[req |-> Head(queue), act |-> act]>>
            /\ queue' = Tail(queue)
            /\ uiPc' = "deliver"
    /\ UNCHANGED <<enabled, sess, content, netVars, posted, viewVars>>

\* Forward, second half: forwardCurrent takes its own look at the front.
ForwardPop ==
    /\ uiPc = "pop"
    /\ TakeFront("forward")
    /\ UNCHANGED redraw

DropClick ==
    /\ Click("drop")
    /\ TakeFront("drop")

\* dropAll, which no button calls yet.
DropAllClick ==
    /\ Click("dropAll")
    /\ uiPc' = "swapDrop"
    /\ UNCHANGED <<enabled, queue, sess, content, netVars, hand, posted, viewVars>>

\* Variant with a bug: the queue is copied, not moved.
CopyAll(act) ==
    /\ hand' = [i \in 1 .. Len(queue) |-> [req |-> queue[i], act |-> act]]
    /\ uiPc' = IF queue = <<>> THEN "notify" ELSE "deliver"
    /\ UNCHANGED <<enabled, queue, sess, content, netVars, posted, viewVars, redraw>>

\* forwardAll and dropAll swap the whole queue out under the lock.
TakeAll(act) ==
    /\ hand' = [i \in 1 .. Len(queue) |-> [req |-> queue[i], act |-> act]]
    /\ queue' = <<>>
    /\ uiPc' = IF queue = <<>> THEN "notify" ELSE "deliver"
    /\ UNCHANGED <<enabled, sess, content, netVars, posted, viewVars, redraw>>

SwapOut ==
    \/ uiPc = "swapForward" /\ TakeAll("forward")
    \/ uiPc = "swapDrop"    /\ TakeAll("drop")

\* Variant with a bug: the loop ends after the first item.
DeliverFirstOnly ==
    /\ uiPc = "deliver"
    /\ posted' = Append(posted, Head(hand))
    /\ hand' = <<>>
    /\ uiPc' = "notify"
    /\ UNCHANGED <<enabled, queue, sess, content, netVars, viewVars, redraw>>

\* onDecision, outside the lock: post the decision to the session's executor.
Deliver ==
    /\ uiPc = "deliver"
    /\ posted' = Append(posted, Head(hand))
    /\ hand' = Tail(hand)
    /\ uiPc' = IF Len(hand) = 1 THEN "notify" ELSE "deliver"
    /\ UNCHANGED <<enabled, queue, sess, content, netVars, viewVars, redraw>>

UiNotify ==
    /\ uiPc = "notify"
    /\ redraw' = TRUE
    /\ uiPc' = "idle"
    /\ UNCHANGED <<enabled, queue, sess, content, netVars, hand, posted, viewVars>>

\* The tab's Renderer: with interception on, a front that is not the one last
\* shown is loaded into the editor.
Render ==
    /\ uiPc = "idle"
    /\ redraw
    /\ redraw' = FALSE
    /\ IF enabled /\ queue # <<>>
       THEN /\ lastInterceptId' = Head(queue)
            /\ editor' = IF Head(queue) = lastInterceptId THEN editor
                         ELSE content[Head(queue)]
       ELSE /\ lastInterceptId' = IF enabled THEN None ELSE lastInterceptId
            /\ UNCHANGED editor
    /\ UNCHANGED <<enabled, queue, sess, content, netVars, uiVars, posted>>

-----------------------------------------------------------------------------
NetStep == Enqueue \/ NetNotify \/ Resume
UiStep  == ForwardPop \/ SwapOut \/ Deliver \/ UiNotify \/ Render
User    == Toggle \/ ForwardClick \/ DropClick \/ DropAllClick

Next ==
    \/ \E r \in Req : Receive(r) \/ Close(r)
    \/ NetStep
    \/ UiStep
    \/ User

Spec == Init /\ [][Next]_vars

\* Both threads keep running: a handler that has started runs to its end, the
\* executor runs what was posted to it, a queued event leads to a frame.  That
\* clients send, users click and connections close is not assumed.
FairSpec ==
    /\ Spec
    /\ WF_vars(Enqueue \/ NetNotify)
    /\ WF_vars(Resume)
    /\ WF_vars(ForwardPop \/ SwapOut \/ Deliver \/ UiNotify)
    /\ WF_vars(Render)

-----------------------------------------------------------------------------
(* Properties *)

\* The decision that is on its way to r's session, if any.
OnItsWay(r) == InHand(r) \/ InPosted(r)

\* Every paused session has exactly one way to be resumed: it is in the queue
\* once, or the decision about it is in the UI thread's hands once, or it is
\* posted once; and nothing is held for a session that is not paused.  This is
\* what makes the hand-over between interceptRequest, the pop or swap under
\* mutex_, onDecision and removeById lose no request and answer none twice.
OneWayOut ==
    /\ Distinct(queue) /\ Distinct(ReqsOf(hand)) /\ Distinct(ReqsOf(posted))
    /\ \A r \in Req :
        /\ Queued(r) => sess[r] = "paused" /\ ~OnItsWay(r)
        /\ OnItsWay(r) => sess[r] \in {"paused", "closed"}
        /\ ~(InHand(r) /\ InPosted(r))
        /\ sess[r] = "paused" => Queued(r) \/ OnItsWay(r)

\* What OneWayOut needs of the two program counters to be inductive.
PcInv ==
    /\ netPc = "push" <=> netReq # None
    /\ \A r \in Req : sess[r] = "arriving" <=> netReq = r
    /\ uiPc = "deliver" <=> hand # <<>>

IInv == TypeOK /\ OneWayOut /\ PcInv

\* Requests are decided in the order they arrived: in the line formed by the
\* posted decisions, those in hand and the queue, nobody overtakes and new
\* arrivals go to the end.  (queue_ push_back / front / pop_front, the swap of
\* forwardAll, and the executor's FIFO order.)
Line == ReqsOf(posted) \o ReqsOf(hand) \o queue
Before(s, a, b) == \E i, j \in DOMAIN s : i < j /\ s[i] = a /\ s[j] = b
NoOvertaking ==
    [][\A a, b \in Req :
         /\ Before(Line', a, b)
         /\ Occurs(Line, b)
         => Before(Line, a, b)]_vars

\* Once a session has acted on a decision it never acts on another one, and
\* it acts only on what was decided for it (InterceptManager hands each item
\* to onDecision once; the resumed handler checks only that the socket is open).
DecidedOnce ==
    [][\A r \in Req :
         /\ sess[r] \in {"forward", "drop"} => sess'[r] \in {sess[r], "closed"}
         /\ sess[r] = "closed" => sess'[r] = "closed"]_vars

\* The screen is never left behind: with interception on and nothing under
\* way, the editor belongs to the front of the queue unless a frame is due.
\* Every path that changes the front has to notify, removeById included.
ScreenFollowsQueue ==
    (enabled /\ netPc = "idle" /\ uiPc = "idle" /\ ~redraw) =>
        IF queue = <<>> THEN lastInterceptId = None
        ELSE lastInterceptId = Head(queue) /\ editor = Head(queue)

\* Turning interception off releases every request held at that moment.
OffReleases ==
    \A r \in Req :
        (uiPc = "swapForward" /\ Queued(r)) ~> (sess[r] \in {"forward", "closed"})

\* The manager behaves as if each operation were one step, taking effect in
\* the critical section of mutex_.
DecisionsMade == {hand[i] : i \in DOMAIN hand} \cup {posted[i] : i \in DOMAIN posted}
DecisionFor(r) == (CHOOSE d \in DecisionsMade : d.req = r).act
Verdict ==
    [r \in Req |->
        CASE sess[r] \in {"new", "arriving"} -> "new"
          [] sess[r] = "closed"              -> "gone"
          [] sess[r] \in {"forward", "drop"} -> sess[r]
          [] OTHER -> IF Queued(r) THEN "held" ELSE DecisionFor(r)]

Gate == INSTANCE InterceptGate WITH pending <- queue, verdict <- Verdict
ImplementsGate == Gate!GateSpec

\* Forward takes "the potentially modified text from the editor", which shows
\* "the first item in the queue": no request goes upstream with the text of
\* another one.
NeverForwardsAnothersText ==
    \A r \in Req : sess[r] = "forward" => content[r] \in {r, None}
=============================================================================
