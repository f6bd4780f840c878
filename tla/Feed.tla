-------------------------------- MODULE Feed --------------------------------
(***************************************************************************)
(* How captured traffic reaches the screen: the transaction callback of    *)
(* App::run pushes to the TsQueue and pulls the trigger of TuiApp, which   *)
(* posts one Custom event to the FTXUI loop unless updatePending_ says one *)
(* is on its way; the loop's handler clears the flag and the History tab   *)
(* drains the queue.  InterceptManager and RepeaterManager pull the same   *)
(* trigger, from the UI thread and the worker thread too.                  *)
(*                                                                         *)
(* A step is one access to shared memory: the queue under mtx_, the atomic *)
(* flag, the event queue of the screen.                                    *)
(***************************************************************************)
EXTENDS Naturals, Sequences

CONSTANTS
    Tx,         \* transactions
    Thread,     \* the threads that may pull the trigger
    Net,        \* the io_context thread, the only one that publishes
    UI,         \* the thread of the FTXUI loop
    MaxTx,      \* bound: transactions published
    MaxEvents   \* bound: Custom events queued before a tab switch adds one

ASSUME FeedAssumption ==
    /\ Net \in Thread /\ UI \in Thread /\ Net # UI
    /\ MaxTx \in Nat /\ MaxEvents \in Nat

VARIABLES
    queue,          \* TsQueue::q_
    updatePending,  \* TuiApp::updatePending_
    events,         \* Custom events queued in the screen
    pc,             \* where each thread is
    entries,        \* the History tab's list
    published       \* everything pushed so far, in order

vars == <<queue, updatePending, events, pc, entries, published>>

TypeOK ==
    /\ queue \in Seq(Tx) /\ entries \in Seq(Tx) /\ published \in Seq(Tx)
    /\ updatePending \in BOOLEAN
    /\ events \in Nat
    /\ pc \in [Thread -> {"idle", "cas", "post", "clear", "drain"}]
    /\ \A t \in Thread : pc[t] \in {"clear", "drain"} => t = UI

Init ==
    /\ queue = <<>> /\ entries = <<>> /\ published = <<>>
    /\ updatePending = FALSE
    /\ events = 0
    /\ pc = [t \in Thread |-> "idle"]

Goto(t, from, to) == pc[t] = from /\ pc' = [pc EXCEPT ![t] = to]

-----------------------------------------------------------------------------
\* The transaction callback: push, then the trigger.
Publish(x) ==
    /\ Len(published) < MaxTx
    /\ Goto(Net, "idle", "cas")
    /\ queue' = Append(queue, x)
    /\ published' = Append(published, x)
    /\ UNCHANGED <<updatePending, events, entries>>

\* The notify callbacks of InterceptManager and RepeaterManager.
Notify(t) ==
    /\ Goto(t, "idle", "cas")
    /\ UNCHANGED <<queue, updatePending, events, entries, published>>

\* compare_exchange_strong(false, true)
TestAndSet(t) ==
    /\ Goto(t, "cas", IF updatePending THEN "idle" ELSE "post")
    /\ updatePending' = TRUE
    /\ UNCHANGED <<queue, events, entries, published>>

Post(t) ==
    /\ Goto(t, "post", "idle")
    /\ events' = events + 1
    /\ UNCHANGED <<queue, updatePending, entries, published>>

\* Switching to the Repeater posts a Custom event past the flag.
SwitchTab ==
    /\ pc[UI] = "idle"
    /\ events < MaxEvents
    /\ events' = events + 1
    /\ UNCHANGED <<queue, updatePending, pc, entries, published>>

\* The loop hands the next Custom event to the handler.
TakeEvent ==
    /\ events > 0
    /\ Goto(UI, "idle", "clear")
    /\ events' = events - 1
    /\ UNCHANGED <<queue, updatePending, entries, published>>

\* Variants with a bug: the flag stays set; the History tab is not told.
FlagStaysSet ==
    /\ Goto(UI, "clear", "drain")
    /\ UNCHANGED <<queue, updatePending, events, entries, published>>
HistoryNotTold ==
    /\ Goto(UI, "clear", "idle")
    /\ updatePending' = FALSE
    /\ UNCHANGED <<queue, events, entries, published>>

\* updatePending_.store(false); the tabs see the event after it.
ClearFlag ==
    /\ Goto(UI, "clear", "drain")
    /\ updatePending' = FALSE
    /\ UNCHANGED <<queue, events, entries, published>>

\* Variant with a bug: the batch is put before what is already listed.
PopAllInFront ==
    /\ entries' = queue \o entries
    /\ queue' = <<>>
    /\ UNCHANGED <<updatePending, events, published>>

\* tryPopAll, and every item appended to the tab's list.
PopAll ==
    /\ entries' = entries \o queue
    /\ queue' = <<>>
    /\ UNCHANGED <<updatePending, events, published>>

Drain == Goto(UI, "drain", "idle") /\ PopAll

\* F2 and '2' drain without an event having been posted.
ShowHistory == Goto(UI, "idle", "idle") /\ PopAll

-----------------------------------------------------------------------------
Trigger(t) == TestAndSet(t) \/ Post(t)
Handle     == TakeEvent \/ ClearFlag \/ Drain

Next ==
    \/ \E x \in Tx : Publish(x)
    \/ \E t \in Thread : Notify(t) \/ Trigger(t)
    \/ SwitchTab
    \/ Handle
    \/ ShowHistory

Spec == Init /\ [][Next]_vars

\* A thread that has begun to pull the trigger finishes.  The loop takes its
\* events first in, first out, so keys and clicks delay a Custom event but
\* cannot hold it up for ever (SF).  The user need not come back to the tab.
FairSpec ==
    /\ Spec
    /\ \A t \in Thread : WF_vars(Trigger(t))
    /\ SF_vars(Handle)

-----------------------------------------------------------------------------
(* Properties *)

Coming == events > 0 \/ \E t \in Thread : pc[t] = "post"

\* The flag is set only while an event is coming or its handler is about to
\* clear it: otherwise every later trigger would be swallowed.
FlagIsBacked == updatePending => Coming \/ pc[UI] = "clear"

\* No wakeup is lost: while something is queued, the handler is going to drain
\* it or a thread is still about to see to it.
NoLostWakeup ==
    queue # <<>> =>
        \/ Coming
        \/ pc[UI] \in {"clear", "drain"}
        \/ \E t \in Thread : pc[t] = "cas"

\* Nothing is lost, repeated or reordered on the way.
InOrder == published = entries \o queue

IInv == TypeOK /\ FlagIsBacked /\ NoLostWakeup /\ InOrder

\* "Captured traffic appears in the History tab in real time": whatever was
\* published is listed in the end, whether or not the user opens the tab.
AllShown ==
    \A n \in 1 .. MaxTx : (Len(published) >= n) ~> (Len(entries) >= n)

\* The tab shows a growing prefix of what was published.
Channel == INSTANCE FeedChannel WITH shown <- entries
ImplementsChannel == Channel!Spec
=============================================================================
