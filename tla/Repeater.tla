------------------------------- MODULE Repeater -------------------------------
(***************************************************************************)
(* RepeaterManager and RepeaterTab: the user edits a request, sends it to  *)
(* a target, and a detached thread per request fetches the answer.         *)
(*                                                                         *)
(* RepeaterManager's fields are shared under mutex_; RepeaterTab keeps     *)
(* copies (the input fields, the editor, the last request and response it  *)
(* loaded) that syncWithManager() brings up to date.  Clicking Send is     *)
(* four critical sections of the UI thread, a worker's end is one more.    *)
(*                                                                         *)
(* Requests and targets are abstract; Clean is what executeRequest makes   *)
(* of a typed target (scheme and port taken out of the host field), Crlf   *)
(* what the editor makes of a text (line ends).  A response is known by    *)
(* the number of the send it answers; 0 is the placeholder shown before.   *)
(***************************************************************************)
EXTENDS Naturals, Sequences

CONSTANTS
    Target, Text,       \* what the user can type or load
    Clean, Crlf,        \* the two conversions
    FirstTarget, FirstText,
    MaxSends            \* bound: requests accepted for sending

ASSUME RepeaterAssumption ==
    /\ Clean \in [Target -> Target] /\ Crlf \in [Text -> Text]
    /\ FirstTarget \in Target /\ FirstText \in Text
    /\ MaxSends \in Nat

VARIABLES
    target, req,        \* host_, port_ and isHttps_; rawRequest_
    res, sending,       \* rawResponse_; isSending_
    field, editor,      \* the tab's host, port and HTTPS inputs; its editor
    lastReq, lastRes,   \* lastLoadedReq; lastLoadedRes, which is on screen
    button,             \* where the UI thread is in the Send button's handler
    sent,               \* history: the [target, text] of every accepted send
    phase,              \* of the worker of every accepted send
    event               \* a Custom event is posted and not yet handled

manager == <<target, req, res, sending>>
tab == <<field, editor, lastReq, lastRes>>
repeaterVars == <<target, req, res, sending, field, editor, lastReq, lastRes, button, sent, phase, event>>

Job == [target : Target, text : Text]

RepeaterTypes ==
    /\ target \in Target /\ field \in Target
    /\ req \in Text /\ editor \in Text /\ lastReq \in Text
    /\ res \in 0 .. Len(sent) /\ lastRes \in 0 .. Len(sent)
    /\ sending \in BOOLEAN /\ event \in BOOLEAN
    /\ button \in {"idle", "setRaw", "begin", "announce"}
    /\ sent \in Seq(Job)
    /\ phase \in [1 .. Len(sent) -> {"new", "net", "notify", "done"}]

RepeaterInit ==
    /\ target = FirstTarget /\ field = FirstTarget
    /\ req = FirstText /\ lastReq = FirstText /\ editor = Crlf[FirstText]
    /\ res = 0 /\ lastRes = 0
    /\ sending = FALSE /\ event = FALSE
    /\ button = "idle"
    /\ sent = <<>> /\ phase = <<>>

-----------------------------------------------------------------------------
(* The UI thread *)

\* "To Repeater" in the Proxy or History tab.
SetRequest(t, x) ==
    /\ button = "idle"
    /\ target' = t /\ req' = x
    /\ event' = TRUE
    /\ UNCHANGED <<res, sending, tab, button, sent, phase>>

Edit(t, x) ==
    /\ button = "idle"
    /\ field' = t /\ editor' = Crlf[x]
    /\ UNCHANGED <<manager, lastReq, lastRes, button, sent, phase, event>>

\* The Send button: setTarget, setRawRequest, executeRequest.
SetTarget ==
    /\ button = "idle"
    /\ Len(sent) < MaxSends
    /\ target' = field
    /\ event' = TRUE
    /\ button' = "setRaw"
    /\ UNCHANGED <<req, res, sending, tab, sent, phase>>

SetRawRequest ==
    /\ button = "setRaw"
    /\ req' = editor
    /\ button' = "begin"
    /\ UNCHANGED <<target, res, sending, tab, sent, phase, event>>

\* Variant with a bug: isSending_ is not looked at.
BeginAlways ==
    /\ button = "begin"
    /\ sending' = TRUE
    /\ sent' = Append(sent, [target |-> Clean[target], text |-> req])
    /\ phase' = Append(phase, "new")
    /\ button' = "announce"
    /\ UNCHANGED <<target, req, res, tab, event>>

Begin ==
    /\ button = "begin"
    /\ \/ /\ sending
          /\ button' = "idle"
          /\ UNCHANGED <<sending, sent, phase>>
       \/ /\ ~sending
          /\ sending' = TRUE
          /\ sent' = Append(sent, [target |-> Clean[target], text |-> req])
          /\ phase' = Append(phase, "new")
          /\ button' = "announce"
    /\ UNCHANGED <<target, req, res, tab, event>>

Announce ==
    /\ button = "announce"
    /\ target' = sent[Len(sent)].target
    /\ phase' = [phase EXCEPT ![Len(sent)] = "net"]
    /\ event' = TRUE
    /\ button' = "idle"
    /\ UNCHANGED <<req, res, sending, tab, sent>>

SyncWithManager ==
    /\ button = "idle"
    /\ IF req # lastReq
       THEN lastReq' = req /\ editor' = Crlf[req] /\ field' = target
       ELSE UNCHANGED <<lastReq, editor, field>>
    /\ lastRes' = res
    /\ UNCHANGED <<manager, button, sent, phase>>

HandleCustom == event /\ SyncWithManager /\ event' = FALSE
Render       == SyncWithManager /\ UNCHANGED event

-----------------------------------------------------------------------------
(* The worker of the n-th send *)

\* Variant with a bug: nobody is told of the answer.
FinishSilently(n) ==
    /\ phase[n] = "net"
    /\ sending' = FALSE
    /\ res' = n
    /\ phase' = [phase EXCEPT ![n] = "done"]
    /\ UNCHANGED <<target, req, tab, button, sent, event>>

\* The answer, or the error, becomes the response.
Finish(n) ==
    /\ phase[n] = "net"
    /\ sending' = FALSE
    /\ res' = n
    /\ phase' = [phase EXCEPT ![n] = "notify"]
    /\ UNCHANGED <<target, req, tab, button, sent, event>>

TellTab(n) ==
    /\ phase[n] = "notify"
    /\ event' = TRUE
    /\ phase' = [phase EXCEPT ![n] = "done"]
    /\ UNCHANGED <<manager, tab, button, sent>>

-----------------------------------------------------------------------------
SendButton == SetRawRequest \/ Begin \/ Announce
Workers    == \E n \in DOMAIN phase : TellTab(n)

RepeaterNext ==
    \/ \E t \in Target, x \in Text : SetRequest(t, x) \/ Edit(t, x)
    \/ SetTarget \/ SendButton
    \/ HandleCustom \/ Render
    \/ \E n \in DOMAIN phase : Finish(n) \/ TellTab(n)

RepeaterSpec == RepeaterInit /\ [][RepeaterNext]_repeaterVars

\* The UI thread goes on and handles its events, however busy the user keeps
\* it; a worker that has its answer goes on.  The network may stay silent for
\* ever (its reads have no timeout), and the user may do nothing.
RepeaterFair == RepeaterSpec /\ WF_repeaterVars(SendButton) /\ SF_repeaterVars(HandleCustom) /\ WF_repeaterVars(Workers)

-----------------------------------------------------------------------------
(* Properties *)

Busy(n) == phase[n] \in {"new", "net"}

\* isSending_ is set exactly while one accepted send is unfinished: the Send
\* button is neither dead nor able to start a second worker.
OneInFlight ==
    /\ sending <=> \E n \in DOMAIN phase : Busy(n)
    /\ \A n \in DOMAIN phase : Busy(n) => n = Len(sent)
    /\ \A n \in DOMAIN phase : phase[n] = "new" <=> n = Len(sent) /\ button = "announce"
    /\ button = "announce" => sending

\* When nothing is being sent the response is the one to the last send, and
\* meanwhile the one to the send before: no late answer overwrites a newer one.
LatestAnswer == res = IF sending THEN Len(sent) - 1 ELSE Len(sent)

\* The screen never runs ahead of the manager.
NeverAhead == lastRes <= res

\* A request or an answer the tab has not loaded is announced: an event is
\* posted, or its worker is about to post one.  setTarget pulls the trigger under
\* the lock; a request or an answer is announced only after the lock is released.
Announced ==
    /\ req # lastReq \/ button = "setRaw" => event
    /\ res # lastRes => event \/ \E n \in DOMAIN phase : phase[n] = "notify"

RepeaterInv == RepeaterTypes /\ OneInFlight /\ LatestAnswer /\ NeverAhead /\ Announced

\* An answer that arrived is shown (or a later one is).
Shown == \A n \in 1 .. MaxSends : (res = n) ~> (lastRes >= n)
=============================================================================
