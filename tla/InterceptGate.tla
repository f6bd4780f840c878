---------------------------- MODULE InterceptGate ----------------------------
(***************************************************************************)
(* What the interception component promises, one atomic step per           *)
(* operation: a request that arrives while interception is on is held in   *)
(* arrival order, the user decides the request at the front or all held    *)
(* requests at once, and a connection that goes away takes its request     *)
(* with it.  No threads, no locks, no callbacks: Intercept.tla implements  *)
(* this with the locks and posted callbacks of InterceptManager.           *)
(***************************************************************************)
EXTENDS Naturals, Sequences

CONSTANT Req            \* requests, each with an id of its own

VARIABLES
    pending,            \* held requests, oldest first
    verdict             \* what became of each request

gvars == <<pending, verdict>>

Actions == {"forward", "drop"}

Held(r) == \E i \in DOMAIN pending : pending[i] = r

GateInit ==
    /\ pending = <<>>
    /\ verdict = [r \in Req |-> "new"]

\* A request that interception stops.
Hold(r) ==
    /\ verdict[r] = "new"
    /\ pending' = Append(pending, r)
    /\ verdict' = [verdict EXCEPT ![r] = "held"]

\* A request that arrives while interception is off.
PassThrough(r) ==
    /\ verdict[r] = "new"
    /\ verdict' = [verdict EXCEPT ![r] = "forward"]
    /\ UNCHANGED pending

DecideFront(act) ==
    /\ pending # <<>>
    /\ verdict' = [verdict EXCEPT ![Head(pending)] = act]
    /\ pending' = Tail(pending)

DecideAll(act) ==
    /\ verdict' = [r \in Req |-> IF Held(r) THEN act ELSE verdict[r]]
    /\ pending' = <<>>

\* The connection of r is gone; what is still held of it is held no more.
Leave(r) ==
    /\ verdict[r] \notin {"new", "gone"}
    /\ verdict' = [verdict EXCEPT ![r] = "gone"]
    /\ IF Held(r)
       THEN \E i \in DOMAIN pending :
               /\ pending[i] = r
               /\ pending' = [j \in 1 .. (Len(pending) - 1) |->
                                 IF j < i THEN pending[j] ELSE pending[j + 1]]
       ELSE UNCHANGED pending

GateNext ==
    \/ \E r \in Req : Hold(r) \/ PassThrough(r) \/ Leave(r)
    \/ \E act \in Actions : DecideFront(act) \/ DecideAll(act)

GateSpec == GateInit /\ [][GateNext]_gvars
=============================================================================
