-------------------------- MODULE SchedulerClients --------------------------
(***************************************************************************)
(* The scheduler with arbitrary goroutines on both sides: each pusher      *)
(* calls Push once with the requests Program gives it, and each puller     *)
(* calls Pull, works on the request for as long as it likes, and calls     *)
(* Pull again, or hangs, or dies.                                          *)
(***************************************************************************)
EXTENDS Scheduler, SequencesExt

CONSTANTS Pusher, Puller, Program

ASSUME ClientsAssumption == Program \in [Pusher -> Seq(Request)]

VARIABLES pushing,   \* what each pusher has still to hand over
          holding,   \* what each puller got, NoReq when it calls Pull
          bypassed   \* history: a normal request went out while a high one
                     \* waited, and no high one has left since

clientVars == <<pushing, holding, bypassed>>
vars == <<req, priReqQueue, reqQueue, pushing, holding, bypassed>>

Init == /\ SchedulerInit
        /\ pushing = Program
        /\ holding = [w \in Puller |-> NoReq]
        /\ bypassed = FALSE

Push(p) == /\ pushing[p] # <<>>
           /\ Receive(Head(pushing[p]))
           /\ pushing' = [pushing EXCEPT ![p] = Tail(@)]
           /\ UNCHANGED <<holding, bypassed>>

Pull(w) == /\ holding[w] = NoReq
           /\ Dispatch
           /\ holding' = [holding EXCEPT ![w] = req]
           /\ bypassed' = (~req.high /\ priReqQueue # <<>>)
           /\ UNCHANGED pushing

Finish(w) == /\ holding[w] # NoReq
             /\ holding' = [holding EXCEPT ![w] = NoReq]
             /\ UNCHANGED <<schedVars, pushing, bypassed>>

SchedulerStep == /\ Take
                 /\ bypassed' = (bypassed /\ ~(priReqQueue # <<>> /\ req' = NoReq))
                 /\ UNCHANGED <<pushing, holding>>

Next == \/ \E p \in Pusher : Push(p)
        \/ \E w \in Puller : Pull(w) \/ Finish(w)
        \/ SchedulerStep

\* Nothing is assumed of the pullers here: see Drains.
Fairness == WF_vars(SchedulerStep) /\ \A p \in Pusher : WF_vars(Push(p))

KeepsPulling(w) == WF_vars(Pull(w)) /\ WF_vars(Finish(w))

Spec == Init /\ [][Next]_vars
FairSpec == Spec /\ Fairness

-----------------------------------------------------------------------------
\* The types; they say that no puller ever holds a request over the depth
\* limit, although Push takes any and only the loop of Schedule checks it.
TypeOK == /\ SchedulerTypeOK
          /\ pushing \in [Pusher -> Seq(Request)]
          /\ holding \in [Puller -> Offered \cup {NoReq}]
          /\ bypassed \in BOOLEAN

\* The request in hand is still part of its lane, as the lane's head.
InHand(h) == IF req # NoReq /\ req.high = h THEN <<req>> ELSE <<>>

Lanes == INSTANCE TwoLanes WITH high <- InHand(TRUE) \o priReqQueue,
                                normal <- InHand(FALSE) \o reqQueue

\* The scheduler implements the two lanes: whatever its callers do, each
\* class of requests leaves in the order it came, nothing is lost or handed
\* out twice, and a waiting high request is overtaken at most once before
\* the next high request goes (the one normal request already in hand).
TwoLanesSpec == Lanes!Spec

\* What makes the bound on overtaking hold: once a high request has been
\* overtaken, the scheduler can only offer a high one.
OvertakenIsNext ==
    bypassed => IF req = NoReq THEN priReqQueue # <<>> ELSE req.high

Waiting == InHand(TRUE) \o priReqQueue \o InHand(FALSE) \o reqQueue

\* Every Push returns, even when no puller ever comes back: the scheduler
\* never stops receiving because it has something to hand out.  SetFailure
\* relies on it, which pushes with failureLock held from a pulling goroutine.
PushReturns == <>[](\A p \in Pusher : pushing[p] = <<>>)

\* Any one puller that keeps pulling is enough for every pushed request to be
\* handed out or refused, however the other pullers behave.
Drains == \A w \in Puller : KeepsPulling(w) => <>[](Waiting = <<>>)
=============================================================================
