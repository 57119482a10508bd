------------------------------ MODULE Scheduler ------------------------------
(***************************************************************************)
(* engine.Schedule: the goroutine between those that Push requests and     *)
(* those that Pull them.  Both channels are unbuffered, so a send and the  *)
(* matching receive are one step, which the modules that use this one      *)
(* compose from Receive or Dispatch and the other goroutine's half.        *)
(*                                                                         *)
(* The goroutine is at its select exactly when AtSelect holds: above the   *)
(* select it only reads and writes its own three variables, and it leaves  *)
(* that part with a request in hand or with both queues empty.             *)
(***************************************************************************)
EXTENDS Spider, Sequences

VARIABLES req,          \* the request offered to workerCh, or NoReq
          priReqQueue,  \* queued requests with Priority > 0
          reqQueue      \* the other queued requests

schedVars == <<req, priReqQueue, reqQueue>>

SchedulerInit == /\ req = NoReq
                 /\ priReqQueue = <<>>
                 /\ reqQueue = <<>>

\* What may reach a worker: a request within the depth limit of its task.
Offered == {r \in Request : r.depth <= MaxDepth[r.task]}

HighRequest == {r \in Request : r.high}
NormalRequest == {r \in Request : ~r.high}

SchedulerTypeOK == /\ req \in Offered \cup {NoReq}
                   /\ priReqQueue \in Seq(HighRequest)
                   /\ reqQueue \in Seq(NormalRequest)

\* A request that fails the check is dropped and the loop goes round again.
Checked(r) == IF Check(r) THEN r ELSE NoReq

TakeHigh == /\ priReqQueue # <<>>
            /\ req' = Checked(Head(priReqQueue))
            /\ priReqQueue' = Tail(priReqQueue)
            /\ UNCHANGED reqQueue

TakeNormal == /\ priReqQueue = <<>>
              /\ reqQueue # <<>>
              /\ req' = Checked(Head(reqQueue))
              /\ reqQueue' = Tail(reqQueue)
              /\ UNCHANGED priReqQueue

\* Mutant: the normal queue is served first.
TakeNormalFirst == /\ req = NoReq
                   /\ \/ /\ reqQueue # <<>>
                         /\ req' = Checked(Head(reqQueue))
                         /\ reqQueue' = Tail(reqQueue)
                         /\ UNCHANGED priReqQueue
                      \/ reqQueue = <<>> /\ TakeHigh

\* The part of the loop above the select, when it has a request to pick.
Take == req = NoReq /\ (TakeHigh \/ TakeNormal)

\* Mutant: the select only receives while it has nothing to hand out, as
\* with a scheduler that sends outside of the select.
AtSelectIdle == req = NoReq /\ priReqQueue = <<>> /\ reqQueue = <<>>

AtSelect == req # NoReq \/ (priReqQueue = <<>> /\ reqQueue = <<>>)

\* Mutant: a request received while one is in hand replaces it.
ReceiveOverwrites(r) ==
    /\ AtSelect
    /\ req' = NoReq
    /\ IF r.high
       THEN priReqQueue' = Append(priReqQueue, r) /\ UNCHANGED reqQueue
       ELSE reqQueue' = Append(reqQueue, r) /\ UNCHANGED priReqQueue

\* case r := <-s.requestCh
Receive(r) ==
    /\ AtSelect
    /\ IF r.high
       THEN priReqQueue' = Append(priReqQueue, r) /\ UNCHANGED reqQueue
       ELSE reqQueue' = Append(reqQueue, r) /\ UNCHANGED priReqQueue
    /\ UNCHANGED req

\* Mutant: req = nil is missing after the send.
DispatchKeeps == /\ req # NoReq
                 /\ UNCHANGED schedVars

\* case ch <- req: the receiver gets the value of req before the step.
Dispatch == /\ req # NoReq
            /\ req' = NoReq
            /\ UNCHANGED <<priReqQueue, reqQueue>>
=============================================================================
