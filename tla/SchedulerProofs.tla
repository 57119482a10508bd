--------------------------- MODULE SchedulerProofs ---------------------------
(***************************************************************************)
(* For any number of pushers and pullers and any requests: the scheduler   *)
(* keeps its types, an overtaken high request is the next to go, and the   *)
(* scheduler implements the two lanes of TwoLanes.                         *)
(***************************************************************************)
EXTENDS SchedulerClients, TLAPS

\* What is left of a sequence when its head is taken.
LEMMA HeadTailTypes ==
    ASSUME NEW S, NEW s \in Seq(S), s # <<>>
    PROVE  /\ Head(s) \in S
           /\ Tail(s) \in Seq(S)
           /\ <<Head(s)>> \o Tail(s) = s
  OBVIOUS

\* The empty sequence is one of anything.
LEMMA EmptySeq == ASSUME NEW S PROVE <<>> \in Seq(S)
  OBVIOUS

\* Appending an element of the set.
LEMMA AppendType ==
    ASSUME NEW S, NEW s \in Seq(S), NEW e \in S
    PROVE  Append(s, e) \in Seq(S)
  OBVIOUS

\* Nothing in hand leaves a lane as it is.
LEMMA ConcatEmpty == ASSUME NEW S, NEW s \in Seq(S) PROVE <<>> \o s = s
  OBVIOUS

\* A request in hand is the head of its lane.
LEMMA ConcatOne ==
    ASSUME NEW S, NEW s \in Seq(S), NEW e \in S
    PROVE  /\ <<e>> \o s # <<>>
           /\ Head(<<e>> \o s) = e
           /\ Tail(<<e>> \o s) = s
  OBVIOUS

\* What is appended to a queue is appended to its lane.
LEMMA ConcatAppend ==
    ASSUME NEW S, NEW s \in Seq(S), NEW q \in Seq(S), NEW e \in S
    PROVE  s \o Append(q, e) = Append(s \o q, e)
  OBVIOUS

\* Each priority has its lane.
LEMMA LaneTypes == /\ HighRequest \subseteq Request
                   /\ NormalRequest \subseteq Request
                   /\ \A r \in Request : r.high => r \in HighRequest
                   /\ \A r \in Request : ~r.high => r \in NormalRequest
                   /\ \A r \in HighRequest : r.high
                   /\ \A r \in NormalRequest : ~r.high
  BY DEF HighRequest, NormalRequest

\* What the check lets through, and what it drops.
LEMMA OfferedTypes ==
    /\ Offered \subseteq Request
    /\ NoReq \notin Offered
    /\ \A r \in Request : Checked(r) \in Offered \cup {NoReq}
    /\ \A r \in Request : Checked(r) # NoReq => Check(r) /\ Checked(r) = r
    /\ \A r \in Request : Checked(r) = NoReq => ~Check(r)
  BY NoReqAssumption DEF Offered, Checked, Check

-----------------------------------------------------------------------------
\* A request that arrives goes to the lane of its priority.
LEMMA ReceiveTypes ==
    ASSUME SchedulerTypeOK, NEW r \in Request, Receive(r)
    PROVE  SchedulerTypeOK'
<1>1. CASE r.high
  <2>1. priReqQueue' \in Seq(HighRequest)
    BY <1>1, LaneTypes, AppendType DEF Receive, SchedulerTypeOK
  <2> QED BY <1>1, <2>1 DEF Receive, SchedulerTypeOK
<1>2. CASE ~r.high
  <2>1. reqQueue' \in Seq(NormalRequest)
    BY <1>2, LaneTypes, AppendType DEF Receive, SchedulerTypeOK
  <2> QED BY <1>2, <2>1 DEF Receive, SchedulerTypeOK
<1> QED BY <1>1, <1>2

\* What the loop picks is within its depth limit, or dropped.
LEMMA TakeTypes ==
    ASSUME SchedulerTypeOK, Take
    PROVE  SchedulerTypeOK'
<1> USE HeadTailTypes, LaneTypes, OfferedTypes DEF SchedulerTypeOK
<1>1. CASE TakeHigh
  BY <1>1 DEF TakeHigh
<1>2. CASE TakeNormal
  BY <1>2 DEF TakeNormal
<1> QED BY <1>1, <1>2 DEF Take

\* Whoever acts, the types are kept.
LEMMA StepTypes == ASSUME TypeOK, [Next]_vars PROVE TypeOK'
<1>1. CASE UNCHANGED <<schedVars, pushing, bypassed>>
  <2>1. holding' \in [Puller -> Offered \cup {NoReq}]
    BY <1>1, NoReqAssumption
       DEF TypeOK, Next, vars, Push, Pull, Finish, SchedulerStep, Dispatch, schedVars, Take
  <2> QED BY <1>1, <2>1 DEF TypeOK, SchedulerTypeOK, schedVars
<1>2. ASSUME NEW p \in Pusher, Push(p)
      PROVE  TypeOK'
  <2>1. Head(pushing[p]) \in Request /\ Tail(pushing[p]) \in Seq(Request)
    BY <1>2, HeadTailTypes DEF Push, TypeOK
  <2>2. SchedulerTypeOK'
    BY <1>2, <2>1, ReceiveTypes DEF Push, TypeOK
  <2> QED BY <1>2, <2>1, <2>2 DEF Push, TypeOK
<1>3. ASSUME NEW w \in Puller, Pull(w)
      PROVE  TypeOK'
  <2>1. req \in Offered /\ req.high \in BOOLEAN
    BY <1>3, OfferedTypes DEF Pull, Dispatch, TypeOK, SchedulerTypeOK, Request
  <2> QED BY <1>3, <2>1 DEF Pull, Dispatch, TypeOK, SchedulerTypeOK
<1>4. CASE SchedulerStep
  BY <1>4, TakeTypes DEF SchedulerStep, TypeOK
<1> QED BY <1>1, <1>2, <1>3, <1>4 DEF Next, Finish, vars, schedVars

\* The types hold throughout, whatever the callers do: no puller is ever given a
\* request over the depth limit of its task.
THEOREM TypeCorrect == Spec => []TypeOK
<1>1. Init => TypeOK
  <2>1. Init => SchedulerTypeOK
    BY EmptySeq DEF Init, SchedulerInit, SchedulerTypeOK
  <2> QED BY <2>1, ClientsAssumption DEF Init, TypeOK
<1> QED BY <1>1, StepTypes, PTL DEF Spec

-----------------------------------------------------------------------------
\* While nothing is in hand, a high request that waits is the one to be taken.
LEMMA HighFirst ==
    ASSUME SchedulerTypeOK, Take, priReqQueue # <<>>
    PROVE  req' # NoReq => req'.high
BY HeadTailTypes, LaneTypes, OfferedTypes DEF SchedulerTypeOK, Take, TakeHigh, TakeNormal

\* A step does not lose a request that was overtaken, nor offer another before.
LEMMA StepOvertaken ==
    ASSUME TypeOK, OvertakenIsNext, [Next]_vars
    PROVE  OvertakenIsNext'
<1>1. CASE UNCHANGED <<schedVars, bypassed>>
  BY <1>1 DEF OvertakenIsNext, schedVars
<1>2. CASE SchedulerStep
  <2>1. bypassed' => priReqQueue # <<>> /\ req' # NoReq
    BY <1>2 DEF SchedulerStep, Take, OvertakenIsNext
  <2> QED BY <1>2, <2>1, HighFirst DEF SchedulerStep, TypeOK, OvertakenIsNext
<1>3. ASSUME NEW p \in Pusher, Push(p)
      PROVE  OvertakenIsNext'
  <2>1. Head(pushing[p]) \in Request /\ priReqQueue \in Seq(HighRequest)
    BY <1>3, HeadTailTypes DEF Push, TypeOK, SchedulerTypeOK
  <2>2. priReqQueue # <<>> => priReqQueue' # <<>>
    BY <1>3, <2>1 DEF Push, Receive
  <2> QED BY <1>3, <2>2 DEF Push, Receive, OvertakenIsNext
<1>4. ASSUME NEW w \in Puller, Pull(w)
      PROVE  OvertakenIsNext'
  BY <1>4 DEF Pull, Dispatch, OvertakenIsNext
<1> QED BY <1>1, <1>2, <1>3, <1>4 DEF Next, Finish, vars, schedVars

\* Once a waiting high request was overtaken by a normal one, the next that the
\* scheduler offers is a high one.
THEOREM Overtaken == Spec => []OvertakenIsNext
<1>1. Init => OvertakenIsNext
  BY DEF Init, OvertakenIsNext
<1> QED BY <1>1, StepOvertaken, TypeCorrect, PTL DEF Spec

-----------------------------------------------------------------------------
\* Of the request in hand, exactly one of the two lanes sees a head.
LEMMA InHandTypes ==
    ASSUME TypeOK, NEW h \in BOOLEAN
    PROVE  InHand(h) \in Seq(Request)
<1>1. CASE req # NoReq /\ req.high = h
  BY <1>1, OfferedTypes DEF TypeOK, SchedulerTypeOK, InHand
<1>2. CASE ~(req # NoReq /\ req.high = h)
  BY <1>2, EmptySeq DEF InHand
<1>3. QED
  BY <1>1, <1>2

\* The queues hold requests.
LEMMA QueueTypes ==
    ASSUME TypeOK
    PROVE  priReqQueue \in Seq(Request) /\ reqQueue \in Seq(Request)
  BY LaneTypes DEF TypeOK, SchedulerTypeOK

\* A Push puts a request at the end of its lane.
LEMMA PushStep ==
    ASSUME TypeOK, NEW p \in Pusher, Push(p)
    PROVE  Lanes!Put(p)
<1> DEFINE r == Head(pushing[p])
<1>1. /\ pushing[p] # <<>> /\ r \in Request
      /\ req' = req /\ holding' = holding /\ bypassed' = bypassed
      /\ pushing' = [pushing EXCEPT ![p] = Tail(@)]
  BY HeadTailTypes DEF Push, Receive, TypeOK
<1>2. InHand(TRUE)' = InHand(TRUE) /\ InHand(FALSE)' = InHand(FALSE)
  BY <1>1 DEF InHand
<1>3. CASE r.high
  <2>1. priReqQueue' = Append(priReqQueue, r) /\ reqQueue' = reqQueue
    BY <1>3 DEF Push, Receive
  <2>2. (InHand(TRUE) \o priReqQueue)' = Append(InHand(TRUE) \o priReqQueue, r)
    <3>1. InHand(TRUE) \in Seq(Request) /\ priReqQueue \in Seq(Request)
      BY InHandTypes, QueueTypes
    <3>2. InHand(TRUE) \o Append(priReqQueue, r) = Append(InHand(TRUE) \o priReqQueue, r)
      <4>1. \A s, q \in Seq(Request), e \in Request :
              s \o Append(q, e) = Append(s \o q, e)
        BY ConcatAppend
      <4>2. QED
        BY <1>1, <3>1, <4>1, Zenon
    <3>3. QED
      BY <1>2, <2>1, <3>2
  <2>3. QED
    BY <1>1, <1>2, <1>3, <2>1, <2>2 DEF Lanes!Put
<1>4. CASE ~r.high
  <2>1. reqQueue' = Append(reqQueue, r) /\ priReqQueue' = priReqQueue
    BY <1>4 DEF Push, Receive
  <2>2. (InHand(FALSE) \o reqQueue)' = Append(InHand(FALSE) \o reqQueue, r)
    <3>1. InHand(FALSE) \in Seq(Request) /\ reqQueue \in Seq(Request)
      BY InHandTypes, QueueTypes
    <3>2. InHand(FALSE) \o Append(reqQueue, r) = Append(InHand(FALSE) \o reqQueue, r)
      <4>1. \A s, q \in Seq(Request), e \in Request :
              s \o Append(q, e) = Append(s \o q, e)
        BY ConcatAppend
      <4>2. QED
        BY <1>1, <3>1, <4>1, Zenon
    <3>3. QED
      BY <1>2, <2>1, <3>2
  <2>3. QED
    BY <1>1, <1>2, <1>4, <2>1, <2>2 DEF Lanes!Put
<1>5. QED
  BY <1>3, <1>4

\* A Pull gets the head of a lane; that of the normal one only if it may.
LEMMA PullStep ==
    ASSUME TypeOK, OvertakenIsNext, NEW w \in Puller, Pull(w)
    PROVE  Lanes!GetHigh(w) \/ Lanes!GetNormal(w)
<1>1. /\ holding[w] = NoReq /\ req # NoReq /\ req' = NoReq
      /\ holding' = [holding EXCEPT ![w] = req]
      /\ bypassed' = (~req.high /\ priReqQueue # <<>>)
      /\ UNCHANGED <<priReqQueue, reqQueue, pushing>>
  BY DEF Pull, Dispatch
<1>2. req \in Request /\ req.high \in BOOLEAN
  BY <1>1, OfferedTypes DEF TypeOK, SchedulerTypeOK, Request
<1>3. /\ InHand(TRUE)' = <<>>
      /\ InHand(FALSE)' = <<>>
  BY <1>1 DEF InHand
<1>4. /\ (InHand(TRUE) \o priReqQueue)' = priReqQueue
      /\ (InHand(FALSE) \o reqQueue)' = reqQueue
  BY <1>1, <1>3, QueueTypes, ConcatEmpty
<1>5. CASE req.high
  <2>1. InHand(TRUE) = <<req>> /\ InHand(FALSE) = <<>>
    BY <1>1, <1>2, <1>5 DEF InHand
  <2>2. /\ InHand(TRUE) \o priReqQueue # <<>>
        /\ Head(InHand(TRUE) \o priReqQueue) = req
        /\ Tail(InHand(TRUE) \o priReqQueue) = priReqQueue
    BY <1>2, <2>1, QueueTypes, ConcatOne
  <2>3. InHand(FALSE) \o reqQueue = reqQueue
    BY <2>1, QueueTypes, ConcatEmpty
  <2>4. QED
    BY <1>1, <1>4, <1>5, <2>2, <2>3 DEF Lanes!GetHigh
<1>6. CASE ~req.high
  <2>1. InHand(FALSE) = <<req>> /\ InHand(TRUE) = <<>>
    BY <1>1, <1>2, <1>6 DEF InHand
  <2>2. /\ InHand(FALSE) \o reqQueue # <<>>
        /\ Head(InHand(FALSE) \o reqQueue) = req
        /\ Tail(InHand(FALSE) \o reqQueue) = reqQueue
    BY <1>2, <2>1, QueueTypes, ConcatOne
  <2>3. InHand(TRUE) \o priReqQueue = priReqQueue
    BY <2>1, QueueTypes, ConcatEmpty
  <2>4. ~bypassed
    BY <1>1, <1>6 DEF OvertakenIsNext
  <2>5. QED
    BY <1>1, <1>4, <1>6, <2>2, <2>3, <2>4 DEF Lanes!GetNormal
<1>7. QED
  BY <1>5, <1>6

\* What the loop takes stays the head of its lane, or is discarded.
LEMMA TakeStep ==
    ASSUME TypeOK, SchedulerStep
    PROVE  \/ Lanes!DiscardHigh \/ Lanes!DiscardNormal
           \/ UNCHANGED Lanes!vars
<1>1. /\ req = NoReq
      /\ UNCHANGED <<pushing, holding>>
      /\ bypassed' = (bypassed /\ ~(priReqQueue # <<>> /\ req' = NoReq))
  BY DEF SchedulerStep, Take
<1>2. /\ InHand(TRUE) \o priReqQueue = priReqQueue
      /\ InHand(FALSE) \o reqQueue = reqQueue
  BY <1>1, QueueTypes, ConcatEmpty DEF InHand
<1>3. bypassed \in BOOLEAN
  BY DEF TypeOK
<1>4. CASE TakeHigh
  <2> DEFINE r == Head(priReqQueue)
  <2>1. /\ priReqQueue # <<>> /\ r \in Request /\ r.high = TRUE
        /\ priReqQueue' = Tail(priReqQueue) /\ reqQueue' = reqQueue
        /\ req' = Checked(r)
        /\ priReqQueue' \in Seq(Request)
        /\ <<r>> \o Tail(priReqQueue) = priReqQueue
    BY <1>4, HeadTailTypes, QueueTypes, LaneTypes
    DEF TakeHigh, TypeOK, SchedulerTypeOK, HighRequest, Request
  <2>2. CASE req' = NoReq
    <3>1. /\ (InHand(TRUE) \o priReqQueue)' = Tail(priReqQueue)
          /\ (InHand(FALSE) \o reqQueue)' = reqQueue
      BY <2>1, <2>2, QueueTypes, ConcatEmpty DEF InHand
    <3>2. ~Lanes!Check(r)
      BY <2>1, <2>2, OfferedTypes DEF Check, Lanes!Check
    <3>3. bypassed' = FALSE
      BY <1>1, <2>1, <2>2
    <3>4. QED
      BY <1>1, <1>2, <2>1, <3>1, <3>2, <3>3 DEF Lanes!DiscardHigh
  <2>3. CASE req' # NoReq
    <3>1. req' = r
      BY <2>1, <2>3, OfferedTypes
    <3>2. InHand(TRUE)' = <<r>> /\ InHand(FALSE)' = <<>>
      BY <2>1, <2>3, <3>1 DEF InHand
    <3>3. /\ (InHand(TRUE) \o priReqQueue)' = priReqQueue
          /\ (InHand(FALSE) \o reqQueue)' = reqQueue
      BY <2>1, <3>2, QueueTypes, ConcatEmpty
    <3>4. bypassed' = bypassed
      BY <1>1, <1>3, <2>3
    <3>5. QED
      BY <1>1, <1>2, <3>3, <3>4 DEF Lanes!vars
  <2>4. QED
    BY <2>2, <2>3
<1>5. CASE TakeNormal
  <2> DEFINE r == Head(reqQueue)
  <2>1. /\ reqQueue # <<>> /\ r \in Request /\ r.high = FALSE
        /\ reqQueue' = Tail(reqQueue) /\ priReqQueue' = priReqQueue
        /\ req' = Checked(r) /\ priReqQueue = <<>>
        /\ reqQueue' \in Seq(Request)
        /\ <<r>> \o Tail(reqQueue) = reqQueue
    BY <1>5, HeadTailTypes, QueueTypes, LaneTypes
    DEF TakeNormal, TypeOK, SchedulerTypeOK, NormalRequest, Request
  <2>2. bypassed' = bypassed
    BY <1>1, <1>3, <2>1
  <2>3. CASE req' = NoReq
    <3>1. /\ (InHand(TRUE) \o priReqQueue)' = priReqQueue
          /\ (InHand(FALSE) \o reqQueue)' = Tail(reqQueue)
      BY <2>1, <2>3, QueueTypes, ConcatEmpty DEF InHand
    <3>2. ~Lanes!Check(r)
      BY <2>1, <2>3, OfferedTypes DEF Check, Lanes!Check
    <3>3. QED
      BY <1>1, <1>2, <2>1, <2>2, <3>1, <3>2 DEF Lanes!DiscardNormal
  <2>4. CASE req' # NoReq
    <3>1. req' = r
      BY <2>1, <2>4, OfferedTypes
    <3>2. InHand(TRUE)' = <<>> /\ InHand(FALSE)' = <<r>>
      BY <2>1, <2>4, <3>1 DEF InHand
    <3>3. /\ (InHand(TRUE) \o priReqQueue)' = priReqQueue
          /\ (InHand(FALSE) \o reqQueue)' = reqQueue
      BY <2>1, <3>2, QueueTypes, ConcatEmpty
    <3>4. QED
      BY <1>1, <1>2, <2>2, <3>3 DEF Lanes!vars
  <2>5. QED
    BY <2>3, <2>4
<1>6. QED
  BY <1>4, <1>5 DEF SchedulerStep, Take

\* What the lanes see of a step: one of theirs, or none.
LEMMA StepLanes ==
    ASSUME TypeOK, OvertakenIsNext, [Next]_vars
    PROVE  [Lanes!Next]_Lanes!vars
<1>1. CASE SchedulerStep
  BY <1>1, TakeStep DEF Lanes!Next
<1>2. CASE \E p \in Pusher : Push(p)
  BY <1>2, PushStep DEF Lanes!Next
<1>3. CASE \E w \in Puller : Pull(w)
  BY <1>3, PullStep DEF Lanes!Next
<1>4. CASE \E w \in Puller : Finish(w)
  BY <1>4 DEF Finish, schedVars, InHand, Lanes!Done, Lanes!Next
<1>5. CASE UNCHANGED vars
  BY <1>5 DEF vars, InHand, Lanes!vars
<1> QED BY <1>1, <1>2, <1>3, <1>4, <1>5 DEF Next

\* The scheduler implements the two lanes: order, no loss, no duplicate and
\* one overtaking at most, for any callers.
THEOREM Refinement == Spec => TwoLanesSpec
<1>1. Init => Lanes!Init
  BY DEF Init, SchedulerInit, InHand, Lanes!Init
<1> QED BY <1>1, StepLanes, TypeCorrect, Overtaken, PTL DEF Spec, TwoLanesSpec, Lanes!Spec
=============================================================================
