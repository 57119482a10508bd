------------------------------ MODULE TwoLanes ------------------------------
(***************************************************************************)
(* What engine.Scheduler promises the goroutines that Push and Pull: two   *)
(* first-in first-out lanes, one for requests of high priority and one for *)
(* the others.  No request is lost, invented or handed out twice; a        *)
(* request refused by its depth check may leave its lane unseen.  While a  *)
(* high request waits, at most one normal request is handed out before the *)
(* next high one: that much and no more is promised of priority.           *)
(***************************************************************************)
EXTENDS Spider, Sequences

CONSTANTS Pusher, Puller, Program

VARIABLES high,      \* the high lane
          normal,    \* the normal lane
          bypassed,  \* a normal request went first while a high one waited
          pushing,   \* what each pusher has still to hand over
          holding    \* what each puller got, NoReq when it asks for more

vars == <<high, normal, bypassed, pushing, holding>>

Init == /\ high = <<>>
        /\ normal = <<>>
        /\ bypassed = FALSE
        /\ pushing = Program
        /\ holding = [w \in Puller |-> NoReq]

Put(p) == /\ pushing[p] # <<>>
          /\ pushing' = [pushing EXCEPT ![p] = Tail(@)]
          /\ LET r == Head(pushing[p]) IN
               IF r.high
               THEN high' = Append(high, r) /\ UNCHANGED normal
               ELSE normal' = Append(normal, r) /\ UNCHANGED high
          /\ UNCHANGED <<bypassed, holding>>

GetHigh(w) == /\ holding[w] = NoReq
              /\ high # <<>>
              /\ holding' = [holding EXCEPT ![w] = Head(high)]
              /\ high' = Tail(high)
              /\ bypassed' = FALSE
              /\ UNCHANGED <<normal, pushing>>

GetNormal(w) == /\ holding[w] = NoReq
                /\ normal # <<>>
                /\ high # <<>> => ~bypassed
                /\ holding' = [holding EXCEPT ![w] = Head(normal)]
                /\ normal' = Tail(normal)
                /\ bypassed' = (high # <<>>)
                /\ UNCHANGED <<high, pushing>>

DiscardHigh == /\ high # <<>>
               /\ ~Check(Head(high))
               /\ high' = Tail(high)
               /\ bypassed' = FALSE
               /\ UNCHANGED <<normal, pushing, holding>>

DiscardNormal == /\ normal # <<>>
                 /\ ~Check(Head(normal))
                 /\ normal' = Tail(normal)
                 /\ UNCHANGED <<high, bypassed, pushing, holding>>

Done(w) == /\ holding[w] # NoReq
           /\ holding' = [holding EXCEPT ![w] = NoReq]
           /\ UNCHANGED <<high, normal, bypassed, pushing>>

Next == \/ \E p \in Pusher : Put(p)
        \/ \E w \in Puller : GetHigh(w) \/ GetNormal(w) \/ Done(w)
        \/ DiscardHigh \/ DiscardNormal

Spec == Init /\ [][Next]_vars
=============================================================================
