----------------------------- MODULE MCScheduler -----------------------------
(***************************************************************************)
(* Three pushers, two pullers and six distinct requests: three normal, two *)
(* high and one over the depth limit in each lane.                         *)
(***************************************************************************)
EXTENDS SchedulerClients, TLC

CONSTANTS t, p1, p2, p3, w1, w2

R(u, d, h) == [task |-> t, url |-> u, depth |-> d, high |-> h]

MCMaxDepth == [x \in Task |-> 1]
MCProgram == (p1 :> <<R(1, 0, FALSE), R(2, 2, TRUE), R(3, 1, TRUE)>>) @@
             (p2 :> <<R(4, 1, FALSE), R(5, 0, TRUE)>>) @@
             (p3 :> <<R(6, 2, FALSE), R(7, 0, FALSE)>>)
=============================================================================
