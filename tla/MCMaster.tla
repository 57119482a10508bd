------------------------------ MODULE MCMaster ------------------------------
(***************************************************************************)
(* Two masters; the first resource is a seed, and no name begins another.  *)
(***************************************************************************)
EXTENDS Master, TLC

CONSTANTS m1, m2, n1, n2, r1, r2,
          Churn, Expire, Crashes, Errors  \* the bounds, by kind

MCSeeds == <<r1>>
MCExtending == [r \in Resource |-> {r}]
MCBound == ("churn" :> Churn) @@ ("expire" :> Expire) @@
           ("crash" :> Crashes) @@ ("error" :> Errors)
=============================================================================
