------------------------------ MODULE MCFetching ------------------------------
(***************************************************************************)
(* Two workers.  Task a has two limits and a browser, b has one limit      *)
(* and the plain fetcher, c has neither limits nor a fetcher, d has no     *)
(* fetcher.                                                                *)
(***************************************************************************)
EXTENDS Fetching

CONSTANTS a, b, c, d, w1, w2

L(count, dur) == [count |-> count, dur |-> dur]

MCLimits == (a :> <<L(1, 1), L(2, 4)>>) @@ (b :> <<L(1, 1)>>) @@ (c :> <<>>)
            @@ (d :> <<L(1, 1)>>)
MCFetcher == (a :> "browser") @@ (b :> "base") @@ (c :> "none") @@ (d :> "none")
MCWaitTime == [t \in Task |-> 1]
MCProxies == <<"p", "q", "r">>
=============================================================================
