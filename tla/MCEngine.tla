------------------------------ MODULE MCEngine ------------------------------
(***************************************************************************)
(* Two tasks that share a page.  Task t crawls a, which links to c and,    *)
(* with high priority, to b; task s crawls b, whose link is beyond the     *)
(* depth limit of t.  Page c takes a worker down, where the configuration  *)
(* says so, and page d cannot be parsed.  Task x is not registered, and    *)
(* the roots of y fail.                                                    *)
(***************************************************************************)
EXTENDS Engine, TLC

CONSTANTS t, s, x, y, a, b, c, d, w1, w2, p1, p2, p3, p4

L(u, h) == [url |-> u, high |-> h]

MCMaxDepth == [k \in Task |-> 1]
MCSeeds == <<x, t, y, s>>
MCRoots == [k \in Task |-> <<CASE k = t -> L(a, TRUE)
                              [] k = s -> L(b, FALSE)
                              [] OTHER -> L(c, FALSE)>>]

MCLinks == (a :> <<L(c, FALSE), L(b, TRUE)>>) @@ (b :> <<L(d, FALSE)>>)
           @@ (c :> <<>>) @@ (d :> <<>>)
=============================================================================
