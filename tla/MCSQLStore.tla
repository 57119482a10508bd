----------------------------- MODULE MCSQLStore -----------------------------
(***************************************************************************)
(* Five cells of two tasks and three rules; the kinds differ in width, and *)
(* two rules of one task, or two tasks of one width, share a buffer.       *)
(***************************************************************************)
EXTENDS SQLStore, TLC

CONSTANTS c1, c2, c3, c4, c5, books, groups, wide, narrow, other

MCTableOf == (c1 :> books) @@ (c2 :> books) @@ (c3 :> books)
             @@ (c4 :> groups) @@ (c5 :> books)
MCKindOf == (c1 :> wide) @@ (c2 :> wide) @@ (c3 :> wide) @@ (c4 :> other)
            @@ (c5 :> narrow)
MCWidth == (wide :> 3) @@ (other :> 3) @@ (narrow :> 2)
=============================================================================
