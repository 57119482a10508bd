----------------------------- MODULE MCProcesses -----------------------------
(***************************************************************************)
(* Workers with the default flags on two hosts, and one with all of them   *)
(* but pprof; a master, and one with flags as in docker-compose.yml.       *)
(***************************************************************************)
EXTENDS Processes

CONSTANTS w1, w2, w3, m1, m2

MCHost == (w1 :> "a") @@ (w2 :> "b") @@ (w3 :> "a") @@ (m1 :> "a") @@ (m2 :> "b")
MCArgs == (w1 :> <<>>) @@ (w2 :> <<>>)
          @@ (w3 :> [id |-> "2", http |-> ":8070", grpc |-> ":9070"])
          @@ (m1 :> <<>>) @@ (m2 :> [id |-> "3", http |-> ":8082", grpc |-> ":9092"])
=============================================================================
