---------------------------- MODULE MCIngestion -----------------------------
(* One pair whose history takes two pages; or two, one of them just listed, *)
(* that share a job and its session.                                       *)
EXTENDS Ingestion, TLC

CONSTANTS btc, eth

Three == btc :> 3

TwoAndNone == btc :> 2 @@ eth :> 0
=============================================================================
