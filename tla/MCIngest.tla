------------------------------- MODULE MCIngest -------------------------------
EXTENDS Ingest, TLC

CONSTANTS e1, e2, t1, t2

(* One event is delivered twice.                                            *)
MCMaxSent == e1 :> 2 @@ e2 :> 1

=============================================================================
