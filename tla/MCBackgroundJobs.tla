--------------------------- MODULE MCBackgroundJobs ---------------------------
(* Names of alerts are given out once, so events that are rolled back need    *)
(* names of their own.                                                      *)
EXTENDS BackgroundJobs, TLC

=============================================================================
