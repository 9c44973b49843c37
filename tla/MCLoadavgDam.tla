---------------------------- MODULE MCLoadavgDam ----------------------------
(* Three jobs in the dam: one of them is always eligible, one only while   *)
(* the load is at its lowest, and one was given "1x", whose error main()   *)
(* does not act upon.  Times are scaled: 30 s to 3, 5 s to 1.              *)
EXTENDS LoadavgDam, TLC

CONSTANTS p1, p2, p3

MCTarget   == (p1 :> 2) @@ (p2 :> 1) @@ (p3 :> 1)
MCParseErr == (p1 :> FALSE) @@ (p2 :> FALSE) @@ (p3 :> TRUE)
=============================================================================
