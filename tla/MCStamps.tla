------------------------------ MODULE MCStamps ------------------------------
(* Seventeen days with two elapses: the machine may be off over both, over   *)
(* either, over the Mondays before, between and after them, and long enough  *)
(* for the stamp to be old when it is switched on.                           *)
EXTENDS Stamps

MCElapses == {3, 14}
MCMondays == {2, 9, 16}

MCMachines == {m \in [separateVar : BOOLEAN, racing : BOOLEAN] : ~(m.separateVar /\ m.racing)}
=============================================================================
