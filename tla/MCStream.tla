------------------------------ MODULE MCStream ------------------------------
(* Instances of Stream for TLC.                                            *)
EXTENDS Stream

(* One rate below the lower rate by more than half, one between the two.   *)
Rates == <<4, 2>>

=============================================================================
