----------------------------- MODULE MCResults ------------------------------
(* Instances of Results for TLC.                                           *)
EXTENDS Results

=============================================================================
