--------------------------- MODULE MCScanControl ---------------------------
(* Instances of ScanControl for TLC.                                       *)
EXTENDS ScanControl

=============================================================================
