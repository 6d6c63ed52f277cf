------------------------------ MODULE MCScanRun ------------------------------
(* Instances of scanRepos for TLC.                                         *)
EXTENDS ScanRunProps

CONSTANTS r1, r2, f1, f2, f3, p1, p2

=============================================================================
