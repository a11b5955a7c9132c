----------------------------- MODULE MCIOManager -----------------------------
(* Small instances of IOManager for TLC. *)
EXTENDS IOManager

CONSTANTS f1, f2, f3, t1, t2

=============================================================================
