---------------------------- MODULE MCScanStream ----------------------------
(* A small instance of ScanStream for TLC. *)
EXTENDS ScanStream
=============================================================================
