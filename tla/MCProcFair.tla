----------------------------- MODULE MCProcFair -----------------------------
(* ProcFair on one CPU, the default of the Makefile. *)
EXTENDS ProcFair

=============================================================================
