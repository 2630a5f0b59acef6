------------------------------- MODULE MCPipe -------------------------------
(* Pipe on a small instance: a write does not fit and sleeps half-way. *)
EXTENDS Pipe

LongWrite == {<<0, 1, 0>>}
=============================================================================
