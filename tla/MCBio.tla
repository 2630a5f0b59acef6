------------------------------- MODULE MCBio --------------------------------
(* Bio on a small instance: one block more than there are buffers. *)
EXTENDS Bio
=============================================================================
