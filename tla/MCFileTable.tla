---------------------------- MODULE MCFileTable -----------------------------
(* FileTable on a small instance: descriptors, files and pages all run out. *)
EXTENDS FileTable

ReadWrite == {<<TRUE, TRUE>>}
=============================================================================
