---------------------------- MODULE MCTfsSectors -----------------------------
(***************************************************************************)
(* Small areas for TLC: the first block unused, as in the program, one for *)
(* the control chain to begin in, and the others for the files.            *)
(***************************************************************************)
EXTENDS TfsSectors

File(f, n) == [file |-> f, len |-> n]
Room == {<<File("f", 1)>>, <<File("f", 2), File("g", 1)>>, <<File("g", 7)>>, <<File("f", 0)>>}
Emptying == {<<File("f", 0)>>, <<File("f", 1)>>, <<File("g", 1)>>}
=============================================================================
