------------------------------- MODULE MCMesi -------------------------------
(* Four processors: enough for a reader, a writer, a supplier and a bystander. *)
EXTENDS Mesi

MCValues == {0, 1, 2, 15213}
MCWriteValues == {0, 1, 2}
=============================================================================
