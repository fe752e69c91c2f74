---- MODULE MCFileSelection ----
(* Instances of FileSelection for TLC: every layout of a few small files.  *)
EXTENDS FileSelection
=============================================================================
