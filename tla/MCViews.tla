------------------------------- MODULE MCViews -------------------------------
(* Instances of Views for TLC.                                             *)
EXTENDS Views
=============================================================================
