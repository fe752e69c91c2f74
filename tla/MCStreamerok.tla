---- MODULE MCStreamerok ----
(* Instances of Streamerok for TLC.                                        *)
EXTENDS Streamerok
CONSTANTS t1, t2, w1, w2

MCPrefix == [t \in Torrents |-> t]
=============================================================================
