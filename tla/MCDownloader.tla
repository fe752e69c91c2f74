---- MODULE MCDownloader ----
(* Instances of Downloader for TLC.                                        *)
EXTENDS Downloader
CONSTANTS t1, t2, w1, w2

MCPrefix == [t \in Torrents |-> t]
MCPercents == 0 .. NPieces + 1
=============================================================================
