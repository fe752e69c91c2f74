---- MODULE MCFetches ----
(* Instances of Fetches for TLC.                                           *)
EXTENDS Fetches
CONSTANTS f1, f2

(* One film with subtitles and one without.                                *)
MCZip == [f \in Films |-> IF f = f1 THEN 1 ELSE 0]

(* Two files of subtitles in an archive.                                   *)
MCZipTwo == [f \in Films |-> IF f = f1 THEN 2 ELSE 0]
=============================================================================
