---------------------------- MODULE MCWatchWrap -----------------------------
(* The three directories, of which override need not exist.                 *)
EXTENDS WatchWrap

Override == {"override"}
=============================================================================
