---------------------------- MODULE MCWatchIndex ----------------------------
(* Times in quarters of a second: the default window of 1.5 s, the default   *)
(* period of events, and a poll every second, so that a change may fall      *)
(* between two polls within one window.  Three events, on two files.         *)
EXTENDS WatchIndex
=============================================================================
