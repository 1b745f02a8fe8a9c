---------------------------- MODULE MC_LiveSync ----------------------------
(* Two deals of one millisecond, reported in batches of one. *)
EXTENDS LiveSync

SameMillisecond == <<1, 1>>
=============================================================================
