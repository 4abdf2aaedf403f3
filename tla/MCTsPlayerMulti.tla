-------------------------- MODULE MCTsPlayerMulti --------------------------
(***************************************************************************)
(* Instances of TsPlayerMulti for TLC: the keys and failures of a run.     *)
(***************************************************************************)
EXTENDS TsPlayerMulti

AllVideoKeys == {"p", "r", "h", "s"}
NoVideoKeys == {}

AllFaults == {"thread", "file"}
FileFaults == {"file"}
NoFaults == {}
=============================================================================
