-------------------------- MODULE MCTsPlayerSingle --------------------------
(***************************************************************************)
(* Instances of TsPlayerSingle for TLC: files, keys, threads and failures. *)
(***************************************************************************)
EXTENDS TsPlayerSingle

\* Missing, empty, less than one buffer, one buffer, and one and a half.
AllSizes == {-1, 0, 1, 2, 3}
Missing == {-1}

SomeKeys == {"p", "r", "q"}
NoKeys == {}

FileOnly == {FALSE}
FileOrDemod == BOOLEAN

MainOnly == {"main"}
AnyThread == {"main", "other"}

WriteErrors == {"error"}
NoFaults == {}
=============================================================================
