------------------------------- MODULE MCEsMain -------------------------------
(***************************************************************************)
(* Instances of EsMain for TLC.                                            *)
(***************************************************************************)
EXTENDS EsMain

\* No format, and one of the others, which make no difference.
SomeFormats == {-1, 2}

\* From none to more than the three players there may be.
SomeNumbers == 0 .. 4

AllFaults == {"thread", "sysfs"}
=============================================================================
