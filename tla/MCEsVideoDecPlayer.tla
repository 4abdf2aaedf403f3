------------------------ MODULE MCEsVideoDecPlayer ------------------------
(***************************************************************************)
(* Instances of EsVideoDecPlayer for TLC: which failures a run allows.     *)
(***************************************************************************)
EXTENDS EsVideoDecPlayer

\* Everything the environment can let fail.
AllFaults == FaultKinds

\* Failures the player survives: the decoder refuses a frame, the input or
\* the CRC file cannot be opened, the input is cut short.
MildFaults == {"input", "frame", "reject", "crc"}

NoFaults == {}
=============================================================================
