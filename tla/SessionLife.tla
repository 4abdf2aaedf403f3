----------------------------- MODULE SessionLife -----------------------------
(***************************************************************************)
(* What a program owes to a session of the AmTsPlayer library: it is made  *)
(* once, its video is switched only while it lives, on with its own codec  *)
(* and PID, and it is released once, with the video stopped before; after  *)
(* that nobody calls it.                                                   *)
(*                                                                         *)
(* What the two example programs do besides is named below.  The library's *)
(* answer to a call through a released handle is its own affair            *)
(* (AM_TSPLAYER_ERROR_INVALID_OBJECT is one); such a session is "late",    *)
(* and "twice" after a second release.                                     *)
(***************************************************************************)
VARIABLES
  life,             \* "none", "live", "released", "late" or "twice"
  decoding          \* "off", or the video it decodes: its "own" or some "other"

Init == life = "none" /\ decoding = "off"

Create == life = "none" /\ life' = "live" /\ UNCHANGED decoding
Switch == life = "live" /\ decoding' \in {"off", "own"} /\ UNCHANGED life
Release == life = "live" /\ decoding = "off" /\ life' = "released" /\ UNCHANGED decoding

sessionVars == <<life, decoding>>

Next == Create \/ Switch \/ Release
Spec == Init /\ [][Next]_sessionVars

\* The video goes on with the codec and PID of another channel, or with none.
Foreign == life = "live" /\ decoding' = "other" /\ UNCHANGED life

\* A release with the video on.
Cut == life = "live" /\ decoding # "off" /\ life' = "released" /\ UNCHANGED decoding

\* A call, and a release, through a released handle.
Late == life = "released" /\ life' = "late" /\ UNCHANGED decoding
Again == life \in {"released", "late"} /\ life' = "twice" /\ UNCHANGED decoding
=============================================================================
