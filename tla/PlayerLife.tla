----------------------------- MODULE PlayerLife -----------------------------
(***************************************************************************)
(* The life of one player of example/EsVideoDecPlayer, as the process that *)
(* runs it sees it: new until it has opened its files; then playing, or    *)
(* dumb, when its decoder was not initialised, which nobody looks at;      *)
(* leaving, when play() has returned; over, when its thread has ended.  A  *)
(* player that aborts ends the whole process.                              *)
(***************************************************************************)
VARIABLE life

\* What may become of a player: a dumb one waits for ever or aborts, and one
\* that has returned from play() cannot abort any more.
Moves ==
  {<<"new", "playing">>, <<"new", "dumb">>, <<"new", "leaving">>, <<"new", "aborted">>,
   <<"playing", "leaving">>, <<"playing", "aborted">>,
   <<"dumb", "aborted">>,
   <<"leaving", "over">>}

Init == life = "new"
Next == \E move \in Moves : life = move[1] /\ life' = move[2]
Spec == Init /\ [][Next]_life
=============================================================================
