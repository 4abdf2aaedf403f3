-------------------------- MODULE MCTsPlayerOptions --------------------------
(***************************************************************************)
(* Instances of TsPlayerOptions for TLC: every letter, with the values at  *)
(* and beyond the ends of what main() tells apart.                         *)
(***************************************************************************)
EXTENDS TsPlayerOptions

Opt(letter, values) == {[letter |-> letter, value |-> v] : v \in values}

AllOptions ==
  UNION {Opt("t", -1 .. 4), Opt("d", 0 .. 2), Opt("b", {1}), Opt("y", {0, 7}), Opt("c", {0, 3}),
         Opt("v", {0, 7, 99}), Opt("a", {0, 8}), Opt("V", {256, 512}), Opt("A", {513}),
         Opt("g", {100}), Opt("o", {-1, 514}), Opt("p", {2}), Opt("q", {10}), Opt("h", {0})}
=============================================================================
