---------------------------- MODULE EsMainProofs ----------------------------
(***************************************************************************)
(* What holds of main() of example/EsVideoDecPlayer for every greatest     *)
(* number of players, every command line and every failure.                *)
(***************************************************************************)
EXTENDS EsMain, TLAPS

USE FormatsAssumption, NumbersAssumption, MaxAssumption, FaultsAssumption

(***************************************************************************)
(* Type correctness.                                                       *)
(***************************************************************************)

TypeInv == TypeOK /\ MainInv

LEMMA InitHolds == Init => TypeInv
<1> SUFFICES ASSUME Init PROVE TypeInv
  OBVIOUS
<1>1. TypeOK
  BY DEF Init, TypeOK, Players, Lives
<1>2. MainInv
  BY DEF Init, MainInv, Players
<1>3. QED
  BY <1>1, <1>2 DEF TypeInv

\* The number of players of a command line is an integer.
LEMMA NumberIsInt == TypeOK => args.num \in Int
<1> SUFFICES ASSUME TypeOK PROVE args.num \in Int
  OBVIOUS
<1>1. args \in [given : SUBSET {"i", "f", "s", "h"}, many : BOOLEAN, vFmt : Formats, num : Numbers \cup {1}]
  BY DEF TypeOK, CommandLine
<1>2. PICK g \in SUBSET {"i", "f", "s", "h"}, m \in BOOLEAN, f \in Formats, n \in Numbers \cup {1} :
        args = [given |-> g, many |-> m, vFmt |-> f, num |-> n]
  BY <1>1, Zenon
<1>3. QED
  BY <1>2

\* Before main() starts a player, and after it has seen the last one off.
LEMMA OutsideStep ==
  ASSUME TypeInv, Refuse \/ Accept \/ Bypass \/ AllJoined \/ Restore
  PROVE  TypeInv'
<1>1. args.num \in Int
  BY NumberIsInt DEF TypeInv
<1>2. CASE Refuse \/ Accept
  <2>1. TypeOK'
    BY <1>2 DEF TypeInv, TypeOK, Refuse, Accept, GoTo, switchVars
  <2>2. MainInv'
    BY <1>2, <1>1 DEF TypeInv, MainInv, Refuse, Accept, Accepted, GoTo, switchVars
  <2>3. QED
    BY <2>1, <2>2 DEF TypeInv
<1>3. CASE Bypass
  <2>1. /\ UNCHANGED <<args, i, life, process>>
        /\ main = "bypass" /\ main' = "spawn" /\ process = "running"
        /\ bypass' \in {bypass, "1"} /\ lost' \in {lost, lost \cup {"1"}}
        /\ bypass' = "1" \/ "1" \in lost'
    BY <1>3 DEF Bypass, Control, GoTo
  <2>2. TypeOK'
    BY <2>1 DEF TypeInv, TypeOK
  <2>3. MainInv'
    <3>1. i = 1 /\ \A p \in Players : life[p] = "unborn"
      BY <2>1 DEF TypeInv, MainInv
    <3>2. QED
      BY <2>1, <3>1 DEF TypeInv, MainInv
  <2>4. QED
    BY <2>2, <2>3 DEF TypeInv
<1>4. CASE AllJoined
  <2>1. TypeOK'
    BY <1>4 DEF TypeInv, TypeOK, AllJoined, GoTo, switchVars
  <2>2. \A p \in Players : p \in Int
    BY DEF Players
  <2>3. i \in Int
    BY DEF TypeInv, TypeOK
  <2>4. MainInv'
    BY <1>4, <1>1, <2>2, <2>3 DEF TypeInv, MainInv, AllJoined, GoTo, switchVars
  <2>5. QED
    BY <2>1, <2>4 DEF TypeInv
<1>5. CASE Restore
  <2>1. /\ UNCHANGED <<args, i, life>>
        /\ main = "restore" /\ main' = "returned" /\ process' = "returned"
        /\ bypass' \in {bypass, "0"} /\ lost' \in {lost, lost \cup {"0"}}
    BY <1>5 DEF Restore, Control, GoTo
  <2>2. TypeOK'
    BY <2>1 DEF TypeInv, TypeOK
  <2>3. QED
    BY <2>1, <2>2 DEF TypeInv, MainInv
<1>6. QED
  BY <1>2, <1>3, <1>4, <1>5

\* Players are started one by one, none beyond the number of the command line.
LEMMA SpawnStep ==
  ASSUME TypeInv, SpawnPlayer \/ SpawnFails \/ Spawned
  PROVE  TypeInv'
<1>1. args.num \in Int /\ i \in Nat \ {0} /\ \A p \in Players : p \in Nat \ {0}
  BY NumberIsInt DEF TypeInv, TypeOK, Players
<1>2. CASE SpawnPlayer
  <2>1. /\ UNCHANGED <<main, args, bypass, lost, process>>
        /\ main = "spawn" /\ i <= args.num /\ i' = i + 1
        /\ life' = [life EXCEPT ![i] = "new"]
        /\ args.num <= MAX_INSTANCE_MUN
    BY <1>2 DEF SpawnPlayer, NextOne, GoTo, switchVars, TypeInv, MainInv
  <2>2. i \in Players
    BY <1>1, <2>1 DEF Players
  <2>3. TypeOK'
    <3>1. life' \in [Players -> Lives]
      BY <2>1, <2>2 DEF TypeInv, TypeOK, Lives
    <3>2. i' \in 1 .. MAX_INSTANCE_MUN + 1
      BY <1>1, <2>1
    <3>3. QED
      BY <2>1, <3>1, <3>2 DEF TypeInv, TypeOK
  <2>4. \A p \in Players : life'[p] # "unborn" => p < i'
    <3>1. \A p \in Players : p # i => life'[p] = life[p]
      BY <2>1 DEF TypeInv, TypeOK
    <3>2. QED
      BY <1>1, <2>1, <3>1 DEF TypeInv, MainInv
  <2>5. i' <= args.num + 1
    BY <1>1, <2>1
  <2>6. MainInv'
    BY <2>1, <2>4, <2>5 DEF TypeInv, MainInv
  <2>7. QED
    BY <2>3, <2>6 DEF TypeInv
<1>3. CASE SpawnFails
  BY <1>3 DEF TypeInv, TypeOK, MainInv, SpawnFails, GoTo, switchVars
<1>4. CASE Spawned
  <2>1. /\ UNCHANGED <<args, life, bypass, lost, process>>
        /\ main = "spawn" /\ main' = "join" /\ i > args.num /\ i' = 1
    BY <1>4 DEF Spawned, GoTo, switchVars
  <2>2. TypeOK'
    BY <2>1 DEF TypeInv, TypeOK
  <2>3. ASSUME NEW p \in Players
        PROVE  ~ (p < i') /\ (life[p] # "unborn" => p <= args.num)
    BY <1>1, <2>1 DEF TypeInv, MainInv
  <2>4. MainInv'
    BY <2>1, <2>3 DEF TypeInv, MainInv
  <2>5. QED
    BY <2>2, <2>4 DEF TypeInv
<1>5. QED
  BY <1>2, <1>3, <1>4

\* main() goes on to the next player when this one is over.
LEMMA JoinStep == ASSUME TypeInv, JoinPlayer PROVE TypeInv'
<1>1. args.num \in Int /\ i \in Nat \ {0} /\ \A p \in Players : p \in Nat \ {0}
  BY NumberIsInt DEF TypeInv, TypeOK, Players
<1>2. /\ UNCHANGED <<main, args, life, bypass, lost, process>>
      /\ main = "join" /\ i <= args.num /\ i' = i + 1 /\ life[i] = "over"
      /\ args.num <= MAX_INSTANCE_MUN
  BY DEF JoinPlayer, Joined, GoTo, switchVars, TypeInv, MainInv
<1>3. TypeOK'
  <2>1. i' \in 1 .. MAX_INSTANCE_MUN + 1
    BY <1>1, <1>2
  <2>2. QED
    BY <1>2, <2>1 DEF TypeInv, TypeOK
<1>4. \A p \in Players : p < i' => life[p] \in {"unborn", "over"}
  <2>1. \A p \in Players : p < i' => p < i \/ p = i
    BY <1>1, <1>2
  <2>2. QED
    BY <1>2, <2>1 DEF TypeInv, MainInv
<1>5. MainInv'
  BY <1>2, <1>4 DEF TypeInv, MainInv
<1>6. QED
  BY <1>3, <1>5 DEF TypeInv

\* A player moves only after it was started, and never back.
LEMMA MoveStep == ASSUME TypeInv, NEW p \in Players, Move(p) PROVE TypeInv'
<1>1. PICK from \in Lives \ {"unborn", "over", "aborted"}, to \in Lives \ {"unborn", "new"} :
        /\ life[p] = from
        /\ life' = [life EXCEPT ![p] = to]
        /\ process' \in {process, "aborted"}
  <2>1. PICK move \in Player(p)!Moves :
          /\ life[p] = move[1]
          /\ life' = [life EXCEPT ![p] = move[2]]
          /\ process' = Aborts(move[2])
    BY DEF Move
  <2>2. /\ move[1] \in Lives \ {"unborn", "over", "aborted"}
        /\ move[2] \in Lives \ {"unborn", "new"}
    BY DEF Player!Moves, Lives
  <2>3. process' \in {process, "aborted"}
    BY <2>1 DEF Aborts
  <2>4. QED
    BY <2>1, <2>2, <2>3
<1>2. UNCHANGED <<main, args, i, bypass, lost>> /\ process = "running"
  BY DEF Move, switchVars
<1>3. TypeOK'
  <2>1. life' \in [Players -> Lives]
    BY <1>1 DEF TypeInv, TypeOK
  <2>2. process' \in {"running", "returned", "aborted"}
    BY <1>1, <1>2
  <2>3. QED
    BY <1>2, <2>1, <2>2 DEF TypeInv, TypeOK
<1>4. life'[p] = to /\ \A q \in Players : q # p => life'[q] = life[q]
  BY <1>1 DEF TypeInv, TypeOK
<1>5. life[p] \notin {"unborn", "over"}
  BY <1>1
<1>6. main \in {"spawn", "join"}
  BY <1>5 DEF TypeInv, TypeOK, MainInv
<1>7. MainInv'
  BY <1>1, <1>2, <1>4, <1>5, <1>6 DEF TypeInv, MainInv
<1>8. QED
  BY <1>3, <1>7 DEF TypeInv

(***************************************************************************)
(* What follows.                                                           *)
(***************************************************************************)

THEOREM MainInvariant == Spec => []TypeInv
<1>1. TypeInv /\ [Next]_vars => TypeInv'
  <2> SUFFICES ASSUME TypeInv, [Next]_vars PROVE TypeInv'
    OBVIOUS
  <2>1. CASE MainStep
    BY <2>1, OutsideStep, SpawnStep, JoinStep DEF MainStep
  <2>2. CASE \E p \in Players : Move(p)
    BY <2>2, MoveStep
  <2>3. CASE UNCHANGED vars
    BY <2>3 DEF TypeInv, TypeOK, MainInv, vars, switchVars
  <2>4. QED
    BY <2>1, <2>2, <2>3 DEF Next, Terminated
<1>2. QED
  BY <1>1, InitHolds, PTL DEF Spec

\* Every variable keeps its type, and no player is started or joined that
\* main() has no thread for.
THEOREM TypeCorrect == Spec => []TypeOK
<1>1. TypeInv => TypeOK
  BY DEF TypeInv
<1>2. QED
  BY <1>1, MainInvariant, PTL

\* No player, and none of the threads it has, outlives main(), which returns
\* only after it has joined all of them.
THEOREM PlayersEndFirst == Spec => []NoPlayerOutlivesMain
<1>1. TypeInv => NoPlayerOutlivesMain
  BY DEF TypeInv, MainInv, NoPlayerOutlivesMain
<1>2. QED
  BY <1>1, MainInvariant, PTL

\* The switch is set before the first player is started and set back after
\* the last is over.
THEOREM PlayersAreBypassed == Spec => []BypassedWhilePlaying
<1>1. TypeInv => BypassedWhilePlaying
  BY DEF TypeInv, TypeOK, MainInv, BypassedWhilePlaying
<1>2. QED
  BY <1>1, MainInvariant, PTL

\* The loop that starts the players passes none of them, and stops at the number
\* of the command line.
LEMMA StartedStep == ASSUME TypeInv, StartedInv, [Next]_vars PROVE StartedInv'
<1>1. args.num \in Int /\ i \in Nat \ {0} /\ \A p \in Players : p \in Nat \ {0}
  BY NumberIsInt DEF TypeInv, TypeOK, Players
<1>2. CASE Refuse \/ Accept \/ AllJoined \/ JoinPlayer
  BY <1>2 DEF StartedInv, Refuse, Accept, AllJoined, JoinPlayer, GoTo
<1>3. CASE Bypass
  <2>1. i' = 1 /\ main' = "spawn"
    BY <1>3 DEF Bypass, GoTo, TypeInv, MainInv
  <2>2. QED
    BY <1>1, <2>1 DEF StartedInv
<1>4. CASE SpawnPlayer
  <2>1. /\ main = "spawn" /\ main' = "spawn" /\ i' = i + 1
        /\ life' = [life EXCEPT ![i] = "new"] /\ life \in [Players -> Lives]
    BY <1>4 DEF SpawnPlayer, NextOne, GoTo, TypeInv, TypeOK
  <2>2. ASSUME NEW p \in Players, p < i' PROVE life'[p] # "unborn"
    <3>1. p < i \/ p = i
      BY <1>1, <2>1, <2>2
    <3>2. QED
      BY <2>1, <3>1 DEF StartedInv
  <2>3. QED
    BY <2>1, <2>2 DEF StartedInv
<1>5. CASE Spawned
  <2>1. /\ UNCHANGED <<args, life>> /\ main = "spawn" /\ main' = "join" /\ i > args.num
        /\ i = 1 \/ i <= args.num + 1
    BY <1>5 DEF Spawned, GoTo, TypeInv, MainInv
  <2>2. ASSUME NEW p \in Players PROVE life[p] # "unborn" <=> p <= args.num
    <3>1. life[p] # "unborn" <=> p < i
      BY <2>1 DEF StartedInv, TypeInv, MainInv
    <3>2. p < i <=> p <= args.num
      BY <1>1, <2>1
    <3>3. QED
      BY <3>1, <3>2
  <2>3. QED
    BY <2>1, <2>2 DEF StartedInv
<1>6. CASE SpawnFails \/ Restore \/ UNCHANGED vars
  <2>1. /\ UNCHANGED <<args, i, life>>
        /\ main' = main \/ (main = "restore" /\ main' = "returned")
    BY <1>6 DEF SpawnFails, Restore, GoTo, vars
  <2>2. QED
    BY <2>1 DEF StartedInv
<1>7. CASE \E p \in Players : Move(p)
  <2>1. PICK p \in Players : Move(p)
    BY <1>7
  <2>2. PICK move \in Player(p)!Moves : life[p] = move[1] /\ life' = [life EXCEPT ![p] = move[2]]
    BY <2>1 DEF Move
  <2>3. move[1] # "unborn" /\ move[2] # "unborn"
    BY DEF Player!Moves
  <2>4. \A q \in Players : life'[q] # "unborn" <=> life[q] # "unborn"
    BY <2>2, <2>3 DEF TypeInv, TypeOK
  <2>5. UNCHANGED <<main, args, i>>
    BY <2>1 DEF Move
  <2>6. QED
    BY <2>4, <2>5 DEF StartedInv
<1>8. QED
  BY <1>2, <1>3, <1>4, <1>5, <1>6, <1>7 DEF Next, MainStep, Terminated

\* For every number of players asked for, main() comes to its end only with each
\* of them played to its end, and no other.
THEOREM PlayersAsAsked == Spec => []AskedPlayersPlayed
<1>1. Init => StartedInv
  BY DEF Init, StartedInv
<1>2. TypeInv /\ StartedInv => AskedPlayersPlayed
  BY DEF StartedInv, TypeInv, MainInv, AskedPlayersPlayed
<1>3. QED
  BY <1>1, <1>2, StartedStep, MainInvariant, PTL DEF Spec
=============================================================================
