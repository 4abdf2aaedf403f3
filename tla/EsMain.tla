------------------------------- MODULE EsMain -------------------------------
(***************************************************************************)
(* main() of example/EsVideoDecPlayer: it checks its options, sets the     *)
(* switch bypass_vpp of the video driver, starts one thread per player,    *)
(* joins them, and sets the switch back.  A player lives as PlayerLife     *)
(* says, which EsVideoDecPlayer implements; one that aborts takes the      *)
(* whole process, and every other player, with it.                         *)
(***************************************************************************)
EXTENDS Integers

CONSTANTS
  Formats,          \* the values -f may have
  Numbers,          \* the values -n may have
  MAX_INSTANCE_MUN, \* the greatest number of players
  Faults            \* "thread": a thread, "sysfs": a switch may fail

ASSUME FormatsAssumption == Formats \subseteq Int
ASSUME NumbersAssumption == Numbers \subseteq Int
ASSUME MaxAssumption     == MAX_INSTANCE_MUN \in Nat
ASSUME FaultsAssumption  == Faults \subseteq {"thread", "sysfs"}

Players == 1 .. MAX_INSTANCE_MUN

VARIABLES
  main,             \* where main() is
  args,             \* the command line
  i,                \* the player that is started or joined next
  life,             \* per player
  bypass, lost,     \* what was written to bypass_vpp, and what could not be
  process           \* "running", "returned" or "aborted"

switchVars == <<bypass, lost>>
vars == <<main, args, i, life, switchVars, process>>

Player(p) == INSTANCE PlayerLife WITH life <- life[p]

-----------------------------------------------------------------------------
(* The command line.                                                       *)

\* Which options are given, whether there are seven words or more, the
\* format, and the number of players, 1 without -n.
CommandLine ==
  [given : SUBSET {"i", "f", "s", "h"}, many : BOOLEAN, vFmt : Formats, num : Numbers \cup {1}]

VFmt == IF "f" \in args.given THEN args.vFmt ELSE -1

NumberUnchecked ==
  /\ args.many
  /\ {"i", "s"} \subseteq args.given /\ "h" \notin args.given
  /\ VFmt # -1
Accepted ==
  /\ args.many
  /\ {"i", "s"} \subseteq args.given /\ "h" \notin args.given
  /\ VFmt # -1
  /\ args.num <= MAX_INSTANCE_MUN

-----------------------------------------------------------------------------
(* main().                                                                 *)

Init ==
  /\ main = "options"
  /\ args \in CommandLine
  /\ i = 1
  /\ life = [p \in Players |-> "unborn"]
  /\ bypass = "unset"
  /\ lost = {}
  /\ process = "running"

GoTo(from, to) == process = "running" /\ main = from /\ main' = to

\* Too few words, -h, a missing option or too many players: nothing is done.
Refuse ==
  /\ ~ Accepted
  /\ GoTo("options", "refused")
  /\ process' = "returned"
  /\ UNCHANGED <<args, i, life, switchVars>>

Accept ==
  /\ Accepted
  /\ GoTo("options", "bypass")
  /\ UNCHANGED <<args, i, life, switchVars, process>>

\* sysfs_cmd_control(): nobody looks at whether the value could be written.
Control(value) ==
  \/ bypass' = value /\ UNCHANGED lost
  \/ "sysfs" \in Faults /\ lost' = lost \cup {value} /\ UNCHANGED bypass

Bypass ==
  /\ GoTo("bypass", "spawn")
  /\ Control("1")
  /\ UNCHANGED <<args, i, life, process>>

SameOne == i
NextOne == i + 1

SpawnPlayer ==
  /\ i <= args.num
  /\ GoTo("spawn", "spawn")
  /\ life' = [life EXCEPT ![i] = "new"]
  /\ i' = NextOne
  /\ UNCHANGED <<args, switchVars, process>>

\* The constructor of std::thread throws, and nobody catches.
SpawnFails ==
  /\ "thread" \in Faults
  /\ i <= args.num
  /\ GoTo("spawn", "spawn")
  /\ process' = "aborted"
  /\ UNCHANGED <<args, i, life, switchVars>>

Spawned ==
  /\ i > args.num
  /\ GoTo("spawn", "join")
  /\ i' = 1
  /\ UNCHANGED <<args, life, switchVars, process>>

NotJoined == TRUE
Joined == life[i] = "over"

JoinPlayer ==
  /\ i <= args.num
  /\ GoTo("join", "join")
  /\ Joined
  /\ i' = i + 1
  /\ UNCHANGED <<args, life, switchVars, process>>

AllJoined ==
  /\ i > args.num
  /\ GoTo("join", "restore")
  /\ UNCHANGED <<args, i, life, switchVars, process>>

Restore ==
  /\ GoTo("restore", "returned")
  /\ Control("0")
  /\ process' = "returned"
  /\ UNCHANGED <<args, i, life>>

MainStep ==
  \/ Refuse \/ Accept \/ Bypass
  \/ SpawnPlayer \/ SpawnFails \/ Spawned
  \/ JoinPlayer \/ AllJoined \/ Restore

-----------------------------------------------------------------------------
(* The threads of the players.                                             *)

Aborts(to) == IF to = "aborted" THEN "aborted" ELSE process

Move(p) ==
  /\ process = "running"
  /\ \E move \in Player(p)!Moves :
       /\ life[p] = move[1]
       /\ life' = [life EXCEPT ![p] = move[2]]
       /\ process' = Aborts(move[2])
  /\ UNCHANGED <<main, args, i, switchVars>>

\* Every player is over, or dumb and waiting for ever, which main() joins.
Dumb(p) == life[p] = "dumb"

Terminated ==
  /\ process # "running" \/ \E p \in Players : Dumb(p)
  /\ UNCHANGED vars

Next == MainStep \/ (\E p \in Players : Move(p)) \/ Terminated

Spec == Init /\ [][Next]_vars

\* A player gets as far as play(), and from its return to the end of its thread.
\* Nothing makes play() return: it waits for its decoder, and a player whose YUV
\* file cannot be opened waits for ever.
Proceeds(p) == life[p] \in {"new", "leaving"} /\ Move(p)

FairSpec ==
  /\ Spec
  /\ WF_vars(MainStep)
  /\ \A p \in Players : WF_vars(Proceeds(p))

-----------------------------------------------------------------------------
(* Properties.                                                             *)

Lives == {"unborn", "new", "playing", "dumb", "leaving", "over", "aborted"}

\* Every variable has its type; a player is started or joined only within
\* the range main() has accepted.
TypeOK ==
  /\ main \in {"options", "refused", "bypass", "spawn", "join", "restore", "returned"}
  /\ args \in CommandLine
  /\ i \in 1 .. MAX_INSTANCE_MUN + 1
  /\ life \in [Players -> Lives]
  /\ bypass \in {"unset", "0", "1"}
  /\ lost \subseteq {"0", "1"}
  /\ process \in {"running", "returned", "aborted"}

\* While a player is alive the display path of the driver is bypassed,
\* unless the switch could not be written.
BypassedWhilePlaying ==
  (\E p \in Players : life[p] \in {"new", "playing", "dumb", "leaving"})
    => bypass = "1" \/ "1" \in lost

\* main() returns when no player is alive: the lambda of a thread refers to
\* the strings of main()'s command line.
NoPlayerOutlivesMain ==
  process = "returned" => \A p \in Players : life[p] \in {"unborn", "over"}

\* The inductive strengthening of the two: how far main() has got says which
\* players there are, and which of them are over.
MainInv ==
  /\ main \notin {"options", "refused"} => args.num <= MAX_INSTANCE_MUN
  /\ main \in {"options", "bypass"} => i = 1
  /\ main = "spawn" => i = 1 \/ i <= args.num + 1
  /\ main \in {"options", "refused", "bypass"} => \A p \in Players : life[p] = "unborn"
  /\ main = "spawn" => \A p \in Players : life[p] # "unborn" => p < i
  /\ main = "join" => \A p \in Players : /\ p < i => life[p] \in {"unborn", "over"}
                                         /\ life[p] # "unborn" => p <= args.num
  /\ main \in {"restore", "returned"} => \A p \in Players : life[p] \in {"unborn", "over"}
  /\ main \in {"spawn", "join"} => bypass = "1" \/ "1" \in lost
  /\ process = "returned" => main \in {"refused", "returned"}

\* When main() has come to its end, just the players that were asked for, 1 to n,
\* have been played and are over.
AskedPlayersPlayed ==
  main = "returned" => \A p \in Players : life[p] = IF p <= args.num THEN "over" ELSE "unborn"

\* ... and its inductive strengthening: the players with a thread are those that
\* the loop over them has passed.
StartedInv ==
  /\ main = "spawn" => \A p \in Players : p < i => life[p] # "unborn"
  /\ main \in {"join", "restore", "returned"} =>
       \A p \in Players : life[p] # "unborn" <=> p <= args.num

\* The process ends, unless one of its players stays in play() for ever.
EndsWithItsPlayers ==
  \/ <>(process # "running")
  \/ \E p \in Players : <>[](life[p] \in {"playing", "dumb"})
=============================================================================
