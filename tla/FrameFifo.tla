----------------------------- MODULE FrameFifo -----------------------------
(***************************************************************************)
(* What a player promises about decoded frames: they wait in the order in  *)
(* which the decoder delivered them, each is dumped exactly once, and the  *)
(* player does not close while one is still waiting.  Nothing is said of   *)
(* threads, locks, picture buffers or files; EsVideoDecPlayer implements   *)
(* this specification.                                                     *)
(***************************************************************************)
EXTENDS Sequences

CONSTANT Frame      \* the identifiers of the frames

VARIABLES
  queue,            \* delivered by the decoder and not yet dumped
  dumped,           \* dumped so far, oldest first
  closed            \* no frame is delivered or dumped any more

fifoVars == <<queue, dumped, closed>>

Occurs(f, s) == \E i \in DOMAIN s : s[i] = f

Init ==
  /\ queue = <<>>
  /\ dumped = <<>>
  /\ closed = FALSE

Deliver(f) ==
  /\ ~ closed
  /\ ~ Occurs(f, queue)
  /\ ~ Occurs(f, dumped)
  /\ queue' = Append(queue, f)
  /\ UNCHANGED <<dumped, closed>>

Dump ==
  /\ ~ closed
  /\ queue # <<>>
  /\ dumped' = Append(dumped, Head(queue))
  /\ queue' = Tail(queue)
  /\ UNCHANGED closed

Close ==
  /\ ~ closed
  /\ queue = <<>>
  /\ closed' = TRUE
  /\ UNCHANGED <<queue, dumped>>

Next == (\E f \in Frame : Deliver(f)) \/ Dump \/ Close

Spec == Init /\ [][Next]_fifoVars
=============================================================================
