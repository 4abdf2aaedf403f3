--------------------------- MODULE TsPlayerSingle ---------------------------
(***************************************************************************)
(* example/AmTsPlayerExample: main() blanks the on-screen display, creates *)
(* one AmTsPlayer session, writes a transport stream file to it piece by   *)
(* piece (or lets the demodulator feed it) while it reads keys, and takes  *)
(* everything down again.  SIGINT does the same from a handler, which may  *)
(* start between any two steps of main(): on main()'s own thread, which it *)
(* then suspends, or on a thread the library has started.                  *)
(*                                                                         *)
(* Sizes are counted in halves of the buffer (kRwSize bytes), so that an   *)
(* odd size stands for a file whose last piece does not fill the buffer.   *)
(***************************************************************************)
EXTENDS Integers, Sequences

CONSTANTS
  Demods,           \* whether the stream may come from the demodulator (-t 0, 1 or 2)
  Sizes,            \* the sizes a file may have; -1: it cannot be opened
  Keys,             \* the keys that are used
  MaxKeys,          \* bound: keys typed
  MaxSignals,       \* bound: SIGINTs
  HandlerThreads,   \* the threads that may have to run the handler
  Faults            \* "error": writeData() may fail

ASSUME DemodsAssumption  == Demods \subseteq BOOLEAN
ASSUME SizesAssumption   == Sizes \subseteq Nat \cup {-1}
ASSUME BoundsAssumption  == MaxKeys \in Nat /\ MaxSignals \in Nat
ASSUME KeysAssumption    == Keys \subseteq {"p", "r", "a", "s", "h", "f", "e", "g", "q"}
ASSUME ThreadsAssumption == HandlerThreads \subseteq {"main", "other"}
ASSUME FaultsAssumption  == Faults \subseteq {"error"}

VARIABLES
  main,             \* where main() is
  demod,            \* the demodulator feeds the session, and no file
  file,             \* the size of the file
  pos, eof,         \* how much of it was read, and its eofbit
  written, again,   \* the pieces, by where they end, accepted once, accepted again
  failed,           \* the pieces that writeData() failed for
  retrying,         \* the latest answer of writeData() was RETRY
  stdin, typed,     \* keys typed and not read, and how many were typed
  session,          \* the global handle is set
  life,             \* what became of the session
  active,           \* what is on in it: "video", "audio", "hold", "fast"
  misused,          \* who called through a handle that is not set, or released
  osd,              \* the on-screen display
  handler,          \* per thread: where the signal handler is
  signals,          \* how many SIGINTs came
  process           \* "running", "killed" or "returned"

fileVars == <<demod, file, pos, eof, written, again, failed, retrying>>
keyVars == <<stdin, typed>>
sessionVars == <<session, life, active, misused>>
signalVars == <<handler, signals>>
vars == <<main, fileVars, keyVars, sessionVars, osd, signalVars, process>>

Init ==
  /\ main = "signal"
  /\ demod \in Demods
  /\ file \in Sizes
  /\ pos = 0
  /\ eof = FALSE
  /\ written = {}
  /\ again = {}
  /\ failed = {}
  /\ retrying = FALSE
  /\ stdin = <<>>
  /\ typed = 0
  /\ session = FALSE
  /\ life = "none"
  /\ active = {}
  /\ misused = {}
  /\ osd = "shown"
  /\ handler = [t \in HandlerThreads |-> "idle"]
  /\ signals = 0
  /\ process = "running"

Running == process = "running"
Over == ~ Running
\* The handler suspends the thread it runs on.
Suspended == "main" \in HandlerThreads /\ handler["main"] # "idle"

-----------------------------------------------------------------------------
(* The AmTsPlayer library: calls through the global handle.  Those that    *)
(* come after the release, and a second release, leave their mark.         *)

Live == session /\ life = "live"
Gone == {"released", "late", "twice"}

Called == IF session /\ life = "released" THEN "late" ELSE life
Freed == IF Live THEN "released" ELSE IF session THEN "twice" ELSE life

Misuse(who) == IF Live THEN {} ELSE {<<who, IF session THEN "late" ELSE "early">>}

Switch(who, on, off) ==
  /\ active' = IF Live THEN (active \cup on) \ off ELSE active
  /\ life' = Called
  /\ misused' = misused \cup Misuse(who)
  /\ UNCHANGED session

ReleaseSession(who) ==
  /\ life' = Freed
  /\ misused' = misused \cup Misuse(who)
  /\ UNCHANGED <<session, active>>

-----------------------------------------------------------------------------
(* main(): set up.                                                         *)

GoTo(from, to) == Running /\ ~ Suspended /\ main = from /\ main' = to

InstallHandler ==
  /\ GoTo("signal", "blank")
  /\ UNCHANGED <<fileVars, keyVars, sessionVars, osd, signalVars, process>>

BlankOsd ==
  /\ GoTo("blank", "open")
  /\ osd' = "blanked"
  /\ UNCHANGED <<fileVars, keyVars, sessionVars, signalVars, process>>

\* The size is compared as an unsigned number, so that the -1 of a file
\* that could not be opened passes.
Rejected == ~ demod /\ file = 0

OpenFile ==
  /\ ~ Rejected
  /\ GoTo("open", "create")
  /\ UNCHANGED <<fileVars, keyVars, sessionVars, osd, signalVars, process>>

\* An empty file ends the program on the spot.
RejectFile ==
  /\ Rejected
  /\ GoTo("open", "rejected")
  /\ process' = "returned"
  /\ UNCHANGED <<fileVars, keyVars, sessionVars, osd, signalVars>>

\* AmTsPlayer_create() makes the session, and then sets the handle.
CreateSession ==
  /\ GoTo("create", "store")
  /\ life' = "live"
  /\ UNCHANGED <<fileVars, keyVars, session, active, misused, osd, signalVars, process>>

StoreHandle ==
  /\ GoTo("store", "video")
  /\ session' = TRUE
  /\ UNCHANGED <<fileVars, keyVars, life, active, misused, osd, signalVars, process>>

StartVideo ==
  /\ GoTo("video", "audio")
  /\ Switch("main", {"video"}, {})
  /\ UNCHANGED <<fileVars, keyVars, osd, signalVars, process>>

StartAudio ==
  /\ GoTo("audio", IF demod THEN "wait" ELSE "read")
  /\ Switch("main", {"audio"}, {})
  /\ UNCHANGED <<fileVars, keyVars, osd, signalVars, process>>

-----------------------------------------------------------------------------
(* main(): the loops.                                                      *)

Whole(m, n) == m
Least(m, n) == IF m <= n THEN m ELSE n

\* What is left of a file that is open fills the buffer or meets the end.
\* The stream of a file that could not be opened has its failbit set: it
\* reads nothing, and never reports the end of the file.
EofPastEnd == [pos |-> IF file = -1 THEN 0 ELSE Least(pos + 2, file), eof |-> file # -1 /\ pos > file]
Read ==
  IF file = -1 THEN [pos |-> 0, eof |-> FALSE]
  ELSE [pos |-> Least(pos + 2, file), eof |-> pos + 2 > file]

ReadPiece ==
  /\ ~ eof
  /\ GoTo("read", "write")
  /\ pos' = Read.pos
  /\ eof' = Read.eof
  /\ retrying' = FALSE
  /\ UNCHANGED <<demod, file, written, again, failed, keyVars, sessionVars, osd, signalVars, process>>

EndOfFile ==
  /\ eof
  /\ GoTo("read", "linger")
  /\ UNCHANGED <<fileVars, keyVars, sessionVars, osd, signalVars, process>>

\* What the keys switch in the session.
SwitchedOn(key) ==
  CASE key = "r" -> {"video"} [] key = "s" -> {"audio"}
    [] key = "h" -> {"hold"}  [] key = "e" -> {"fast"}  [] OTHER -> {}
SwitchedOff(key) ==
  CASE key = "p" -> {"video"} [] key = "a" -> {"audio"}
    [] key = "f" -> {"hold"}  [] key = "g" -> {"fast"}  [] OTHER -> {}

\* A key is read if there is one; q leaves the loops.
TakeKey(from, to) ==
  /\ stdin # <<>>
  /\ stdin' = Tail(stdin)
  /\ \/ /\ Head(stdin) = "q"
        /\ GoTo(from, "close")
        /\ UNCHANGED sessionVars
     \/ /\ Head(stdin) # "q"
        /\ GoTo(from, to)
        /\ Switch("main", SwitchedOn(Head(stdin)), SwitchedOff(Head(stdin)))
  /\ UNCHANGED <<fileVars, typed, osd, signalVars, process>>

NoKey(from, to) ==
  /\ stdin = <<>>
  /\ GoTo(from, to)
  /\ UNCHANGED <<fileVars, keyVars, sessionVars, osd, signalVars, process>>

\* The keyboard is looked at before every call of writeData(), ...
KeyIgnored(from, to) == NoKey(from, to) \/ (stdin # <<>> /\ GoTo(from, to) /\
  UNCHANGED <<fileVars, keyVars, sessionVars, osd, signalVars, process>>)
KeyWhileWriting(from, to) == TakeKey(from, to) \/ NoKey(from, to)

BeforeWrite == KeyWhileWriting("write", "call")

\* ... which is repeated as long as it answers RETRY: the count of retries is
\* never looked at.  An error passes for success.
LoopWithoutBreak == {"RETRY", "OK"}
RetryIsSuccess == {}
Repeats == {"RETRY"}

WriteData(res) ==
  /\ GoTo("call", IF res \in Repeats THEN "write" ELSE "after")
  /\ retrying' = (res = "RETRY")
  /\ written' = IF res = "OK" THEN written \cup {pos} ELSE written
  /\ again' = IF res = "OK" THEN again \cup ({pos} \cap written) ELSE again
  /\ failed' = IF res = "error" THEN failed \cup {pos} ELSE failed
  /\ life' = Called
  /\ misused' = misused \cup Misuse("main")
  /\ UNCHANGED <<demod, file, pos, eof, keyVars, session, active, osd, signalVars, process>>

Results == {"OK", "RETRY"} \cup Faults

\* The keyboard is looked at once more after every piece.
AfterPiece == TakeKey("after", "read") \/ NoKey("after", "read")

\* Without a file to write there is nothing but to wait for q.
WaitForQuit ==
  /\ stdin # <<>>
  /\ GoTo("wait", IF Head(stdin) = "q" THEN "close" ELSE "wait")
  /\ stdin' = Tail(stdin)
  /\ UNCHANGED <<fileVars, typed, sessionVars, osd, signalVars, process>>

-----------------------------------------------------------------------------
(* main(): take down.                                                      *)

\* Ten seconds for what the session has still to play.
Linger ==
  /\ GoTo("linger", "close")
  /\ UNCHANGED <<fileVars, keyVars, sessionVars, osd, signalVars, process>>

ShowOsd ==
  /\ GoTo("close", "stopVideo")
  /\ osd' = "shown"
  /\ UNCHANGED <<fileVars, keyVars, sessionVars, signalVars, process>>

StopVideo ==
  /\ GoTo("stopVideo", "stopAudio")
  /\ Switch("main", {}, {"video"})
  /\ UNCHANGED <<fileVars, keyVars, osd, signalVars, process>>

StopAudio ==
  /\ GoTo("stopAudio", "release")
  /\ Switch("main", {}, {"audio"})
  /\ UNCHANGED <<fileVars, keyVars, osd, signalVars, process>>

Release ==
  /\ GoTo("release", "return")
  /\ ReleaseSession("main")
  /\ UNCHANGED <<fileVars, keyVars, osd, signalVars, process>>

Return ==
  /\ GoTo("return", "returned")
  /\ process' = "returned"
  /\ UNCHANGED <<fileVars, keyVars, sessionVars, osd, signalVars>>

MainStep ==
  \/ InstallHandler \/ BlankOsd \/ OpenFile \/ RejectFile
  \/ CreateSession \/ StoreHandle \/ StartVideo \/ StartAudio
  \/ ReadPiece \/ EndOfFile
  \/ BeforeWrite \/ (\E res \in Results : WriteData(res)) \/ AfterPiece
  \/ WaitForQuit
  \/ Linger \/ ShowOsd \/ StopVideo \/ StopAudio \/ Release \/ Return

-----------------------------------------------------------------------------
(* signHandler().                                                          *)

\* What follows what in the handler.
ReleasesFirst == [idle |-> "release", release |-> "stopVideo", stopVideo |-> "stopAudio",
                  stopAudio |-> "showOsd", showOsd |-> "raise"]
ReleasesNever == [idle |-> "stopVideo", stopVideo |-> "stopAudio", stopAudio |-> "showOsd",
                  release |-> "showOsd", showOsd |-> "raise"]
HandlerOrder == [idle |-> "stopVideo", stopVideo |-> "stopAudio", stopAudio |-> "release",
                 release |-> "showOsd", showOsd |-> "raise"]

\* A thread of the library is there once the session is being made.
CanHandle(t) == t = "main" \/ life # "none"

\* SIGINT: kills the program before signal() was called, runs the handler
\* after that.  It is blocked in a thread that runs the handler.
Interrupt(t) ==
  /\ Running
  /\ signals < MaxSignals
  /\ signals' = signals + 1
  /\ CanHandle(t)
  /\ handler[t] = "idle"
  /\ IF main = "signal"
     THEN process' = "killed" /\ UNCHANGED handler
     ELSE handler' = [handler EXCEPT ![t] = HandlerOrder.idle] /\ UNCHANGED process
  /\ UNCHANGED <<main, fileVars, keyVars, sessionVars, osd>>

HandlerGoes(t, from) ==
  /\ Running
  /\ handler[t] = from
  /\ handler' = [handler EXCEPT ![t] = HandlerOrder[from]]

HandlerStopVideo(t) ==
  /\ HandlerGoes(t, "stopVideo")
  /\ Switch("handler", {}, {"video"})
  /\ UNCHANGED <<main, fileVars, keyVars, osd, signals, process>>

HandlerStopAudio(t) ==
  /\ HandlerGoes(t, "stopAudio")
  /\ Switch("handler", {}, {"audio"})
  /\ UNCHANGED <<main, fileVars, keyVars, osd, signals, process>>

HandlerRelease(t) ==
  /\ HandlerGoes(t, "release")
  /\ ReleaseSession("handler")
  /\ UNCHANGED <<main, fileVars, keyVars, osd, signals, process>>

OsdLeft == osd
OsdShown == "shown"

HandlerShowOsd(t) ==
  /\ HandlerGoes(t, "showOsd")
  /\ osd' = OsdShown
  /\ UNCHANGED <<main, fileVars, keyVars, sessionVars, signals, process>>

\* The default action is installed, the signal raised, and taken when the
\* handler returns.
HandlerReturns(t) == [process |-> process, at |-> "idle"]
HandlerKills(t) == [process |-> "killed", at |-> "raise"]

HandlerRaise(t) ==
  /\ Running
  /\ handler[t] = "raise"
  /\ handler' = [handler EXCEPT ![t] = HandlerKills(t).at]
  /\ process' = HandlerKills(t).process
  /\ UNCHANGED <<main, fileVars, keyVars, sessionVars, osd, signals>>

HandlerStep(t) ==
  \/ HandlerStopVideo(t) \/ HandlerStopAudio(t) \/ HandlerRelease(t)
  \/ HandlerShowOsd(t) \/ HandlerRaise(t)

-----------------------------------------------------------------------------
TypeKey(key) ==
  /\ Running
  /\ typed < MaxKeys
  /\ typed' = typed + 1
  /\ stdin' = Append(stdin, key)
  /\ UNCHANGED <<main, fileVars, sessionVars, osd, signalVars, process>>

\* main() waits for a key that is never typed.
WaitingForKey == main = "wait" /\ stdin = <<>> /\ typed = MaxKeys

Terminated == (Over \/ WaitingForKey) /\ UNCHANGED vars

Next ==
  \/ MainStep
  \/ \E t \in HandlerThreads : Interrupt(t) \/ HandlerStep(t)
  \/ \E key \in Keys : TypeKey(key)
  \/ Terminated

Spec == Init /\ [][Next]_vars

\* Both main() and a handler that was started are scheduled.
FairSpec ==
  /\ Spec
  /\ WF_vars(MainStep)
  /\ \A t \in HandlerThreads : WF_vars(HandlerStep(t))

-----------------------------------------------------------------------------
(* Properties.                                                             *)

MainPC == {"signal", "blank", "open", "rejected", "create", "store", "video", "audio",
           "read", "write", "call", "after", "wait", "linger", "close", "stopVideo",
           "stopAudio", "release", "return", "returned"}
HandlerPC == {"idle", "stopVideo", "stopAudio", "release", "showOsd", "raise"}
Switches == {"video", "audio", "hold", "fast"}
Misuses == {"main", "handler"} \X {"early", "late"}

\* Every variable has its type; main() reads no further than the file goes.
TypeOK ==
  /\ main \in MainPC
  /\ demod \in Demods
  /\ file \in Sizes
  /\ pos \in Nat /\ (file # -1 => pos <= file) /\ (file = -1 => pos = 0)
  /\ eof \in BOOLEAN
  /\ written \subseteq 0 .. pos
  /\ again \subseteq written
  /\ failed \subseteq 0 .. pos
  /\ retrying \in BOOLEAN
  /\ stdin \in Seq(Keys)
  /\ typed \in 0 .. MaxKeys
  /\ session \in BOOLEAN
  /\ life \in {"none", "live"} \cup Gone
  /\ active \subseteq Switches
  /\ misused \subseteq Misuses
  /\ osd \in {"shown", "blanked"}
  /\ handler \in [HandlerThreads -> HandlerPC]
  /\ signals \in 0 .. MaxSignals
  /\ process \in {"running", "killed", "returned"}

\* However the program ends, by q, by the end of the file or by SIGINT, the
\* on-screen display is back; only the early return for an empty file
\* leaves it blanked.
OsdRestored == Over => osd = "shown" \/ main = "rejected"

\* A session outlives the program only if SIGINT found it before its handle
\* was set.
SessionOutlivesOnlyIfEarly ==
  Over /\ life = "live" => <<"handler", "early">> \in misused

\* A handler runs beside main(), and not instead of it.
Raced == "other" \in HandlerThreads /\ handler["other"] # "idle"

\* main() calls the library only while its session is alive: the handler,
\* which releases it, never returns to main() - unless it runs beside it.
MainCallsLive == \A when \in {"early", "late"} : <<"main", when>> \in misused => Raced

\* The session is made once, switched while it lives, and released once with
\* its video stopped, by main() or by the handler - except that
\*   - while a handler runs beside main(), main() may start the video again before
\*     the release, and
\*   - the released session is called and released again, by main() or another
\*     handler while a handler runs beside main(), and by a handler that comes
\*     between the release in main() and its return.
Session == INSTANCE SessionLife
             WITH life <- life, decoding <- IF "video" \in active THEN "own" ELSE "off"
SessionLives ==
  /\ Session!Init
  /\ [][\/ Session!Next
        \/ Raced /\ Session!Cut
        \/ (Raced \/ main = "return") /\ (Session!Late \/ Session!Again)]_(Session!sessionVars)

\* Where the pieces of the file end.
Ends == {p \in 1 .. file : p % 2 = 0 \/ p = file}

\* A file that was played to its end was written whole, but for pieces the
\* session refused.
PlayedWhole == main = "linger" => Ends \subseteq written \cup failed

\* No piece is written twice, except that the last one is if it ends where
\* the file ends: the end is noticed only by a read that brings nothing.
TwiceOnlyAtTheEnd == \A p \in again : (p = file /\ p % 2 = 0) \/ file = -1

\* "file %s size %lld return": without data there is no session.
NothingWithoutData == life # "none" /\ ~ demod => file > 0

\* After q was typed the program ends, whatever writeData() answers, also for
\* a file that cannot be opened.
QuitEnds == (\E k \in DOMAIN stdin : stdin[k] = "q") ~> Over

\* After SIGINT the program ends.
InterruptEnds == (\E t \in HandlerThreads : handler[t] # "idle") ~> Over

\* A file that can be read is played to its end, unless writeData() answers
\* RETRY for ever.
PlaysOut == ~ demod /\ file # -1 => <>Over \/ <>[]retrying

\* The inductive strengthening of the safety properties above.  Before main()
\* makes the session nothing but a handler on its own thread can run; a session
\* that was released was released by main() at its end, or by a handler that
\* never returns; and whoever stopped the video finds it stopped.
Early == {"signal", "blank", "open", "rejected", "create"}
TakingDown == {"stopVideo", "stopAudio", "release", "return", "returned"}

SessionInv ==
  /\ main \in Early => life = "none" /\ ~ session
  /\ main = "store" => life = "live" /\ ~ session
  /\ main \notin Early \cup {"store"} => life # "none" /\ session
  /\ main \in {"return", "returned"} => life \in Gone
  /\ life \in Gone =>
       \/ main \in {"return", "returned"}
       \/ \E t \in HandlerThreads : handler[t] \in {"showOsd", "raise"}
  /\ main \in {"stopAudio", "release"} /\ life = "live" => "video" \notin active

HandlerInv(t) ==
  /\ main = "signal" => handler[t] = "idle"
  /\ life = "none" /\ t # "main" => handler[t] = "idle"
  /\ handler[t] \in {"showOsd", "raise"} /\ life = "live" => <<"handler", "early">> \in misused
  /\ handler[t] = "raise" => osd = "shown"
  /\ t = "main" /\ handler[t] \in {"stopAudio", "release"} /\ Live => "video" \notin active

EndInv ==
  /\ main \in {"signal"} \cup TakingDown => osd = "shown"
  /\ process = "returned" => main \in {"returned", "rejected"}
  /\ main = "returned" => process = "returned"
  /\ process = "killed" => main = "signal" \/ \E t \in HandlerThreads : handler[t] = "raise"

SingleInv == SessionInv /\ EndInv /\ MainCallsLive /\ \A t \in HandlerThreads : HandlerInv(t)

\* ... and of those about the pieces.  Before the first read nothing was read;
\* until the end was seen a whole number of buffers was; and of what was read all
\* but the piece in hand was given to the session.
BeforeReading == Early \cup {"store", "video", "audio"}
InHand == main \in {"write", "call"}
Reading == InHand \/ main \in {"read", "after", "linger"}

PieceInv ==
  /\ main \in BeforeReading => pos = 0 /\ ~ eof
  /\ ~ eof => pos % 2 = 0
  /\ eof => file # -1 /\ pos = file
  /\ main = "linger" => eof
  /\ file # -1 /\ Reading => \A p \in Ends : p < pos \/ (p = pos /\ ~ InHand) => p \in written \cup failed
  /\ file # -1 /\ InHand /\ pos \in written => pos = file /\ pos % 2 = 0

\* main() gets past the test of the size with a file that is not empty.
PastTheTest == main \in {"signal", "blank", "open", "rejected"} \/ demod \/ file # 0
=============================================================================
