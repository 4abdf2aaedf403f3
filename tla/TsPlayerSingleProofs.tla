------------------------ MODULE TsPlayerSingleProofs ------------------------
(***************************************************************************)
(* What holds of example/AmTsPlayerExample for files of every size, every  *)
(* sequence of keys, every number of SIGINTs on either thread, and every   *)
(* answer of writeData().                                                  *)
(***************************************************************************)
EXTENDS TsPlayerSingle, TLAPS

USE DemodsAssumption, SizesAssumption, BoundsAssumption, ThreadsAssumption, FaultsAssumption

Inv == TypeOK /\ SingleInv

LEMMA InitHolds == Init => Inv
<1> SUFFICES ASSUME Init PROVE Inv
  OBVIOUS
<1>1. TypeOK
  <2>1. (file # -1 => 0 <= file) /\ stdin \in Seq(Keys)
    BY DEF Init
  <2>2. handler \in [HandlerThreads -> HandlerPC]
    BY DEF Init, HandlerPC
  <2>3. 0 \in 0 .. MaxKeys /\ 0 \in 0 .. MaxSignals
    OBVIOUS
  <2>4. QED
    BY <2>1, <2>2, <2>3 DEF Init, TypeOK, MainPC
<1>2. SingleInv
  BY DEF Init, SingleInv, SessionInv, EndInv, MainCallsLive, HandlerInv, Early, TakingDown, Gone
<1>3. QED
  BY <1>1, <1>2 DEF Inv

(***************************************************************************)
(* What the steps do.                                                      *)
(***************************************************************************)

\* A key switches nothing but what there is to switch.
LEMMA KeySwitches == \A key : SwitchedOn(key) \subseteq Switches
<1> SUFFICES ASSUME NEW key PROVE SwitchedOn(key) \subseteq Switches
  OBVIOUS
<1>1. SwitchedOn(key) \in {{"video"}, {"audio"}, {"hold"}, {"fast"}, {}}
  <2>1. CASE key = "r"
    BY <2>1, Zenon DEF SwitchedOn
  <2>2. CASE key = "s"
    BY <2>2, Zenon DEF SwitchedOn
  <2>3. CASE key = "h"
    BY <2>3, Zenon DEF SwitchedOn
  <2>4. CASE key = "e"
    BY <2>4, Zenon DEF SwitchedOn
  <2>5. CASE key \notin {"r", "s", "h", "e"}
    BY <2>5, Zenon DEF SwitchedOn
  <2>6. QED
    BY <2>1, <2>2, <2>3, <2>4, <2>5, Zenon
<1>2. QED
  BY <1>1 DEF Switches

\* A call of main() that switches something on, or nothing, on the way from one
\* of its places to another.
CallSteps ==
  {<<"video", "audio">>, <<"audio", "wait">>, <<"audio", "read">>, <<"write", "call">>,
   <<"after", "read">>, <<"call", "write">>, <<"call", "after">>}
QuietSteps ==
  {<<"signal", "blank">>, <<"open", "create">>, <<"read", "write">>, <<"read", "linger">>,
   <<"write", "close">>, <<"write", "call">>, <<"after", "close">>, <<"after", "read">>,
   <<"wait", "close">>, <<"wait", "wait">>, <<"linger", "close">>}

Quiet ==
  /\ <<main, main'>> \in QuietSteps
  /\ UNCHANGED <<session, life, active, misused, osd, process>>
Call ==
  /\ <<main, main'>> \in CallSteps
  /\ UNCHANGED <<session, osd, process>>
  /\ life' = Called /\ misused' = misused \cup Misuse("main")
  /\ active' = active \/ (Live /\ active' \subseteq active \cup Switches)
Stop(what, from, to) ==
  /\ main = from /\ main' = to
  /\ UNCHANGED <<session, osd, process>>
  /\ life' = Called /\ misused' = misused \cup Misuse("main")
  /\ active' = IF Live THEN active \ {what} ELSE active
Change ==
  \/ /\ main = "blank" /\ main' = "open" /\ osd' = "blanked"
     /\ UNCHANGED <<session, life, active, misused, process>>
  \/ /\ main = "open" /\ main' = "rejected" /\ process' = "returned"
     /\ UNCHANGED <<session, life, active, misused, osd>>
  \/ /\ main = "create" /\ main' = "store" /\ life' = "live"
     /\ UNCHANGED <<session, active, misused, osd, process>>
  \/ /\ main = "store" /\ main' = "video" /\ session' = TRUE
     /\ UNCHANGED <<life, active, misused, osd, process>>
  \/ /\ main = "close" /\ main' = "stopVideo" /\ osd' = "shown"
     /\ UNCHANGED <<session, life, active, misused, process>>
  \/ /\ main = "return" /\ main' = "returned" /\ process' = "returned"
     /\ UNCHANGED <<session, life, active, misused, osd>>
Free ==
  /\ main = "release" /\ main' = "return"
  /\ UNCHANGED <<session, active, osd, process>>
  /\ misused' = misused \cup Misuse("main")
  /\ life' = Freed

\* Between its creation and its release a call leaves a session as it is, and it
\* never makes one.
LEMMA CalledStays ==
  ASSUME life \in {"none", "live"} \cup Gone, life' = Called
  PROVE  /\ life' \in {life} \cup Gone
         /\ life' \in Gone <=> life \in Gone
         /\ life' = life \/ (life = "released" /\ life' = "late" /\ session)
BY DEF Called, Gone

LEMMA FreedIsGone ==
  ASSUME life \in {"none", "live"} \cup Gone, life' = Freed, session, life # "none"
  PROVE  life' \in Gone /\ (life # "live" => life' = "twice")
BY DEF Freed, Live, Gone

\* A step of main() is one of these, and the handler waits meanwhile.
LEMMA MainCases ==
  ASSUME MainStep
  PROVE  /\ Running /\ ~ Suspended /\ UNCHANGED <<handler, signals>>
         /\ \/ Quiet \/ Call \/ Change \/ Free
            \/ Stop("video", "stopVideo", "stopAudio") \/ Stop("audio", "stopAudio", "release")
<1>1. CASE InstallHandler \/ OpenFile \/ ReadPiece \/ EndOfFile \/ WaitForQuit \/ Linger
  BY <1>1 DEF InstallHandler, OpenFile, ReadPiece, EndOfFile, WaitForQuit, Linger, GoTo,
              Quiet, QuietSteps, sessionVars, signalVars
<1>2. CASE BlankOsd \/ RejectFile \/ CreateSession \/ StoreHandle \/ ShowOsd \/ Return
  BY <1>2 DEF BlankOsd, RejectFile, CreateSession, StoreHandle, ShowOsd, Return, GoTo,
              Change, sessionVars, signalVars
<1>3. CASE StartVideo \/ StartAudio
  BY <1>3 DEF StartVideo, StartAudio, GoTo, Switch, Switches, Call, CallSteps, signalVars
<1>4. CASE StopVideo \/ StopAudio
  BY <1>4 DEF StopVideo, StopAudio, GoTo, Switch, Stop, signalVars
<1>5. CASE Release
  BY <1>5 DEF Release, GoTo, ReleaseSession, Free, signalVars
<1>6. CASE \E res \in Results : WriteData(res)
  BY <1>6 DEF WriteData, GoTo, Call, CallSteps, signalVars
<1>7. CASE BeforeWrite \/ AfterPiece
  <2>1. PICK from \in {"write", "after"}, to \in {"call", "read"} :
          /\ <<from, to>> \in {<<"write", "call">>, <<"after", "read">>}
          /\ TakeKey(from, to) \/ NoKey(from, to)
    BY <1>7 DEF BeforeWrite, KeyWhileWriting, AfterPiece
  <2>2. CASE NoKey(from, to)
    BY <2>1, <2>2 DEF NoKey, GoTo, Quiet, QuietSteps, sessionVars, signalVars
  <2>3. CASE TakeKey(from, to) /\ GoTo(from, "close") /\ UNCHANGED sessionVars
    BY <2>1, <2>3 DEF TakeKey, GoTo, Quiet, QuietSteps, sessionVars, signalVars
  <2>4. CASE /\ TakeKey(from, to) /\ GoTo(from, to)
             /\ Switch("main", SwitchedOn(Head(stdin)), SwitchedOff(Head(stdin)))
    <3>1. SwitchedOn(Head(stdin)) \subseteq Switches
      BY KeySwitches
    <3>2. active' = active \/ (Live /\ active' \subseteq active \cup Switches)
      BY <2>4, <3>1 DEF Switch
    <3>3. QED
      BY <2>1, <2>4, <3>2 DEF TakeKey, GoTo, Switch, Call, CallSteps, signalVars
  <2>5. QED
    BY <2>1, <2>2, <2>3, <2>4 DEF TakeKey
<1>8. QED
  BY <1>1, <1>2, <1>3, <1>4, <1>5, <1>6, <1>7 DEF MainStep

\* A step of the handler on thread t.
HandlerChange(t, from, to) ==
  handler[t] = from /\ handler' = [handler EXCEPT ![t] = to]

LEMMA HandlerCases ==
  ASSUME NEW t \in HandlerThreads, HandlerStep(t)
  PROVE  /\ Running /\ UNCHANGED <<main, fileVars, keyVars, session, signals>>
         /\ \/ /\ HandlerChange(t, "stopVideo", "stopAudio") \/ HandlerChange(t, "stopAudio", "release")
               /\ handler[t] = "stopVideo" /\ Live => active' = active \ {"video"}
               /\ active' \subseteq active /\ misused' = misused \cup Misuse("handler")
               /\ (Live \/ active' = active)
               /\ life' = Called /\ UNCHANGED <<osd, process>>
            \/ /\ HandlerChange(t, "release", "showOsd")
               /\ life' = Freed
               /\ misused' = misused \cup Misuse("handler")
               /\ UNCHANGED <<active, osd, process>>
            \/ /\ HandlerChange(t, "showOsd", "raise")
               /\ osd' = "shown"
               /\ UNCHANGED <<life, active, misused, process>>
            \/ /\ HandlerChange(t, "raise", "raise")
               /\ process' = "killed"
               /\ UNCHANGED <<life, active, misused, osd>>
<1>1. /\ HandlerOrder["stopVideo"] = "stopAudio" /\ HandlerOrder["stopAudio"] = "release"
      /\ HandlerOrder["release"] = "showOsd" /\ HandlerOrder["showOsd"] = "raise"
  BY DEF HandlerOrder
<1>2. CASE HandlerStopVideo(t) \/ HandlerStopAudio(t)
  BY <1>1, <1>2 DEF HandlerStopVideo, HandlerStopAudio, HandlerGoes, HandlerChange, Switch
<1>3. CASE HandlerRelease(t)
  BY <1>1, <1>3 DEF HandlerRelease, HandlerGoes, HandlerChange, ReleaseSession
<1>4. CASE HandlerShowOsd(t)
  BY <1>1, <1>4 DEF HandlerShowOsd, HandlerGoes, HandlerChange, OsdShown, sessionVars
<1>5. CASE HandlerRaise(t)
  BY <1>5 DEF HandlerRaise, HandlerChange, HandlerKills, sessionVars
<1>6. QED
  BY <1>2, <1>3, <1>4, <1>5 DEF HandlerStep

(***************************************************************************)
(* Type correctness.                                                       *)
(***************************************************************************)

\* What was read of the file, and what the session took of it.
FileType ==
  /\ demod \in Demods
  /\ file \in Sizes
  /\ pos \in Nat /\ (file # -1 => pos <= file) /\ (file = -1 => pos = 0)
  /\ eof \in BOOLEAN
  /\ written \subseteq 0 .. pos
  /\ again \subseteq written
  /\ failed \subseteq 0 .. pos
  /\ retrying \in BOOLEAN
  /\ stdin \in Seq(Keys)
  /\ typed \in 0 .. MaxKeys

LEMMA FileTypeHolds == TypeOK /\ [Next]_vars => FileType'
<1> SUFFICES ASSUME FileType, [Next]_vars PROVE FileType'
  BY DEF TypeOK, FileType
<1>1. CASE UNCHANGED <<fileVars, keyVars>>
  BY <1>1 DEF FileType, fileVars, keyVars
<1>2. CASE ReadPiece
  <2>1. /\ pos' = Read.pos /\ eof' = Read.eof /\ retrying' = FALSE
        /\ UNCHANGED <<demod, file, written, again, failed, stdin, typed>>
    BY <1>2 DEF ReadPiece, keyVars
  <2>2. /\ pos' \in Nat /\ pos <= pos' /\ eof' \in BOOLEAN
        /\ (file # -1 => pos' <= file) /\ (file = -1 => pos' = 0)
    <3>1. CASE file = -1
      BY <2>1, <3>1 DEF Read, FileType
    <3>2. CASE file # -1
      <4>1. pos' = Least(pos + 2, file) /\ eof' = (pos + 2 > file)
        BY <2>1, <3>2 DEF Read
      <4>2. file \in Nat
        BY <3>2 DEF FileType
      <4>3. QED
        BY <3>2, <4>1, <4>2 DEF Least, FileType
    <3>3. QED
      BY <3>1, <3>2
  <2>3. 0 .. pos \subseteq 0 .. pos'
    BY <2>2 DEF FileType
  <2>4. QED
    BY <2>1, <2>2, <2>3 DEF FileType
<1>3. CASE \E res \in Results : WriteData(res)
  <2>1. PICK res \in Results : WriteData(res)
    BY <1>3
  <2>2. UNCHANGED <<demod, file, pos, eof, stdin, typed>>
    BY <2>1 DEF WriteData, keyVars
  <2>3. /\ retrying' \in BOOLEAN
        /\ written' \in {written, written \cup {pos}}
        /\ again' \in {again, again \cup ({pos} \cap written)}
        /\ written \subseteq written'
        /\ failed' \in {failed, failed \cup {pos}}
    BY <2>1 DEF WriteData
  <2>4. pos \in 0 .. pos
    BY DEF FileType
  <2>5. QED
    BY <2>2, <2>3, <2>4 DEF FileType
<1>4. CASE UNCHANGED <<fileVars, typed>> /\ stdin # <<>> /\ stdin' = Tail(stdin)
  <2>1. stdin' \in Seq(Keys)
    BY <1>4 DEF FileType
  <2>2. QED
    BY <1>4, <2>1 DEF FileType, fileVars
<1>5. CASE \E key \in Keys : TypeKey(key)
  <2>1. PICK key \in Keys : TypeKey(key)
    BY <1>5
  <2>2. /\ UNCHANGED fileVars /\ typed < MaxKeys /\ typed' = typed + 1
        /\ stdin' = Append(stdin, key)
    BY <2>1 DEF TypeKey
  <2>3. stdin' \in Seq(Keys) /\ typed' \in 0 .. MaxKeys
    BY <2>2 DEF FileType
  <2>4. QED
    BY <2>2, <2>3 DEF FileType, fileVars
<1>6. CASE \/ InstallHandler \/ BlankOsd \/ OpenFile \/ RejectFile \/ CreateSession \/ StoreHandle
           \/ StartVideo \/ StartAudio \/ EndOfFile \/ Linger \/ ShowOsd \/ StopVideo \/ StopAudio
           \/ Release \/ Return
  <2>1. UNCHANGED <<fileVars, keyVars>>
    BY <1>6 DEF InstallHandler, BlankOsd, OpenFile, RejectFile, CreateSession, StoreHandle,
           StartVideo, StartAudio, EndOfFile, Linger, ShowOsd, StopVideo, StopAudio, Release, Return
  <2>2. QED
    BY <1>1, <2>1
<1>7. CASE BeforeWrite \/ AfterPiece \/ WaitForQuit
  <2>1. \/ UNCHANGED <<fileVars, keyVars>>
        \/ UNCHANGED <<fileVars, typed>> /\ stdin # <<>> /\ stdin' = Tail(stdin)
    BY <1>7 DEF BeforeWrite, KeyWhileWriting, AfterPiece, WaitForQuit, TakeKey, NoKey, keyVars
  <2>2. QED
    BY <1>1, <1>4, <2>1
<1>8. MainStep => FileType'
  BY <1>2, <1>3, <1>6, <1>7, Zenon DEF MainStep
<1>9. CASE (\E t \in HandlerThreads : Interrupt(t) \/ HandlerStep(t)) \/ Terminated \/ UNCHANGED vars
  <2>1. UNCHANGED <<fileVars, keyVars>>
    BY <1>9, HandlerCases DEF Interrupt, Terminated, vars
  <2>2. QED
    BY <1>1, <2>1
<1>10. QED
  BY <1>5, <1>8, <1>9 DEF Next

\* The other variables.
SessionType ==
  /\ main \in MainPC
  /\ session \in BOOLEAN
  /\ life \in {"none", "live"} \cup Gone
  /\ active \subseteq Switches
  /\ misused \subseteq Misuses
  /\ osd \in {"shown", "blanked"}
  /\ handler \in [HandlerThreads -> HandlerPC]
  /\ signals \in 0 .. MaxSignals
  /\ process \in {"running", "killed", "returned"}

LEMMA TypeSplits == TypeOK <=> FileType /\ SessionType
  BY DEF TypeOK, FileType, SessionType

LEMMA MisuseType == Misuse("main") \subseteq Misuses /\ Misuse("handler") \subseteq Misuses
  BY DEF Misuse, Misuses

LEMMA MainType == ASSUME SessionType, MainStep PROVE SessionType'
<1>1. UNCHANGED <<handler, signals>>
  BY MainCases
<1>2. CASE Quiet \/ Change
  BY <1>1, <1>2 DEF Quiet, QuietSteps, Change, SessionType, MainPC
<1>3. CASE \/ Call \/ Free
           \/ Stop("video", "stopVideo", "stopAudio") \/ Stop("audio", "stopAudio", "release")
  <2>1. misused' \subseteq Misuses
    BY <1>3, MisuseType DEF Call, Free, Stop, SessionType
  <2>2. active' \subseteq Switches
    BY <1>3 DEF Call, Free, Stop, SessionType
  <2>3. main' \in MainPC
    BY <1>3 DEF Call, CallSteps, Free, Stop, MainPC
  <2>4. UNCHANGED <<session, osd, process>> /\ life' \in {life} \cup Gone
    BY <1>3 DEF Call, Free, Stop, Called, Freed, Gone
  <2>5. QED
    BY <1>1, <2>1, <2>2, <2>3, <2>4 DEF SessionType
<1>4. QED
  BY <1>2, <1>3, MainCases

LEMMA HandlerType ==
  ASSUME SessionType, NEW t \in HandlerThreads, HandlerStep(t) PROVE SessionType'
<1>1. /\ UNCHANGED <<main, session, signals>>
      /\ osd' \in {osd, "shown"} /\ life' \in {life} \cup Gone /\ process' \in {process, "killed"}
      /\ active' \subseteq active
  BY HandlerCases DEF Called, Freed, Gone
<1>2. handler' \in [HandlerThreads -> HandlerPC]
  BY HandlerCases DEF HandlerChange, SessionType, HandlerPC
<1>3. misused' \subseteq Misuses
  BY HandlerCases, MisuseType DEF SessionType
<1>4. QED
  BY <1>1, <1>2, <1>3 DEF SessionType

\* A signal that comes.
LEMMA InterruptCases ==
  ASSUME NEW t \in HandlerThreads, Interrupt(t)
  PROVE  /\ CanHandle(t) /\ Running /\ signals < MaxSignals /\ signals' = signals + 1
         /\ UNCHANGED <<main, session, life, active, misused, osd>>
         /\ \/ main = "signal" /\ process' = "killed" /\ UNCHANGED handler
            \/ main # "signal" /\ HandlerChange(t, "idle", "stopVideo") /\ UNCHANGED process
<1>1. HandlerOrder.idle = "stopVideo"
  BY DEF HandlerOrder
<1>2. QED
  BY <1>1 DEF Interrupt, sessionVars, HandlerChange

LEMMA InterruptType ==
  ASSUME SessionType, NEW t \in HandlerThreads, Interrupt(t) PROVE SessionType'
<1>1. handler' \in [HandlerThreads -> HandlerPC]
  BY InterruptCases DEF HandlerChange, SessionType, HandlerPC
<1>2. signals' \in 0 .. MaxSignals
  BY InterruptCases DEF SessionType
<1>3. QED
  BY <1>1, <1>2, InterruptCases DEF SessionType

(***************************************************************************)
(* The inductive invariant: the steps of main().                           *)
(***************************************************************************)

\* While main() runs, a handler that was started runs beside it, and has not
\* returned to it; before the session is made there is none.
LEMMA HandlersBeside ==
  ASSUME Inv, MainStep
  PROVE  /\ process = "running" /\ UNCHANGED handler
         /\ "main" \in HandlerThreads => handler["main"] = "idle"
         /\ \A t \in HandlerThreads : handler[t] # "idle" => Raced /\ life # "none"
         /\ Raced' = Raced
<1>1. Running /\ ~ Suspended /\ UNCHANGED handler
  BY MainCases
<1>2. "main" \in HandlerThreads => handler["main"] = "idle"
  BY <1>1 DEF Suspended
<1>3. \A t \in HandlerThreads : t # "main" => t = "other"
  OBVIOUS
<1>4. \A t \in HandlerThreads : handler[t] # "idle" => Raced /\ life # "none"
  BY <1>2, <1>3 DEF Raced, Inv, SingleInv, HandlerInv
<1>5. QED
  BY <1>1, <1>2, <1>4 DEF Running, Raced

\* A call that finds no live session was raced.
LEMMA MainMisuse ==
  ASSUME Inv, MainStep, main \notin Early \cup {"store", "return", "returned"}
  PROVE  (Misuse("main") # {} => Raced) /\ (life = "live" => Live)
<1>1. session /\ life \in {"live"} \cup Gone
  BY DEF Inv, SingleInv, SessionInv, TypeOK
<1>2. life \in Gone => Raced
  BY HandlersBeside DEF Inv, SingleInv, SessionInv
<1>3. QED
  BY <1>1, <1>2 DEF Misuse, Live

LEMMA MainKeepsCalls == ASSUME Inv, MainStep PROVE MainCallsLive'
<1>1. MainCallsLive /\ Raced' = Raced
  BY HandlersBeside DEF Inv, SingleInv
<1>2. misused' = misused \/ (misused' = misused \cup Misuse("main") /\ (Misuse("main") # {} => Raced))
  <2>1. CASE Quiet \/ Change
    BY <2>1 DEF Quiet, Change
  <2>2. CASE \/ Call \/ Free
             \/ Stop("video", "stopVideo", "stopAudio") \/ Stop("audio", "stopAudio", "release")
    <3>1. misused' = misused \cup Misuse("main")
      BY <2>2 DEF Call, Free, Stop
    <3>2. main \notin Early \cup {"store", "return", "returned"}
      BY <2>2 DEF Call, CallSteps, Free, Stop, Early
    <3>3. QED
      BY <3>1, <3>2, MainMisuse
  <2>3. QED
    BY <2>1, <2>2, MainCases
<1>3. QED
  BY <1>1, <1>2 DEF MainCallsLive

LEMMA MainKeepsSession == ASSUME Inv, MainStep PROVE SessionInv'
<1>1. SessionInv /\ UNCHANGED handler
  BY HandlersBeside DEF Inv, SingleInv
<1>2. CASE Quiet
  BY <1>1, <1>2 DEF Quiet, QuietSteps, SessionInv, Early
<1>3. CASE Call
  <2>1. life' = life \/ (life \in Gone /\ life' \in Gone)
    BY <1>3, CalledStays DEF Call, Inv, TypeOK, Gone
  <2>2. QED
    BY <1>1, <1>3, <2>1 DEF Call, CallSteps, SessionInv, Early, Gone
<1>4. CASE Change
  BY <1>1, <1>4 DEF Change, SessionInv, Early, Gone
<1>5. CASE Free
  <2>1. life' \in Gone
    BY <1>1, <1>5, FreedIsGone DEF Free, SessionInv, Early, Inv, TypeOK
  <2>2. QED
    BY <1>1, <1>5, <2>1 DEF Free, SessionInv, Early, Gone
<1>6. CASE Stop("video", "stopVideo", "stopAudio") \/ Stop("audio", "stopAudio", "release")
  <2>1. life' = life \/ (life \in Gone /\ life' \in Gone)
    BY <1>6, CalledStays DEF Stop, Inv, TypeOK, Gone
  <2>2. life' = "live" => "video" \notin active'
    <3>1. life = "live" => Live
      BY <1>6, MainMisuse DEF Stop, Early
    <3>2. QED
      BY <1>1, <1>6, <2>1, <3>1 DEF Stop, SessionInv, Gone
  <2>3. QED
    BY <1>1, <1>6, <2>1, <2>2 DEF Stop, SessionInv, Early, Gone
<1>7. QED
  BY <1>2, <1>3, <1>4, <1>5, <1>6, MainCases

LEMMA MainKeepsEnd == ASSUME Inv, MainStep PROVE EndInv'
<1>1. EndInv /\ process = "running" /\ UNCHANGED handler
  BY HandlersBeside DEF Inv, SingleInv
<1>2. CASE Quiet
  BY <1>1, <1>2 DEF Quiet, QuietSteps, EndInv, TakingDown
<1>3. CASE Call
  BY <1>1, <1>3 DEF Call, CallSteps, EndInv, TakingDown
<1>4. CASE Change
  BY <1>1, <1>4 DEF Change, EndInv, TakingDown
<1>5. CASE \/ Free
           \/ Stop("video", "stopVideo", "stopAudio") \/ Stop("audio", "stopAudio", "release")
  BY <1>1, <1>5 DEF Free, Stop, EndInv, TakingDown
<1>6. QED
  BY <1>2, <1>3, <1>4, <1>5, MainCases

LEMMA MainKeepsHandlers ==
  ASSUME Inv, MainStep, NEW t \in HandlerThreads PROVE HandlerInv(t)'
<1>1. HandlerInv(t) /\ UNCHANGED handler
  BY HandlersBeside DEF Inv, SingleInv
<1>2. CASE handler[t] = "idle"
  BY <1>1, <1>2 DEF HandlerInv
<1>3. CASE handler[t] # "idle"
  <2>1. life # "none" /\ t # "main"
    BY <1>3, HandlersBeside
  <2>2. main \notin Early
    BY <2>1 DEF Inv, SingleInv, SessionInv
  <2>3. main' \notin Early /\ life' \in {life} \cup Gone /\ misused \subseteq misused' /\ osd' \in {osd, "shown"}
    <3>1. CASE Quiet
      BY <2>2, <3>1 DEF Quiet, QuietSteps, Early
    <3>2. CASE Call
      BY <2>2, <3>2 DEF Call, CallSteps, Early, Called, Gone
    <3>3. CASE Change
      BY <2>2, <3>3 DEF Change, Early
    <3>4. CASE \/ Free
               \/ Stop("video", "stopVideo", "stopAudio") \/ Stop("audio", "stopAudio", "release")
      BY <3>4 DEF Free, Stop, Early, Called, Freed, Gone
    <3>5. QED
      BY <3>1, <3>2, <3>3, <3>4, MainCases
  <2>4. QED
    BY <1>1, <1>3, <2>1, <2>3 DEF HandlerInv, Early, Gone
<1>4. QED
  BY <1>2, <1>3

(***************************************************************************)
(* The inductive invariant: the steps of the handlers.                     *)
(***************************************************************************)

LEMMA HandlerHolds ==
  ASSUME Inv, NEW t \in HandlerThreads, HandlerStep(t) PROVE SingleInv'
<1>1. /\ UNCHANGED <<main, session>> /\ process = "running"
      /\ osd' \in {osd, "shown"} /\ life' \in {life} \cup Gone /\ active' \subseteq active
      /\ misused \subseteq misused' /\ (\A m \in misused' : m \in misused \/ m[1] = "handler")
      /\ handler[t] # "idle" /\ handler'[t] # "idle"
      /\ \A s \in HandlerThreads : s # t => handler'[s] = handler[s]
  BY HandlerCases DEF HandlerChange, Inv, TypeOK, Running, Misuse, Called, Freed, Gone
<1>2. main # "signal" /\ process' \in {"running", "killed"}
  BY <1>1, HandlerCases DEF Inv, SingleInv, HandlerInv
<1>3. SessionInv'
  <2>1. SessionInv
    BY DEF Inv, SingleInv
  <2>2. life' \in Gone =>
          \/ main \in {"return", "returned"}
          \/ \E s \in HandlerThreads : handler'[s] \in {"showOsd", "raise"}
    <3>1. handler[t] \in {"showOsd", "raise"} => handler'[t] = "raise"
      BY HandlerCases DEF HandlerChange, Inv, TypeOK
    <3>2. life \in Gone \/ life' \notin Gone \/ handler'[t] = "showOsd"
      <4>1. life' = Called => (life' \in Gone <=> life \in Gone)
        BY CalledStays DEF Inv, TypeOK
      <4>2. QED
        BY <4>1, HandlerCases DEF HandlerChange, Inv, TypeOK
    <3>3. QED
      BY <1>1, <2>1, <3>1, <3>2 DEF SessionInv
  <2>3. life' # life => session
    BY HandlerCases DEF Called, Freed, Live
  <2>4. /\ life # "none" => life' # "none"
        /\ life' = "live" => life = "live"
        /\ life \in Gone => life' \in Gone
    BY <1>1 DEF Gone
  <2>5. QED
    BY <1>1, <2>1, <2>2, <2>3, <2>4 DEF SessionInv
<1>4. EndInv'
  <2>1. process' = "killed" => handler'[t] = "raise"
    BY <1>1, HandlerCases DEF HandlerChange, Inv, TypeOK
  <2>2. QED
    BY <1>1, <1>2, <2>1 DEF Inv, SingleInv, EndInv
<1>5. MainCallsLive'
  <2>1. Raced => Raced'
    BY <1>1 DEF Raced
  <2>2. QED
    BY <1>1, <2>1 DEF Inv, SingleInv, MainCallsLive
<1>6. ASSUME NEW s \in HandlerThreads PROVE HandlerInv(s)'
  <2>1. HandlerInv(s) /\ HandlerInv(t)
    BY DEF Inv, SingleInv
  <2>2. Live' => Live
    BY <1>1 DEF Live, Gone
  <2>3. CASE s # t
    BY <1>1, <1>2, <2>1, <2>2, <2>3 DEF HandlerInv, Gone
  <2>4. CASE s = t
    <3>1. life' = "none" => t = "main"
      BY <1>1, <2>1 DEF HandlerInv, Gone
    <3>2. handler'[t] \in {"showOsd", "raise"} /\ life' = "live" => <<"handler", "early">> \in misused'
      <4>1. CASE handler[t] \in {"showOsd", "raise"}
        BY <1>1, <2>1, <4>1 DEF HandlerInv, Gone
      <4>2. CASE handler[t] \notin {"showOsd", "raise"} /\ handler'[t] \in {"showOsd", "raise"}
        <5>1. /\ life' = Freed
              /\ misused' = misused \cup Misuse("handler")
          BY <4>2, HandlerCases DEF HandlerChange, Inv, TypeOK
        <5>2. life' = "live" => ~ session
          BY <5>1 DEF Freed, Live
        <5>3. QED
          BY <5>1, <5>2 DEF Misuse, Live
      <4>3. QED
        BY <4>1, <4>2
    <3>3. handler'[t] = "raise" => osd' = "shown"
      BY <2>1, HandlerCases DEF HandlerChange, Inv, TypeOK, HandlerInv
    <3>4. t = "main" /\ handler'[t] \in {"stopAudio", "release"} /\ Live' => "video" \notin active'
      <4>1. handler'[t] \in {"stopAudio", "release"} /\ Live =>
              \/ handler[t] = "stopVideo" /\ active' = active \ {"video"}
              \/ handler[t] \in {"stopAudio", "release"}
        BY HandlerCases DEF HandlerChange, Inv, TypeOK
      <4>2. QED
        BY <1>1, <2>1, <2>2, <4>1 DEF HandlerInv
    <3>5. QED
      BY <1>1, <1>2, <2>4, <3>1, <3>2, <3>3, <3>4 DEF HandlerInv
  <2>5. QED
    BY <2>3, <2>4
<1>7. QED
  BY <1>3, <1>4, <1>5, <1>6 DEF SingleInv

LEMMA InterruptHolds ==
  ASSUME Inv, NEW t \in HandlerThreads, Interrupt(t) PROVE SingleInv'
<1>1. /\ CanHandle(t) /\ process = "running"
      /\ UNCHANGED <<main, session, life, active, misused, osd>>
  BY InterruptCases DEF Running
<1>2. SessionInv /\ EndInv /\ MainCallsLive /\ \A s \in HandlerThreads : HandlerInv(s)
  BY DEF Inv, SingleInv
<1>3. CASE main = "signal" /\ process' = "killed" /\ UNCHANGED handler
  <2>1. SessionInv'
    BY <1>1, <1>2, <1>3 DEF SessionInv
  <2>2. EndInv'
    BY <1>1, <1>2, <1>3 DEF EndInv
  <2>3. MainCallsLive'
    BY <1>1, <1>2, <1>3 DEF MainCallsLive, Raced
  <2>4. \A s \in HandlerThreads : HandlerInv(s)'
    BY <1>1, <1>2, <1>3 DEF HandlerInv, Live
  <2>5. QED
    BY <2>1, <2>2, <2>3, <2>4 DEF SingleInv
<1>4. CASE main # "signal" /\ HandlerChange(t, "idle", "stopVideo") /\ UNCHANGED process
  <2>1. /\ handler[t] = "idle" /\ handler'[t] = "stopVideo"
        /\ \A s \in HandlerThreads : s # t => handler'[s] = handler[s]
    BY <1>4 DEF HandlerChange, Inv, TypeOK
  <2>2. SessionInv'
    <3>1. (\E s \in HandlerThreads : handler[s] \in {"showOsd", "raise"}) =>
            \E s \in HandlerThreads : handler'[s] \in {"showOsd", "raise"}
      BY <2>1
    <3>2. QED
      BY <1>1, <1>2, <3>1 DEF SessionInv
  <2>3. EndInv'
    BY <1>1, <1>2, <1>4 DEF EndInv
  <2>4. MainCallsLive'
    BY <1>1, <1>2, <2>1 DEF MainCallsLive, Raced
  <2>5. \A s \in HandlerThreads : HandlerInv(s)'
    <3>1. life = "none" => t = "main"
      BY <1>1 DEF CanHandle
    <3>2. QED
      BY <1>1, <1>2, <1>4, <2>1, <3>1 DEF HandlerInv, Live
  <2>6. QED
    BY <2>2, <2>3, <2>4, <2>5 DEF SingleInv
<1>5. QED
  BY <1>3, <1>4, InterruptCases

LEMMA StutterHolds ==
  ASSUME Inv, UNCHANGED <<main, sessionVars, osd, signalVars, process>>
  PROVE  SingleInv' /\ (SessionType => SessionType')
<1>1. UNCHANGED <<main, session, life, active, misused, osd, handler, signals, process>>
  BY DEF sessionVars, signalVars
<1>2. SessionInv' /\ EndInv' /\ MainCallsLive'
  BY <1>1 DEF Inv, SingleInv, SessionInv, EndInv, MainCallsLive, Raced
<1>3. \A s \in HandlerThreads : HandlerInv(s)'
  BY <1>1 DEF Inv, SingleInv, HandlerInv, Live
<1>4. QED
  BY <1>1, <1>2, <1>3 DEF SingleInv, SessionType

\* The inductive invariant holds in every state.
THEOREM SingleInvariant == Spec => []Inv
<1>1. Inv /\ [Next]_vars => Inv'
  <2> SUFFICES ASSUME Inv, [Next]_vars PROVE Inv'
    OBVIOUS
  <2>1. FileType'
    BY FileTypeHolds DEF Inv
  <2>2. SessionType
    BY TypeSplits DEF Inv
  <2>3. ASSUME MainStep PROVE SessionType' /\ SingleInv'
    <3>1. SessionType'
      BY <2>2, <2>3, MainType
    <3>2. SessionInv' /\ EndInv' /\ MainCallsLive'
      BY <2>3, MainKeepsSession, MainKeepsEnd, MainKeepsCalls
    <3>3. \A t \in HandlerThreads : HandlerInv(t)'
      BY <2>3, MainKeepsHandlers
    <3>4. QED
      BY <3>1, <3>2, <3>3 DEF SingleInv
  <2>4. ASSUME NEW t \in HandlerThreads, Interrupt(t) \/ HandlerStep(t)
        PROVE  SessionType' /\ SingleInv'
    BY <2>2, <2>4, InterruptType, InterruptHolds, HandlerType, HandlerHolds
  <2>5. ASSUME (\E key \in Keys : TypeKey(key)) \/ Terminated \/ UNCHANGED vars
        PROVE  SessionType' /\ SingleInv'
    <3>1. UNCHANGED <<main, sessionVars, osd, signalVars, process>>
      BY <2>5 DEF TypeKey, Terminated, vars
    <3>2. QED
      BY <2>2, <3>1, StutterHolds
  <2>6. SessionType' /\ SingleInv'
    BY <2>3, <2>4, <2>5 DEF Next
  <2>7. TypeOK'
    BY <2>1, <2>6 DEF TypeOK, FileType, SessionType
  <2>8. QED
    BY <2>6, <2>7 DEF Inv
<1>2. QED
  BY <1>1, InitHolds, PTL DEF Spec

(***************************************************************************)
(* The theorems.                                                           *)
(***************************************************************************)

\* Every variable has its type; main() reads no further than the file goes.
THEOREM TypeCorrect == Spec => []TypeOK
<1>1. Inv => TypeOK
  BY DEF Inv
<1>2. QED
  BY <1>1, SingleInvariant, PTL

\* However the program ends, but for the early return, the display is back.
THEOREM DisplayIsBack == Spec => []OsdRestored
<1>1. Inv => OsdRestored
  <2> SUFFICES ASSUME Inv, Over PROVE osd = "shown" \/ main = "rejected"
    BY DEF OsdRestored
  <2>1. EndInv /\ \A t \in HandlerThreads : HandlerInv(t)
    BY DEF Inv, SingleInv
  <2>2. process \in {"killed", "returned"}
    BY DEF Inv, TypeOK, Over, Running
  <2>3. QED
    BY <2>1, <2>2 DEF EndInv, HandlerInv, TakingDown
<1>2. QED
  BY <1>1, SingleInvariant, PTL

\* main() calls the library only while its session is alive, unless the handler
\* runs beside it.
THEOREM NoCallAfterRelease == Spec => []MainCallsLive
<1>1. Inv => MainCallsLive
  BY DEF Inv, SingleInv
<1>2. QED
  BY <1>1, SingleInvariant, PTL

\* A session outlives the program only if SIGINT found it before its handle was set.
THEOREM SessionIsReleased == Spec => []SessionOutlivesOnlyIfEarly
<1>1. Inv => SessionOutlivesOnlyIfEarly
  <2> SUFFICES ASSUME Inv, Over, life = "live" PROVE <<"handler", "early">> \in misused
    BY DEF SessionOutlivesOnlyIfEarly
  <2>1. EndInv /\ SessionInv /\ \A t \in HandlerThreads : HandlerInv(t)
    BY DEF Inv, SingleInv
  <2>2. process \in {"killed", "returned"}
    BY DEF Inv, TypeOK, Over, Running
  <2>3. QED
    BY <2>1, <2>2 DEF EndInv, SessionInv, HandlerInv, Early, Gone
<1>2. QED
  BY <1>1, SingleInvariant, PTL

\* A handler that is about to call the library, while the session is released
\* already, came in time for the end of main() or is not alone.
LEMMA HandlerIsLate ==
  ASSUME Inv, NEW t \in HandlerThreads, life \in Gone, Running,
         handler[t] \in {"stopVideo", "stopAudio", "release"}
  PROVE  Raced \/ main = "return"
<1>1. main # "returned"
  BY DEF Inv, SingleInv, EndInv, Running
<1>2. CASE main \in {"return", "returned"}
  BY <1>1, <1>2
<1>3. CASE main \notin {"return", "returned"}
  <2>1. PICK s \in HandlerThreads : handler[s] \in {"showOsd", "raise"}
    BY <1>3 DEF Inv, SingleInv, SessionInv
  <2>2. s = "other" \/ t = "other"
    BY <2>1
  <2>3. QED
    BY <2>1, <2>2 DEF Raced
<1>4. QED
  BY <1>2, <1>3

\* The session is made once, switched while it lives, and released once with its
\* video stopped: the program implements SessionLife, except that a handler
\* beside main() may release it while main() starts the video, and that a session
\* is called or released again only then, or by a handler that comes after the
\* release in main().
THEOREM SessionIsKeptOrderly == Spec => SessionLives
<1> DEFINE Decoding == IF "video" \in active THEN "own" ELSE "off"
           Late == (Raced \/ main = "return") /\ (Session!Late \/ Session!Again)
           Orderly == Session!Next \/ (Raced /\ Session!Cut) \/ Late
                      \/ UNCHANGED <<life, Decoding>>
<1>1. Init => Session!Init
  BY DEF Init, Session!Init
<1>2. Inv /\ [Next]_vars => Orderly
  <2> SUFFICES ASSUME Inv, [Next]_vars PROVE Orderly
    OBVIOUS
  <2>1. SessionInv /\ \A t \in HandlerThreads : HandlerInv(t)
    BY DEF Inv, SingleInv
  <2>2. CASE life' = life /\ active' = active
    BY <2>2
  <2>3. CASE life' = life /\ Live
    BY <2>3 DEF Live, Session!Next, Session!Switch
  <2>4. CASE (Raced \/ main = "return") /\ life' = Called /\ active' = active
    BY <2>2, <2>4 DEF Called, Session!Late
  <2>5. CASE (Raced \/ main = "return") /\ life' = "twice" /\ life \in Gone /\ active' = active
    BY <2>2, <2>5 DEF Gone, Session!Again
  <2>6. life' = Called /\ Live => life' = life
    BY DEF Called, Live
  <2>7. ASSUME MainStep PROVE Orderly
    <3>1. CASE Quiet
      BY <2>2, <3>1 DEF Quiet
    <3>2. CASE Call \/ Stop("video", "stopVideo", "stopAudio") \/ Stop("audio", "stopAudio", "release")
      <4>1. main \notin Early \cup {"store", "return", "returned"}
        BY <3>2 DEF Call, CallSteps, Stop, Early
      <4>2. Live \/ Raced
        BY <2>7, <4>1, MainMisuse DEF Misuse
      <4>3. life' = Called /\ (Live \/ active' = active)
        BY <3>2 DEF Call, Stop
      <4>4. QED
        BY <2>3, <2>4, <2>6, <4>2, <4>3
    <3>3. CASE Change
      <4>1. CASE main = "create" /\ life' = "live" /\ UNCHANGED active
        BY <2>1, <4>1 DEF SessionInv, Early, Session!Next, Session!Create
      <4>2. CASE life' = life /\ active' = active
        BY <2>2, <4>2
      <4>3. QED
        BY <3>3, <4>1, <4>2 DEF Change
    <3>4. CASE Free
      <4>1. main = "release" /\ active' = active /\ life' = Freed /\ session
            /\ life \in {"live"} \cup Gone
        BY <2>1, <3>4 DEF Free, SessionInv, Early, Inv, TypeOK
      <4>2. CASE life = "live"
        BY <2>1, <4>1, <4>2 DEF SessionInv, Freed, Live, Session!Next, Session!Release
      <4>3. CASE life \in Gone
        <5>1. life' = "twice"
          BY <4>1, <4>3 DEF Freed, Live, Gone
        <5>2. Raced
          <6>1. ~ Live /\ main \notin Early \cup {"store", "return", "returned"}
            BY <4>1, <4>3 DEF Live, Gone, Early
          <6>2. QED
            BY <2>7, <6>1, MainMisuse DEF Misuse
        <5>3. QED
          BY <2>5, <4>1, <4>3, <5>1, <5>2
      <4>4. QED
        BY <4>1, <4>2, <4>3
    <3>5. QED
      BY <2>7, <3>1, <3>2, <3>3, <3>4, MainCases
  <2>8. ASSUME NEW t \in HandlerThreads, HandlerStep(t) PROVE Orderly
    <3>1. CASE life' = life
      BY <2>2, <2>3, <2>8, <3>1, HandlerCases
    <3>2. CASE life' # life
      <4>1. /\ handler[t] \in {"stopVideo", "stopAudio", "release"}
            /\ Running /\ session
            /\ \/ life' = Called /\ ~ Live /\ active' = active
               \/ life' = Freed /\ active' = active /\ handler[t] = "release"
        BY <2>6, <2>8, <3>2, HandlerCases DEF HandlerChange, Called, Freed, Live
      <4>2. life \in {"live"} \cup Gone
        BY <2>1, <4>1 DEF SessionInv, Early, Inv, TypeOK
      <4>3. life \in Gone => Raced \/ main = "return"
        BY <4>1, HandlerIsLate
      <4>4. CASE life' = Called /\ ~ Live /\ active' = active
        BY <2>4, <4>1, <4>2, <4>3, <4>4 DEF Live
      <4>5. CASE life' = Freed /\ active' = active /\ handler[t] = "release"
        <5>1. CASE life \in Gone
          <6>1. life' = "twice"
            BY <4>1, <4>5, <5>1 DEF Freed, Live, Gone
          <6>2. QED
            BY <2>5, <4>3, <4>5, <5>1, <6>1
        <5>2. CASE life = "live"
          <6>1. Live /\ life' = "released"
            BY <4>1, <4>5, <5>2 DEF Freed, Live
          <6>2. CASE t = "main"
            BY <2>1, <4>5, <5>2, <6>1, <6>2 DEF HandlerInv, Session!Next, Session!Release
          <6>3. CASE t = "other"
            BY <4>5, <5>2, <6>1, <6>3 DEF Raced, Session!Next, Session!Release, Session!Cut
          <6>4. QED
            BY <6>2, <6>3
        <5>3. QED
          BY <4>2, <5>1, <5>2
      <4>6. QED
        BY <4>1, <4>4, <4>5
    <3>3. QED
      BY <3>1, <3>2
  <2>9. ASSUME NEW t \in HandlerThreads, Interrupt(t) PROVE Orderly
    BY <2>2, <2>9, InterruptCases
  <2>10. ASSUME (\E key \in Keys : TypeKey(key)) \/ Terminated \/ UNCHANGED vars PROVE Orderly
    <3>1. life' = life /\ active' = active
      BY <2>10 DEF TypeKey, Terminated, vars, sessionVars
    <3>2. QED
      BY <2>2, <3>1
  <2>11. QED
    BY <2>7, <2>8, <2>9, <2>10 DEF Next
<1>3. Inv /\ [Next]_vars =>
        [\/ Session!Next
         \/ Raced /\ Session!Cut
         \/ (Raced \/ main = "return") /\ (Session!Late \/ Session!Again)]_(Session!sessionVars)
  BY <1>2 DEF Session!sessionVars
<1>4. QED
  BY <1>1, <1>3, SingleInvariant, PTL DEF Spec, SessionLives

(***************************************************************************)
(* The pieces of the file.                                                 *)
(***************************************************************************)

PiecesInv == FileType /\ PieceInv /\ TwiceOnlyAtTheEnd

LEMMA PiecesInit == Init => PiecesInv
<1> SUFFICES ASSUME Init PROVE PiecesInv
  OBVIOUS
<1>1. FileType
  BY InitHolds, TypeSplits DEF Inv
<1>2. PieceInv
  BY DEF Init, PieceInv, BeforeReading, Early, InHand, Reading
<1>3. TwiceOnlyAtTheEnd
  BY DEF Init, TwiceOnlyAtTheEnd
<1>4. QED
  BY <1>1, <1>2, <1>3 DEF PiecesInv

\* What main() does between the pieces.
Between ==
  \/ main' = main
  \/ main \in BeforeReading /\ main' \in BeforeReading \cup {"read", "wait"}
  \/ <<main, main'>> \in {<<"write", "call">>, <<"after", "read">>}
  \/ main = "read" /\ main' = "linger" /\ eof
  \/ main' \in {"wait", "close", "stopVideo", "stopAudio", "release", "return", "returned"}

LEMMA BetweenPieces ==
  ASSUME [Next]_vars
  PROVE  \/ ReadPiece \/ (\E res \in Results : WriteData(res))
         \/ UNCHANGED fileVars /\ Between
<1>1. CASE BeforeWrite \/ AfterPiece \/ WaitForQuit
  BY <1>1 DEF BeforeWrite, KeyWhileWriting, AfterPiece, WaitForQuit, TakeKey, NoKey, GoTo, Between
<1>2. CASE InstallHandler \/ BlankOsd \/ OpenFile \/ RejectFile \/ CreateSession \/ StoreHandle
           \/ StartVideo \/ StartAudio
  BY <1>2 DEF InstallHandler, BlankOsd, OpenFile, RejectFile, CreateSession, StoreHandle,
              StartVideo, StartAudio, GoTo, Between, BeforeReading, Early
<1>3. CASE EndOfFile \/ Linger \/ ShowOsd \/ StopVideo \/ StopAudio \/ Release \/ Return
  BY <1>3 DEF EndOfFile, Linger, ShowOsd, StopVideo, StopAudio, Release, Return, GoTo, Between
<1>4. CASE (\E t \in HandlerThreads : Interrupt(t) \/ HandlerStep(t)) \/ (\E key \in Keys : TypeKey(key))
           \/ Terminated \/ UNCHANGED vars
  BY <1>4, HandlerCases DEF Interrupt, TypeKey, Terminated, vars, Between
<1>5. QED
  BY <1>1, <1>2, <1>3, <1>4 DEF Next, MainStep

\* Reading goes on from a whole number of buffers, to the next or to the end.
LEMMA ReadHolds == ASSUME PiecesInv, ReadPiece PROVE PieceInv' /\ TwiceOnlyAtTheEnd'
<1>1. /\ main = "read" /\ main' = "write" /\ ~ eof
      /\ pos' = Read.pos /\ eof' = Read.eof
      /\ UNCHANGED <<file, written, again, failed>>
  BY DEF ReadPiece, GoTo
<1>2. TwiceOnlyAtTheEnd'
  BY <1>1 DEF PiecesInv, TwiceOnlyAtTheEnd
<1>3. CASE file = -1
  <2>1. pos' = 0 /\ eof' = FALSE
    BY <1>1, <1>3 DEF Read
  <2>2. PieceInv'
    BY <1>1, <1>3, <2>1 DEF PieceInv, BeforeReading, Early, InHand, Reading
  <2>3. QED
    BY <1>2, <2>2
<1>4. CASE file # -1
  <2>1. /\ pos' = Least(pos + 2, file) /\ eof' = (pos + 2 > file)
        /\ file \in Nat /\ pos \in Nat /\ pos <= file /\ pos % 2 = 0
    BY <1>1, <1>4 DEF Read, PiecesInv, FileType, PieceInv
  <2>2. /\ ~ eof' => pos' = pos + 2 /\ pos' % 2 = 0
        /\ eof' => pos' = file /\ file < pos + 2
        /\ pos' \in Nat
    <3>1. CASE pos + 2 > file
      <4>1. eof'
        BY <2>1, <3>1, Zenon
      <4>2. pos' = file
        BY <2>1, <3>1 DEF Least
      <4>3. QED
        BY <2>1, <3>1, <4>1, <4>2
    <3>2. CASE ~ (pos + 2 > file)
      <4>1. ~ eof'
        BY <2>1, <3>2, Zenon
      <4>2. pos' = pos + 2
        BY <2>1, <3>2 DEF Least
      <4>3. pos' \in Nat /\ pos' % 2 = 0
        BY <2>1, <4>2
      <4>4. QED
        BY <4>1, <4>2, <4>3
    <3>3. QED
      BY <3>1, <3>2
  <2>3. \A p \in Ends : p < pos' => p <= pos
    <3> SUFFICES ASSUME NEW p \in Ends, p < pos', p > pos PROVE FALSE
      BY <2>1, <2>2 DEF Ends
    <3>1. p = pos + 1 /\ (p % 2 = 0 \/ p = file) /\ pos' <= file
      BY <2>1, <2>2 DEF Ends, Least
    <3>2. QED
      BY <2>1, <2>2, <3>1
  <2>4. \A p \in Ends : p < pos' => p \in written \cup failed
    <3>1. \A p \in Ends : p \in Nat
      BY <1>4, <2>1 DEF Ends
    <3>2. QED
      BY <1>1, <1>4, <2>1, <2>3, <3>1 DEF PiecesInv, PieceInv, Reading, InHand
  <2>5. pos' \in written => pos' = file /\ pos' % 2 = 0
    <3>1. pos' \in written => pos' <= pos
      BY <2>2 DEF PiecesInv, FileType
    <3>2. QED
      BY <2>1, <2>2, <3>1
  <2>6. Ends' = Ends
    BY <1>1 DEF Ends
  <2>7. PieceInv'
    BY <1>1, <1>4, <2>2, <2>4, <2>5, <2>6 DEF PieceInv, BeforeReading, Early, InHand, Reading
  <2>8. QED
    BY <1>2, <2>7
<1>5. QED
  BY <1>3, <1>4

\* An answer other than RETRY settles the piece in hand.
LEMMA WriteHolds ==
  ASSUME PiecesInv, NEW res \in Results, WriteData(res) PROVE PieceInv' /\ TwiceOnlyAtTheEnd'
<1>1. /\ main = "call" /\ main' = IF res \in Repeats THEN "write" ELSE "after"
      /\ written' = IF res = "OK" THEN written \cup {pos} ELSE written
      /\ again' = IF res = "OK" THEN again \cup ({pos} \cap written) ELSE again
      /\ failed' = IF res = "error" THEN failed \cup {pos} ELSE failed
      /\ UNCHANGED <<file, pos, eof>>
  BY DEF WriteData, GoTo
<1>2. PieceInv /\ TwiceOnlyAtTheEnd /\ Ends' = Ends
  BY <1>1 DEF PiecesInv, Ends
<1>3. CASE res = "RETRY"
  <2>1. main' = "write" /\ UNCHANGED <<written, again, failed>>
    BY <1>1, <1>3 DEF Repeats
  <2>2. PieceInv'
    BY <1>1, <1>2, <2>1 DEF PieceInv, BeforeReading, Early, InHand, Reading
  <2>3. QED
    BY <1>1, <1>2, <2>1, <2>2 DEF TwiceOnlyAtTheEnd
<1>4. CASE res \in {"OK", "error"}
  <2>1. /\ main' = "after" /\ written \subseteq written' /\ failed \subseteq failed'
        /\ pos \in written' \cup failed'
        /\ \A p \in again' : p \in again \/ (p = pos /\ pos \in written)
    BY <1>1, <1>4 DEF Repeats
  <2>2. PieceInv'
    BY <1>1, <1>2, <2>1 DEF PieceInv, BeforeReading, Early, InHand, Reading
  <2>3. TwiceOnlyAtTheEnd'
    BY <1>1, <1>2, <2>1 DEF TwiceOnlyAtTheEnd, PieceInv, InHand
  <2>4. QED
    BY <2>2, <2>3
<1>5. QED
  BY <1>3, <1>4 DEF Results

LEMMA BetweenHolds == ASSUME PiecesInv, UNCHANGED fileVars, Between PROVE PieceInv' /\ TwiceOnlyAtTheEnd'
<1>1. UNCHANGED <<file, pos, eof, written, again, failed>>
  BY DEF fileVars
<1>2. PieceInv /\ TwiceOnlyAtTheEnd /\ Ends' = Ends
  BY <1>1 DEF PiecesInv, Ends
<1>3. TwiceOnlyAtTheEnd'
  BY <1>1, <1>2 DEF TwiceOnlyAtTheEnd
<1>4. file # -1 => \A p \in Ends : p \in Nat /\ p > 0
  BY DEF Ends, PiecesInv, FileType
<1>5. CASE main \in BeforeReading
  <2>1. pos = 0 /\ ~ eof
    BY <1>2, <1>5 DEF PieceInv
  <2>2. QED
    BY <1>1, <1>2, <1>3, <1>4, <1>5, <2>1 DEF Between, PieceInv, BeforeReading, Early, InHand, Reading
<1>6. CASE main \notin BeforeReading
  BY <1>1, <1>2, <1>3, <1>6 DEF Between, PieceInv, BeforeReading, Early, InHand, Reading
<1>7. QED
  BY <1>5, <1>6

\* What is known of the pieces holds in every state.
THEOREM PiecesInvariant == Spec => []PiecesInv
<1>1. PiecesInv /\ TypeOK /\ [Next]_vars => PiecesInv'
  BY FileTypeHolds, BetweenPieces, ReadHolds, WriteHolds, BetweenHolds DEF PiecesInv
<1>2. QED
  BY <1>1, PiecesInit, TypeCorrect, PTL DEF Spec

\* A file of any size that was played to its end was written whole, but for the
\* pieces the session refused.
THEOREM FileIsPlayedWhole == Spec => []PlayedWhole
<1>1. PiecesInv => PlayedWhole
  <2> SUFFICES ASSUME PiecesInv, main = "linger", NEW p \in Ends PROVE p \in written \cup failed
    BY DEF PlayedWhole
  <2>1. file # -1 /\ pos = file
    BY DEF PiecesInv, PieceInv
  <2>2. p <= pos /\ p \in Int /\ pos \in Int
    BY <2>1 DEF Ends, PiecesInv, FileType
  <2>3. QED
    BY <2>1, <2>2 DEF PiecesInv, PieceInv, Reading, InHand
<1>2. QED
  BY <1>1, PiecesInvariant, PTL

\* However often writeData() answers RETRY, no piece is written twice, but for
\* the last one of a file that ends where a buffer does.
THEOREM NoPieceTwice == Spec => []TwiceOnlyAtTheEnd
<1>1. PiecesInv => TwiceOnlyAtTheEnd
  BY DEF PiecesInv
<1>2. QED
  BY <1>1, PiecesInvariant, PTL

\* An empty file never gets past the test of its size.
LEMMA TestHolds == ASSUME PastTheTest, [Next]_vars PROVE PastTheTest'
<1>1. UNCHANGED <<demod, file>>
  BY DEF Next, MainStep, InstallHandler, BlankOsd, OpenFile, RejectFile, CreateSession, StoreHandle,
         StartVideo, StartAudio, ReadPiece, EndOfFile, BeforeWrite, KeyWhileWriting, TakeKey, NoKey,
         WriteData, AfterPiece, WaitForQuit, Linger, ShowOsd, StopVideo, StopAudio, Release, Return,
         Interrupt, HandlerStep, HandlerStopVideo, HandlerStopAudio, HandlerRelease, HandlerShowOsd,
         HandlerRaise, TypeKey, Terminated, fileVars, vars
<1>2. CASE main \in {"signal", "blank", "open", "rejected"}
  <2>1. \/ main' \in {"signal", "blank", "open", "rejected"}
        \/ main' = "create" /\ ~ Rejected
    BY <1>2 DEF Next, MainStep, InstallHandler, BlankOsd, OpenFile, RejectFile, CreateSession,
           StoreHandle, StartVideo, StartAudio, ReadPiece, EndOfFile, BeforeWrite, KeyWhileWriting,
           TakeKey, NoKey, WriteData, AfterPiece, WaitForQuit, Linger, ShowOsd, StopVideo, StopAudio,
           Release, Return, GoTo, Interrupt, HandlerStep, HandlerStopVideo, HandlerStopAudio,
           HandlerRelease, HandlerShowOsd, HandlerRaise, TypeKey, Terminated, vars
  <2>2. QED
    BY <1>1, <2>1 DEF PastTheTest, Rejected
<1>3. CASE main \notin {"signal", "blank", "open", "rejected"}
  BY <1>1, <1>3 DEF PastTheTest
<1>4. QED
  BY <1>2, <1>3

\* Only a file that cannot be opened leads to a session without data.
THEOREM DataUnlessUnopened == -1 \notin Sizes /\ Spec => []NothingWithoutData
<1> SUFFICES ASSUME -1 \notin Sizes PROVE Spec => []NothingWithoutData
  OBVIOUS
<1>1. Init => PastTheTest
  BY DEF Init, PastTheTest
<1>2. Inv /\ PastTheTest => NothingWithoutData
  <2> SUFFICES ASSUME Inv, PastTheTest, life # "none", ~ demod PROVE file > 0
    BY DEF NothingWithoutData
  <2>1. main \notin Early
    BY DEF Inv, SingleInv, SessionInv
  <2>2. file # 0 /\ file \in Nat
    BY <2>1, SizesAssumption DEF Early, PastTheTest, Inv, TypeOK
  <2>3. QED
    BY <2>2
<1>3. QED
  BY <1>1, <1>2, TestHolds, SingleInvariant, PTL DEF Spec
=============================================================================
