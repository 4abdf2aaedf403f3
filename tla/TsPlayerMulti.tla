--------------------------- MODULE TsPlayerMulti ---------------------------
(***************************************************************************)
(* example/AmTsPlayerMultiExample: main() starts one thread per channel,   *)
(* each of which plays a transport stream file through an AmTsPlayer       *)
(* session of its own, and then reads keys: they choose the channel that   *)
(* is heard, steer the video of the last channel, and quit.  main() and    *)
(* the threads share the parameters of the channels (the flags run and     *)
(* mute) and the array g_session of handles, without any lock.             *)
(*                                                                         *)
(* The AmTsPlayer library is prebuilt; a session is modelled by whether it *)
(* is alive, muted and decoding video, and whose parameters it has.  A     *)
(* call through a handle that is still 0 reaches no session; one through a *)
(* released handle leaves its mark on the session.                         *)
(* The array mTsParams ends at changNum: what a key for a channel beyond   *)
(* it writes lies outside the state modelled here.                         *)
(***************************************************************************)
EXTENDS Integers, FiniteSets

CONSTANTS
  changNum,         \* the number of channels
  MaxNumber,        \* bound: the greatest channel number with a key
  MaxKeys,          \* bound: keys pressed, apart from the quit key
  MaxChunks,        \* bound: pieces a file is read in
  VideoKeys,        \* the keys for the video that are used: {"p", "r", "h", "s"}
  Faults            \* what may fail

ASSUME changNumAssumption  == changNum \in Nat \ {0}
ASSUME MaxNumberAssumption == MaxNumber \in Nat /\ MaxNumber >= changNum - 1
ASSUME BoundsAssumption    == MaxKeys \in Nat /\ MaxChunks \in Nat
ASSUME VideoKeysAssumption == VideoKeys \subseteq {"p", "r", "h", "s"}
ASSUME FaultsAssumption    == Faults \subseteq {"thread", "file"}

VARIABLES
  main,             \* where main() is
  next,             \* the channel main() starts or joins next
  choice,           \* the channel changAudio() mutes, and the one it unmutes
  keys,             \* how many keys were pressed
  mThread,          \* per channel: its thread was created
  run, mute,        \* per channel: the flags in mTsParams
  g_session,        \* per channel: its handle is in g_session
  thread,           \* per channel: where its thread is
  muteArg,          \* per channel: the value of mute its thread has read
  chunks,           \* per channel: pieces of its file that were written
  session,          \* per channel: what became of its session
  muted,            \* per channel: the session is muted
  vparm, video      \* per channel: who has set its video parameters, "none" at
                    \* first, and who has started its video, unless it is "off"

mainVars == <<main, next, choice, keys, mThread>>
flagVars == <<run, mute, g_session>>
threadVars == <<thread, muteArg, chunks>>
playerVars == <<session, muted, vparm, video>>
vars == <<mainVars, flagVars, threadVars, playerVars>>

Channels == 0 .. changNum - 1
Last == changNum - 1

Init ==
  /\ main = "spawn"
  /\ next = 0
  /\ choice = [old |-> 0, new |-> 0]
  /\ keys = 0
  /\ mThread = [c \in Channels |-> FALSE]
  /\ run = [c \in Channels |-> TRUE]
  /\ mute = [c \in Channels |-> c # 0]
  /\ g_session = [c \in Channels |-> FALSE]
  /\ thread = [c \in Channels |-> "unborn"]
  /\ muteArg = [c \in Channels |-> FALSE]
  /\ chunks = [c \in Channels |-> 0]
  /\ session = [c \in Channels |-> "none"]
  /\ muted = [c \in Channels |-> FALSE]
  /\ vparm = [c \in Channels |-> "none"]
  /\ video = [c \in Channels |-> "off"]

-----------------------------------------------------------------------------
(* The AmTsPlayer library.                                                 *)

\* A call through the handle of channel c: a session that lives goes on.
Calls(c) == session' = [session EXCEPT ![c] = IF @ = "live" THEN @ ELSE "late"]

\* A call of main(), through g_session.
MainCalls(c) == IF c \in Channels /\ g_session[c] THEN Calls(c) ELSE UNCHANGED session
Reaches(c) == c \in Channels /\ g_session[c] /\ session[c] = "live"
Set(state, c, value) == IF Reaches(c) THEN [state EXCEPT ![c] = value] ELSE state

SetAudioMute(c, value) == MainCalls(c) /\ muted' = Set(muted, c, value)
SetVideo(c, value) == MainCalls(c) /\ video' = Set(video, c, value)

\* Whose codec and PID a session has: its thread passes on those of its own
\* channel, and startVideo() those of the first one, whatever the number.
Parameters(who, c) == IF who = "key" THEN 0 ELSE c

-----------------------------------------------------------------------------
(* main().                                                                 *)

\* Spawn the thread of the next channel.
PthreadCreate ==
  /\ main = "spawn"
  /\ next < changNum
  /\ next' = next + 1
  /\ \/ /\ mThread' = [mThread EXCEPT ![next] = TRUE]
        /\ thread' = [thread EXCEPT ![next] = "start"]
     \/ /\ "thread" \in Faults
        /\ UNCHANGED <<mThread, thread>>
  /\ UNCHANGED <<main, choice, keys, flagVars, muteArg, chunks, playerVars>>

AllSpawned ==
  /\ main = "spawn"
  /\ next = changNum
  /\ main' = "watch"
  /\ UNCHANGED <<next, choice, keys, mThread, flagVars, threadVars, playerVars>>

\* changAudio() looks for the first channel that is not muted, ...
Unmuted == {c \in Channels : ~ mute[c]}
FirstUnmuted == CHOOSE c \in Unmuted : \A d \in Unmuted : c <= d

FlagKept(c) == mute
FlagSet(c) == [mute EXCEPT ![c] = TRUE]

PressNumber(n) ==
  /\ main = "watch"
  /\ keys < MaxKeys
  /\ keys' = keys + 1
  /\ \/ /\ Unmuted # {} /\ FirstUnmuted = n
        /\ UNCHANGED <<main, choice, mute>>
     \/ /\ Unmuted # {} /\ FirstUnmuted # n
        /\ choice' = [old |-> FirstUnmuted, new |-> n]
        /\ mute' = FlagSet(FirstUnmuted)
        /\ main' = "muteOld"
     \/ /\ Unmuted = {}
        /\ choice' = [choice EXCEPT !.new = n]
        /\ main' = "unmute"
        /\ UNCHANGED mute
  /\ UNCHANGED <<next, mThread, run, g_session, threadVars, playerVars>>

\* ... mutes its session, ...
MuteOld ==
  /\ main = "muteOld"
  /\ main' = "unmute"
  /\ SetAudioMute(choice.old, TRUE)
  /\ UNCHANGED <<next, choice, keys, mThread, flagVars, threadVars, vparm, video>>

\* ... and then clears the flag of the chosen channel and unmutes its session.
ClearMute ==
  /\ main = "unmute"
  /\ main' = "unmuteNew"
  /\ mute' = [c \in Channels |-> c # choice.new /\ mute[c]]
  /\ UNCHANGED <<next, choice, keys, mThread, run, g_session, threadVars, playerVars>>

UnmuteNew ==
  /\ main = "unmuteNew"
  /\ main' = "watch"
  /\ SetAudioMute(choice.new, FALSE)
  /\ UNCHANGED <<next, choice, keys, mThread, flagVars, threadVars, vparm, video>>

\* Keys for the video of the last channel: stop, hide, show, ...
PressVideo(key) ==
  /\ main = "watch"
  /\ keys < MaxKeys
  /\ keys' = keys + 1
  /\ key # "r"
  /\ SetVideo(Last, IF key = "p" THEN "off" ELSE video[Last])
  /\ UNCHANGED <<main, next, choice, mThread, flagVars, threadVars, muted, vparm>>

\* ... and start, which sets the parameters first.
PressStart ==
  /\ main = "watch"
  /\ "r" \in VideoKeys
  /\ keys < MaxKeys
  /\ keys' = keys + 1
  /\ main' = "startVideo"
  /\ MainCalls(Last)
  /\ vparm' = Set(vparm, Last, "key")
  /\ UNCHANGED <<next, choice, mThread, flagVars, threadVars, muted, video>>

StartLast ==
  /\ main = "startVideo"
  /\ main' = "watch"
  /\ SetVideo(Last, "key")
  /\ UNCHANGED <<next, choice, keys, mThread, flagVars, threadVars, muted, vparm>>

\* main() joins the threads in order, from the first.
NotReset == next
FirstToJoin == 0

\* Every channel is asked to stop, and main() leaves the loop.
PressQuit ==
  /\ main = "watch"
  /\ main' = "join"
  /\ next' = FirstToJoin
  /\ run' = [c \in Channels |-> FALSE]
  /\ UNCHANGED <<choice, keys, mThread, mute, g_session, threadVars, playerVars>>

\* The flags of all channels are false.
AllChannelsExit ==
  /\ main = "watch"
  /\ \A c \in Channels : ~ run[c]
  /\ main' = "join"
  /\ next' = FirstToJoin
  /\ UNCHANGED <<choice, keys, mThread, flagVars, threadVars, playerVars>>

OneTooMany == next <= changNum
MoreToJoin == next < changNum

JoinNext ==
  /\ main = "join"
  /\ MoreToJoin
  /\ run' = [run EXCEPT ![next] = FALSE]
  /\ main' = "joining"
  /\ UNCHANGED <<next, choice, keys, mThread, mute, g_session, threadVars, playerVars>>

PthreadJoin ==
  /\ main = "joining"
  /\ mThread[next] => thread[next] = "ended"
  /\ mThread' = [mThread EXCEPT ![next] = FALSE]
  /\ next' = next + 1
  /\ main' = "join"
  /\ UNCHANGED <<choice, keys, flagVars, threadVars, playerVars>>

Exit ==
  /\ main = "join"
  /\ next = changNum
  /\ main' = "exited"
  /\ UNCHANGED <<next, choice, keys, mThread, flagVars, threadVars, playerVars>>

-----------------------------------------------------------------------------
(* TsPlayerThread() of channel c.                                          *)

GoTo(c, from, to) == thread[c] = from /\ thread' = [thread EXCEPT ![c] = to]

\* The thread sets its own flag, whatever main() has done with it.
Start(c) ==
  /\ GoTo(c, "start", "open")
  /\ run' = [run EXCEPT ![c] = TRUE]
  /\ UNCHANGED <<mainVars, mute, g_session, muteArg, chunks, playerVars>>

OpenFile(c) ==
  /\ GoTo(c, "open", "create")
  /\ UNCHANGED <<mainVars, flagVars, muteArg, chunks, playerVars>>

\* A file that is missing or empty ends the thread, its flag still set.
OpenFails(c) ==
  /\ GoTo(c, "open", "ended")
  /\ "file" \in Faults
  /\ UNCHANGED <<mainVars, flagVars, muteArg, chunks, playerVars>>

CreateSession(c) ==
  /\ GoTo(c, "create", "publish")
  /\ session' = [session EXCEPT ![c] = "live"]
  /\ UNCHANGED <<mainVars, flagVars, muteArg, chunks, muted, vparm, video>>

PublishSession(c) ==
  /\ GoTo(c, "publish", "setParams")
  /\ g_session' = [g_session EXCEPT ![c] = TRUE]
  /\ UNCHANGED <<mainVars, run, mute, muteArg, chunks, playerVars>>

SetVideoParams(c) ==
  /\ GoTo(c, "setParams", "startVideo")
  /\ Calls(c)
  /\ vparm' = [vparm EXCEPT ![c] = "thread"]
  /\ UNCHANGED <<mainVars, flagVars, muteArg, chunks, muted, video>>

StartVideo(c) ==
  /\ GoTo(c, "startVideo", "readMute")
  /\ Calls(c)
  /\ video' = [video EXCEPT ![c] = "thread"]
  /\ UNCHANGED <<mainVars, flagVars, muteArg, chunks, muted, vparm>>

\* The argument of AmTsPlayer_setAudioMute() is read, ...
ReadMute(c) ==
  /\ GoTo(c, "readMute", "setMute")
  /\ muteArg' = [muteArg EXCEPT ![c] = mute[c]]
  /\ UNCHANGED <<mainVars, flagVars, chunks, playerVars>>

\* ... and the call is made.
SetMute(c) ==
  /\ GoTo(c, "setMute", "write")
  /\ Calls(c)
  /\ muted' = [muted EXCEPT ![c] = muteArg[c]]
  /\ UNCHANGED <<mainVars, flagVars, muteArg, chunks, vparm, video>>

\* A piece of the file is written; any error but RETRY passes for success.
WriteChunk(c) ==
  /\ thread[c] = "write"
  /\ run[c]
  /\ chunks[c] < MaxChunks
  /\ chunks' = [chunks EXCEPT ![c] = @ + 1]
  /\ Calls(c)
  /\ UNCHANGED <<mainVars, flagVars, thread, muteArg, muted, vparm, video>>

\* The end of the file, or the flag, is looked at before every write, and
\* the flag also before every retry.
PlayEndsByFlag(c) == ~ run[c]
PlayEnds(c) == ~ run[c] \/ chunks[c] = MaxChunks

EndOfPlay(c) ==
  /\ GoTo(c, "write", "finish")
  /\ PlayEnds(c)
  /\ UNCHANGED <<mainVars, flagVars, muteArg, chunks, playerVars>>

StaysRunning(c) == run
NoLongerRunning(c) == [run EXCEPT ![c] = FALSE]

Finish(c) ==
  /\ GoTo(c, "finish", "stop")
  /\ run' = NoLongerRunning(c)
  /\ UNCHANGED <<mainVars, mute, g_session, muteArg, chunks, playerVars>>

VideoKept(c) == video
VideoOff(c) == [video EXCEPT ![c] = "off"]

StopDecoding(c) ==
  /\ GoTo(c, "stop", "release")
  /\ Calls(c)
  /\ video' = VideoOff(c)
  /\ UNCHANGED <<mainVars, flagVars, muteArg, chunks, muted, vparm>>

\* The session is released; its handle stays in g_session.
Release(c) ==
  /\ GoTo(c, "release", "ended")
  /\ session' = [session EXCEPT ![c] = IF @ = "live" THEN "released" ELSE "twice"]
  /\ UNCHANGED <<mainVars, flagVars, muteArg, chunks, muted, vparm, video>>

ThreadStep(c) ==
  \/ Start(c) \/ OpenFile(c) \/ OpenFails(c)
  \/ CreateSession(c) \/ PublishSession(c) \/ SetVideoParams(c) \/ StartVideo(c)
  \/ ReadMute(c) \/ SetMute(c)
  \/ WriteChunk(c) \/ EndOfPlay(c) \/ Finish(c) \/ StopDecoding(c) \/ Release(c)

-----------------------------------------------------------------------------
MainStep ==
  \/ PthreadCreate \/ AllSpawned
  \/ MuteOld \/ ClearMute \/ UnmuteNew \/ StartLast
  \/ AllChannelsExit \/ JoinNext \/ PthreadJoin \/ Exit

KeyPressed ==
  \/ \E n \in 0 .. MaxNumber : PressNumber(n)
  \/ (\E key \in VideoKeys : PressVideo(key)) \/ PressStart
  \/ PressQuit

Terminated == main = "exited" /\ UNCHANGED vars

Next ==
  \/ MainStep \/ KeyPressed
  \/ \E c \in Channels : ThreadStep(c)
  \/ Terminated

Spec == Init /\ [][Next]_vars

\* All threads are scheduled, and writeData() does not answer RETRY for ever;
\* nobody has to press a key.
Fairness == WF_vars(MainStep) /\ \A c \in Channels : WF_vars(ThreadStep(c))

FairSpec == Spec /\ Fairness

-----------------------------------------------------------------------------
(* Properties.                                                             *)

MainPC == {"spawn", "watch", "muteOld", "unmute", "unmuteNew", "startVideo", "join", "joining", "exited"}
ThreadPC == {"unborn", "start", "open", "create", "publish", "setParams", "startVideo",
             "readMute", "setMute", "write", "finish", "stop", "release", "ended"}

\* Every variable has its type; main() joins only channels there are.
TypeOK ==
  /\ main \in MainPC
  /\ next \in 0 .. changNum
  /\ main = "joining" => next \in Channels
  /\ choice \in [old : Channels, new : 0 .. MaxNumber]
  /\ keys \in 0 .. MaxKeys
  /\ mThread \in [Channels -> BOOLEAN]
  /\ run \in [Channels -> BOOLEAN]
  /\ mute \in [Channels -> BOOLEAN]
  /\ g_session \in [Channels -> BOOLEAN]
  /\ thread \in [Channels -> ThreadPC]
  /\ muteArg \in [Channels -> BOOLEAN]
  /\ chunks \in [Channels -> 0 .. MaxChunks]
  /\ session \in [Channels -> {"none", "live", "released", "late"}]
  /\ muted \in [Channels -> BOOLEAN]
  /\ vparm \in [Channels -> {"none", "thread", "key"}]
  /\ video \in [Channels -> {"off", "thread", "key"}]

\* changAudio() never leaves two channels unmuted, not even for a moment.
AtMostOneUnmuted == \A c, d \in Unmuted : c = d

\* When main() returns, no thread is left and every session is released.
SessionsReleasedAtExit ==
  main = "exited" =>
    \A c \in Channels : thread[c] \in {"unborn", "ended"} /\ session[c] # "live"

\* Each session is made once, switched while it lives, with its own parameters,
\* and released once with its video stopped, whatever its thread and the keys of
\* main() do between them - except that
\*   - a key finds its handle in g_session also after the release,
\*   - the last channel, when a key starts it, goes on with the parameters of the
\*     first, or with none when its thread has yet to set them, and
\*   - it is released with its video on when a key has started that again since
\*     its thread stopped it.
Decoding(c) ==
  IF video[c] = "off" THEN "off"
  ELSE IF vparm[c] # "none" /\ Parameters(vparm[c], c) = c THEN "own" ELSE "other"
Session(c) == INSTANCE SessionLife WITH life <- session[c], decoding <- Decoding(c)

SessionStep(c) ==
  \/ Session(c)!Next
  \/ UNCHANGED threadVars /\ Session(c)!Late
  \/ c = Last /\ vparm'[c] # "thread" /\ Session(c)!Foreign
  \/ c = Last /\ video[c] = "key" /\ Session(c)!Cut
SessionsLive ==
  /\ \A c \in Channels : Session(c)!Init
  /\ [][\A c \in Channels : [SessionStep(c)]_<<session[c], Decoding(c)>>]_playerVars

\* q:quit - a channel that main() waits for has been told to stop.
QuitIsHeard == main = "joining" => ~ run[next]

\* <n>:<n> channel sound - when no thread is between reading its flag and the
\* call, and main() not inside changAudio(), a session is muted as its flag says.
KeySelectsSound ==
  main = "watch" =>
    \A c \in Channels : thread[c] = "write" => muted[c] = mute[c]

\* What holds instead: main() in the middle of changAudio() apart, a session is
\* muted as its flag says while its thread passed on the value the flag has now;
\* only a key between the read and the call can make them differ.
Changing(c) == \/ main = "muteOld" /\ choice.old = c
               \/ main = "unmuteNew" /\ choice.new = c
SoundUnlessOvertaken ==
  \A c \in Channels :
    thread[c] = "write" /\ muteArg[c] = mute[c] /\ ~ Changing(c) => muted[c] = mute[c]

\* ... and a session that is muted as its flag says stays so, whatever keys come.
InTune(c) == Changing(c) \/ muted[c] = mute[c]
SoundStays ==
  [][\A c \in Channels :
       thread[c] = "write" /\ thread'[c] = "write" /\ InTune(c) => InTune(c)']_vars

\* When every session was played to its end and released, main() leaves its loop
\* without the quit key: each thread has cleared its flag.
EndsWithTheSessions ==
  (\A c \in Channels : session[c] \in {"released", "late"}) ~> main = "exited"

\* "all channel exit": when all threads that were started have ended, main()
\* leaves its loop.
EndsWithTheChannels ==
  (main = "watch" /\ \A c \in Channels : thread[c] \in {"unborn", "ended"}) ~> main = "exited"

\* Once main() waits for the threads, after the quit key or without it, it
\* returns: a thread that missed the key ends with its file.
QuitEnds == main = "join" ~> main = "exited"

\* The inductive strengthening of the safety properties above: between the two
\* halves of changAudio() no flag is clear; a thread that was started and not
\* joined is known to main(); and a session lives while its thread is between
\* making and releasing it, its video, unless a key has started it, only while the
\* thread is between starting and stopping it.
Joining == main \in {"join", "joining", "exited"}

Open == {"publish", "setParams", "startVideo", "readMute", "setMute", "write", "finish", "stop", "release"}

ChannelInv(c) ==
  /\ main = "spawn" /\ next <= c => thread[c] = "unborn"
  /\ thread[c] = "unborn" \/ mThread[c] \/ (Joining /\ c < next)
  /\ Joining /\ c < next => thread[c] \in {"unborn", "ended"}
  /\ thread[c] \in {"unborn", "start", "open", "create"} => session[c] = "none"
  /\ thread[c] = "ended" => session[c] # "live"
  /\ thread[c] \in Open => session[c] = "live"
  /\ g_session[c] => session[c] # "none"
  /\ session[c] = "none" => vparm[c] = "none" /\ video[c] = "off"
  /\ thread[c] = "startVideo" => vparm[c] # "none"
  /\ video[c] = "thread" => thread[c] \in {"readMute", "setMute", "write", "finish", "stop"}
                             \/ session[c] # "live"
  /\ video[c] = "key" \/ vparm[c] = "key" => c = Last

\* A handle is known from its publication on, and the flag of the channel that
\* changAudio() is about to unmute is clear already.
SoundInv ==
  /\ \A c \in Channels :
       thread[c] \in {"setParams", "startVideo", "readMute", "setMute", "write"} => g_session[c]
  /\ main = "unmuteNew" /\ choice.new \in Channels => ~ mute[choice.new]
  /\ SoundUnlessOvertaken

\* Once its thread has started, a channel that was told to stop stays told; the
\* quit key can be lost on a channel only before.
QuitIsKept == [][\A c \in Channels : ~ run[c] /\ run'[c] => thread[c] = "start"]_vars

MultiInv ==
  /\ AtMostOneUnmuted
  /\ main \in {"muteOld", "unmute"} => Unmuted = {}
  /\ main = "exited" => next = changNum
  /\ \A c \in Channels : ChannelInv(c)
=============================================================================
