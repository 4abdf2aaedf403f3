------------------------ MODULE TsPlayerMultiProofs ------------------------
(***************************************************************************)
(* What holds of example/AmTsPlayerMultiExample for every number of        *)
(* channels, every sequence of keys and every failure.                     *)
(***************************************************************************)
EXTENDS TsPlayerMulti, TLAPS

USE changNumAssumption, MaxNumberAssumption, BoundsAssumption

Inv == TypeOK /\ MultiInv

Lives == {"none", "live", "released", "late"}
Users == {"none", "thread", "key"}
Starters == {"off", "thread", "key"}

LEMMA InitHolds == Init => Inv
<1> SUFFICES ASSUME Init PROVE Inv
  OBVIOUS
<1>1. TypeOK
  BY DEF Init, TypeOK, Channels, MainPC, ThreadPC
<1>2. MultiInv
  <2>1. \A c \in Channels : ~ mute[c] => c = 0
    BY DEF Init
  <2>2. AtMostOneUnmuted
    BY <2>1 DEF AtMostOneUnmuted, Unmuted
  <2>3. \A c \in Channels : ChannelInv(c)
    BY DEF Init, ChannelInv, Joining, Open
  <2>4. QED
    BY <2>2, <2>3 DEF MultiInv, Init
<1>3. QED
  BY <1>1, <1>2 DEF Inv

(***************************************************************************)
(* The flag mute.                                                          *)
(***************************************************************************)

\* The first channel that is unmuted is the only one.
LEMMA FirstIsTheOne ==
  ASSUME AtMostOneUnmuted, Unmuted # {}
  PROVE  FirstUnmuted \in Channels /\ Unmuted = {FirstUnmuted}
<1>1. PICK c \in Unmuted : TRUE
  OBVIOUS
<1>2. Unmuted = {c} /\ c \in Channels
  BY <1>1 DEF AtMostOneUnmuted, Unmuted
<1>3. \A d \in Unmuted : c <= d
  BY <1>2 DEF Channels
<1>4. FirstUnmuted \in Unmuted
  BY <1>1, <1>3 DEF FirstUnmuted
<1>5. QED
  BY <1>2, <1>4

(***************************************************************************)
(* The steps of main().                                                    *)
(***************************************************************************)

\* Sessions stay what they are, but for those that are called after their release.
Marked ==
  /\ session' \in [Channels -> Lives]
  /\ \A c \in Channels :
       session'[c] = session[c] \/ (session[c] = "released" /\ session'[c] = "late")

\* A call of main() reaches a session that was made: it lives, or it was released.
LEMMA MainCallMarks == ASSUME Inv, NEW d \in Int, MainCalls(d) PROVE Marked
<1>1. session \in [Channels -> Lives]
  BY DEF Inv, TypeOK, Lives
<1>2. CASE d \in Channels /\ g_session[d]
  <2>1. session[d] \in {"live", "released", "late"}
    BY <1>1, <1>2 DEF Inv, MultiInv, ChannelInv, Lives
  <2>2. session' = [session EXCEPT ![d] = IF @ = "live" THEN @ ELSE "late"]
    BY <1>2 DEF MainCalls, Calls
  <2>3. QED
    BY <1>1, <1>2, <2>1, <2>2 DEF Marked, Lives
<1>3. CASE ~ (d \in Channels /\ g_session[d])
  <2>1. session' = session
    BY <1>3 DEF MainCalls
  <2>2. QED
    BY <1>1, <2>1 DEF Marked
<1>4. QED
  BY <1>2, <1>3

\* What main() does with flags and keys leaves the channels as they are.
LEMMA ChannelsKept ==
  ASSUME Inv, UNCHANGED <<mThread, g_session, thread, vparm, video>>, Marked, main' # "spawn",
         \/ Joining /\ Joining' /\ next' = next
         \/ ~ Joining /\ (Joining' => next' = 0)
  PROVE  \A c \in Channels : ChannelInv(c)'
<1> SUFFICES ASSUME NEW c \in Channels PROVE ChannelInv(c)'
  OBVIOUS
<1>1. ChannelInv(c) /\ c \in Nat
  BY DEF Inv, MultiInv, Channels
<1>2. ~ (c < 0)
  BY <1>1
<1>3. /\ session'[c] = "live" <=> session[c] = "live"
      /\ session'[c] = "none" <=> session[c] = "none"
  BY DEF Marked
<1>4. QED
  BY <1>1, <1>2, <1>3 DEF ChannelInv

\* The flags stay as they are, or all are set, or one more is set.
LEMMA PressNumberHolds ==
  ASSUME Inv, NEW n \in 0 .. MaxNumber, PressNumber(n) PROVE Inv'
<1>1. /\ main = "watch" /\ keys < MaxKeys /\ keys' = keys + 1
      /\ UNCHANGED <<next, mThread, run, g_session, thread, muteArg, chunks>>
      /\ UNCHANGED <<session, muted, vparm, video>>
  BY DEF PressNumber, threadVars, playerVars
<1>2. AtMostOneUnmuted /\ mute \in [Channels -> BOOLEAN]
  BY DEF Inv, MultiInv, TypeOK
<1>3. \/ /\ UNCHANGED <<main, choice, mute>>
      \/ /\ choice' \in [old : Channels, new : 0 .. MaxNumber]
         /\ mute' \in [Channels -> BOOLEAN] /\ Unmuted' = {} /\ main' = "muteOld"
      \/ /\ choice' \in [old : Channels, new : 0 .. MaxNumber]
         /\ Unmuted = {} /\ main' = "unmute" /\ UNCHANGED mute
  <2>1. CASE Unmuted # {} /\ FirstUnmuted = n /\ UNCHANGED <<main, choice, mute>>
    BY <2>1
  <2>2. CASE /\ Unmuted # {} /\ choice' = [old |-> FirstUnmuted, new |-> n]
             /\ mute' = FlagSet(FirstUnmuted) /\ main' = "muteOld"
    <3>1. FirstUnmuted \in Channels /\ Unmuted = {FirstUnmuted}
      BY <1>2, <2>2, FirstIsTheOne
    <3>2. mute' = [mute EXCEPT ![FirstUnmuted] = TRUE]
      BY <2>2 DEF FlagSet
    <3>3. mute' \in [Channels -> BOOLEAN]
      BY <1>2, <3>2
    <3>4. \A c \in Channels : mute'[c]
      <4> SUFFICES ASSUME NEW c \in Channels PROVE mute'[c]
        OBVIOUS
      <4>1. CASE c = FirstUnmuted
        BY <1>2, <3>1, <3>2, <4>1
      <4>2. CASE c # FirstUnmuted
        <5>1. mute[c]
          BY <3>1, <4>2 DEF Unmuted
        <5>2. QED
          BY <1>2, <3>1, <3>2, <4>2, <5>1
      <4>3. QED
        BY <4>1, <4>2
    <3>5. Unmuted' = {}
      BY <3>4 DEF Unmuted
    <3>6. choice' \in [old : Channels, new : 0 .. MaxNumber]
      BY <2>2, <3>1
    <3>7. QED
      BY <2>2, <3>3, <3>5, <3>6
  <2>3. CASE /\ Unmuted = {} /\ choice' = [choice EXCEPT !.new = n]
             /\ main' = "unmute" /\ UNCHANGED mute
    <3>1. choice' \in [old : Channels, new : 0 .. MaxNumber]
      BY <2>3 DEF Inv, TypeOK
    <3>2. QED
      BY <2>3, <3>1
  <2>4. QED
    BY <2>1, <2>2, <2>3 DEF PressNumber
<1>4. main' \in {"watch", "muteOld", "unmute"}
  BY <1>1, <1>3
<1>5. \A c \in Channels : ChannelInv(c)'
  <2>1. Marked
    BY <1>1 DEF Inv, TypeOK, Marked, Lives
  <2>2. QED
    BY <1>1, <1>4, <2>1, ChannelsKept DEF Joining
<1>6. AtMostOneUnmuted' /\ (main' \in {"muteOld", "unmute"} => Unmuted' = {})
  BY <1>1, <1>2, <1>3 DEF AtMostOneUnmuted, Unmuted
<1>7. MultiInv'
  BY <1>4, <1>5, <1>6 DEF MultiInv
<1>8. TypeOK'
  <2>1. keys' \in 0 .. MaxKeys
    BY <1>1 DEF Inv, TypeOK
  <2>2. mute' \in [Channels -> BOOLEAN] /\ choice' \in [old : Channels, new : 0 .. MaxNumber]
    BY <1>2, <1>3 DEF Inv, TypeOK
  <2>3. QED
    BY <1>1, <1>4, <2>1, <2>2 DEF Inv, TypeOK, MainPC
<1>9. QED
  BY <1>7, <1>8 DEF Inv

\* changAudio() clears the flag of one channel at the most.
LEMMA ClearMuteHolds == ASSUME Inv, ClearMute PROVE Inv'
<1>1. /\ main = "unmute" /\ main' = "unmuteNew"
      /\ UNCHANGED <<next, choice, keys, mThread, run, g_session, thread, muteArg, chunks>>
      /\ UNCHANGED <<session, muted, vparm, video>>
      /\ mute' = [c \in Channels |-> c # choice.new /\ mute[c]]
  BY DEF ClearMute, threadVars, playerVars
<1>2. mute' \in [Channels -> BOOLEAN]
  BY <1>1
<1>3. \A c \in Channels : mute[c]
  BY <1>1 DEF Inv, MultiInv, Unmuted
<1>4. \A c \in Channels : ~ mute'[c] => c = choice.new
  BY <1>1, <1>3
<1>5. AtMostOneUnmuted'
  BY <1>4 DEF AtMostOneUnmuted, Unmuted
<1>6. \A c \in Channels : ChannelInv(c)'
  <2>1. Marked
    BY <1>1 DEF Inv, TypeOK, Marked, Lives
  <2>2. QED
    BY <1>1, <2>1, ChannelsKept DEF Joining
<1>7. QED
  BY <1>1, <1>2, <1>5, <1>6 DEF Inv, TypeOK, MultiInv, MainPC

\* The rest of changAudio() and of the keys, and the way to the joins.
LEMMA MainHolds ==
  ASSUME Inv, AllSpawned \/ MuteOld \/ UnmuteNew \/ PressQuit \/ AllChannelsExit \/ JoinNext \/ Exit
  PROVE  Inv'
<1>1. /\ UNCHANGED <<choice, keys, mThread, mute, g_session, thread, muteArg, chunks, vparm, video>>
      /\ Marked
      /\ run' \in [Channels -> BOOLEAN]
      /\ muted' \in [Channels -> BOOLEAN]
  <2>1. UNCHANGED <<choice, keys, mThread, mute, g_session, thread, muteArg, chunks, vparm, video>>
    BY DEF AllSpawned, MuteOld, UnmuteNew, PressQuit, AllChannelsExit, JoinNext, Exit,
           flagVars, threadVars, playerVars
  <2>2. run' \in [Channels -> BOOLEAN]
    <3>1. run \in [Channels -> BOOLEAN]
      BY DEF Inv, TypeOK
    <3>2. \/ run' = run \/ run' = [c \in Channels |-> FALSE] \/ run' = [run EXCEPT ![next] = FALSE]
      BY DEF AllSpawned, MuteOld, UnmuteNew, PressQuit, AllChannelsExit, JoinNext, Exit, flagVars
    <3>3. QED
      BY <3>1, <3>2
  <2>3. muted' \in [Channels -> BOOLEAN]
    <3>1. muted \in [Channels -> BOOLEAN]
      BY DEF Inv, TypeOK
    <3>2. \/ muted' = muted
          \/ muted' = [muted EXCEPT ![choice.old] = TRUE] \/ muted' = [muted EXCEPT ![choice.new] = FALSE]
      BY DEF AllSpawned, MuteOld, UnmuteNew, PressQuit, AllChannelsExit, JoinNext, Exit, playerVars, SetAudioMute, Set
    <3>3. QED
      BY <3>1, <3>2
  <2>4. Marked
    <3>1. CASE MuteOld
      <4>1. MainCalls(choice.old) /\ choice.old \in Int
        BY <3>1 DEF MuteOld, SetAudioMute, Inv, TypeOK, Channels
      <4>2. QED
        BY <4>1, MainCallMarks
    <3>2. CASE UnmuteNew
      <4>1. MainCalls(choice.new) /\ choice.new \in Int
        BY <3>2 DEF UnmuteNew, SetAudioMute, Inv, TypeOK
      <4>2. QED
        BY <4>1, MainCallMarks
    <3>3. CASE session' = session
      BY <3>3 DEF Inv, TypeOK, Marked, Lives
    <3>4. QED
      BY <3>1, <3>2, <3>3 DEF AllSpawned, PressQuit, AllChannelsExit, JoinNext, Exit, playerVars
  <2>5. QED
    BY <2>1, <2>2, <2>3, <2>4
<1>2. \/ main = "spawn" /\ main' = "watch" /\ next' = next
      \/ main = "muteOld" /\ main' = "unmute" /\ next' = next
      \/ main = "unmuteNew" /\ main' = "watch" /\ next' = next
      \/ main = "watch" /\ main' = "join" /\ next' = 0
      \/ main = "join" /\ main' = "joining" /\ next' = next /\ next < changNum
      \/ main = "join" /\ main' = "exited" /\ next' = next /\ next = changNum
  BY DEF AllSpawned, MuteOld, UnmuteNew, PressQuit, AllChannelsExit, JoinNext, Exit, FirstToJoin, MoreToJoin
<1>3. \A c \in Channels : ChannelInv(c)'
  BY <1>1, <1>2, ChannelsKept DEF Joining
<1>4. TypeOK'
  <2>1. next' \in 0 .. changNum /\ (main' = "joining" => next' \in Channels)
    BY <1>2 DEF Inv, TypeOK, Channels
  <2>2. QED
    BY <1>1, <1>2, <2>1 DEF Inv, TypeOK, MainPC, Marked, Lives
<1>5. Unmuted' = Unmuted /\ AtMostOneUnmuted'
  BY <1>1 DEF Inv, MultiInv, AtMostOneUnmuted, Unmuted
<1>6. MultiInv'
  BY <1>2, <1>3, <1>5 DEF Inv, MultiInv
<1>7. QED
  BY <1>4, <1>6 DEF Inv

\* A key for the video changes the last session, and only while that lives.
LEMMA VideoKey ==
  ASSUME Inv, (\E key \in VideoKeys : PressVideo(key)) \/ PressStart \/ StartLast
  PROVE  /\ main \in {"watch", "startVideo"} /\ main' \in {"watch", "startVideo"}
         /\ keys' \in 0 .. MaxKeys
         /\ UNCHANGED <<next, choice, mThread, run, mute, g_session, thread, muteArg, chunks, muted>>
         /\ Marked
         /\ \/ UNCHANGED <<vparm, video>>
            \/ session[Last] = "live" /\ vparm' = [vparm EXCEPT ![Last] = "key"] /\ UNCHANGED video
            \/ /\ session[Last] = "live" /\ UNCHANGED vparm
               /\ video' = [video EXCEPT ![Last] = "off"] \/ video' = [video EXCEPT ![Last] = "key"]
<1>1. keys \in 0 .. MaxKeys /\ video \in [Channels -> Starters]
  BY DEF Inv, TypeOK, Starters
<1>2. /\ main \in {"watch", "startVideo"} /\ main' \in {"watch", "startVideo"}
      /\ UNCHANGED <<next, choice, mThread, run, mute, g_session, thread, muteArg, chunks, muted>>
      /\ MainCalls(Last)
  BY DEF PressVideo, PressStart, StartLast, SetVideo, flagVars, threadVars
<1>3. keys' \in 0 .. MaxKeys
  BY <1>1 DEF PressVideo, PressStart, StartLast
<1>4. Marked
  <2>1. Last \in Int
    BY DEF Last
  <2>2. QED
    BY <1>2, <2>1, MainCallMarks
<1>5. ASSUME NEW key \in VideoKeys, PressVideo(key)
      PROVE  /\ UNCHANGED vparm
             /\ UNCHANGED video \/ (session[Last] = "live" /\ video' = [video EXCEPT ![Last] = "off"])
  <2>1. UNCHANGED vparm /\ video' = Set(video, Last, IF key = "p" THEN "off" ELSE video[Last])
    BY <1>5 DEF PressVideo, SetVideo
  <2>2. [video EXCEPT ![Last] = video[Last]] = video
    BY <1>1
  <2>3. QED
    BY <2>1, <2>2 DEF Set, Reaches
<1>6. CASE PressStart
  BY <1>2, <1>3, <1>4, <1>6 DEF PressStart, Set, Reaches
<1>7. CASE StartLast
  BY <1>2, <1>3, <1>4, <1>7 DEF StartLast, SetVideo, Set, Reaches
<1>8. QED
  BY <1>2, <1>3, <1>4, <1>5, <1>6, <1>7

LEMMA VideoKeyHolds ==
  ASSUME Inv, (\E key \in VideoKeys : PressVideo(key)) \/ PressStart \/ StartLast
  PROVE  Inv'
<1>1. vparm \in [Channels -> Users] /\ video \in [Channels -> Starters] /\ Last \in Channels
  BY DEF Inv, TypeOK, Last, Channels, Users, Starters
<1>2. /\ vparm' \in [Channels -> Users] /\ video' \in [Channels -> Starters]
      /\ \A c \in Channels :
           /\ vparm'[c] = vparm[c] \/ (c = Last /\ vparm'[c] = "key")
           /\ video'[c] = video[c] \/ (c = Last /\ video'[c] \in {"off", "key"})
           /\ session[c] = "none" => vparm'[c] = vparm[c] /\ video'[c] = video[c]
  <2>1. \/ vparm' = vparm \/ (session[Last] = "live" /\ vparm' = [vparm EXCEPT ![Last] = "key"])
    BY VideoKey
  <2>2. \/ video' = video
        \/ session[Last] = "live" /\ video' = [video EXCEPT ![Last] = "off"]
        \/ session[Last] = "live" /\ video' = [video EXCEPT ![Last] = "key"]
    BY VideoKey
  <2>3. QED
    BY <1>1, <2>1, <2>2 DEF Users, Starters
<1>3. ASSUME NEW c \in Channels PROVE ChannelInv(c)'
  <2>1. /\ ChannelInv(c) /\ ~ Joining /\ ~ Joining' /\ main # "spawn" /\ main' # "spawn"
        /\ UNCHANGED <<mThread, thread, g_session>>
    BY VideoKey DEF Inv, MultiInv, Joining
  <2>2. /\ session'[c] = "live" <=> session[c] = "live"
        /\ session'[c] = "none" <=> session[c] = "none"
    BY VideoKey DEF Marked
  <2>3. QED
    BY <1>2, <2>1, <2>2 DEF ChannelInv
<1>4. TypeOK'
  BY <1>2, VideoKey DEF Inv, TypeOK, Marked, Lives, Users, Starters, MainPC
<1>5. Unmuted' = Unmuted /\ AtMostOneUnmuted' /\ main' \notin {"muteOld", "unmute", "exited"}
  BY VideoKey DEF Inv, MultiInv, AtMostOneUnmuted, Unmuted
<1>6. QED
  BY <1>3, <1>4, <1>5 DEF Inv, MultiInv

\* A thread is created for a channel that had none.
LEMMA CreateHolds == ASSUME Inv, PthreadCreate PROVE Inv'
<1>1. /\ main = "spawn" /\ main' = "spawn" /\ next < changNum /\ next' = next + 1
      /\ UNCHANGED <<choice, keys, run, mute, g_session, muteArg, chunks>>
      /\ UNCHANGED <<session, muted, vparm, video>>
  BY DEF PthreadCreate, flagVars, playerVars
<1>2. next \in Channels /\ next' \in 0 .. changNum
  BY <1>1 DEF Inv, TypeOK, Channels
<1>3. thread[next] = "unborn" /\ session[next] = "none" /\ video[next] = "off"
  BY <1>1, <1>2 DEF Inv, TypeOK, MultiInv, ChannelInv
<1>4. /\ thread' \in [Channels -> ThreadPC] /\ mThread' \in [Channels -> BOOLEAN]
      /\ \A c \in Channels : c # next => thread'[c] = thread[c] /\ mThread'[c] = mThread[c]
      /\ (thread'[next] = "start" /\ mThread'[next]) \/ thread'[next] = "unborn"
  <2>1. thread \in [Channels -> ThreadPC] /\ mThread \in [Channels -> BOOLEAN]
    BY DEF Inv, TypeOK
  <2>2. \/ thread' = [thread EXCEPT ![next] = "start"] /\ mThread' = [mThread EXCEPT ![next] = TRUE]
        \/ thread' = thread /\ mThread' = mThread
    BY DEF PthreadCreate
  <2>3. QED
    BY <1>2, <1>3, <2>1, <2>2 DEF ThreadPC
<1>5. \A c \in Channels : ChannelInv(c)'
  <2> SUFFICES ASSUME NEW c \in Channels PROVE ChannelInv(c)'
    OBVIOUS
  <2>1. ChannelInv(c) /\ c \in Nat /\ next \in Nat
    BY <1>2 DEF Inv, MultiInv, Channels
  <2>2. CASE c = next
    BY <1>1, <1>3, <1>4, <2>1, <2>2 DEF ChannelInv, Joining, Open
  <2>3. CASE c # next
    BY <1>1, <1>4, <2>1, <2>3 DEF ChannelInv, Joining
  <2>4. QED
    BY <2>2, <2>3
<1>6. Unmuted' = Unmuted /\ AtMostOneUnmuted'
  BY <1>1 DEF Inv, MultiInv, AtMostOneUnmuted, Unmuted
<1>7. QED
  BY <1>1, <1>2, <1>4, <1>5, <1>6 DEF Inv, TypeOK, MultiInv

\* A thread is joined when it has ended, or was never created.
LEMMA JoinHolds == ASSUME Inv, PthreadJoin PROVE Inv'
<1>1. /\ main = "joining" /\ main' = "join" /\ next' = next + 1
      /\ mThread[next] => thread[next] = "ended"
      /\ mThread' = [mThread EXCEPT ![next] = FALSE]
      /\ UNCHANGED <<choice, keys, run, mute, g_session, thread, muteArg, chunks>>
      /\ UNCHANGED <<session, muted, vparm, video>>
  BY DEF PthreadJoin, flagVars, threadVars, playerVars
<1>2. next \in Channels /\ next' \in 0 .. changNum
  BY <1>1 DEF Inv, TypeOK, Channels
<1>3. /\ mThread' \in [Channels -> BOOLEAN]
      /\ \A c \in Channels : c # next => mThread'[c] = mThread[c]
  BY <1>1, <1>2 DEF Inv, TypeOK
<1>4. \A c \in Channels : ChannelInv(c)'
  <2> SUFFICES ASSUME NEW c \in Channels PROVE ChannelInv(c)'
    OBVIOUS
  <2>1. ChannelInv(c) /\ c \in Int /\ next \in Int
    BY <1>2 DEF Inv, MultiInv, Channels
  <2>2. CASE c = next
    BY <1>1, <2>1, <2>2 DEF ChannelInv, Joining
  <2>3. CASE c # next
    BY <1>1, <1>3, <2>1, <2>3 DEF ChannelInv, Joining
  <2>4. QED
    BY <2>2, <2>3
<1>5. Unmuted' = Unmuted /\ AtMostOneUnmuted'
  BY <1>1 DEF Inv, MultiInv, AtMostOneUnmuted, Unmuted
<1>6. QED
  BY <1>1, <1>2, <1>3, <1>4, <1>5 DEF Inv, TypeOK, MultiInv, MainPC

(***************************************************************************)
(* The steps of the threads.                                               *)
(***************************************************************************)

\* Where a step of thread c goes, and what it does to the session.
Stepped(c, to) == thread' = [thread EXCEPT ![c] = to]

\* Between its creation and its release a call of its thread leaves a session as it is.
LEMMA CallsNothing ==
  ASSUME Inv, NEW c \in Channels, thread[c] \in Open, Calls(c) PROVE session' = session
<1>1. session \in [Channels -> Lives] /\ session[c] = "live"
  BY DEF Inv, TypeOK, MultiInv, ChannelInv, Lives
<1>2. QED
  BY <1>1 DEF Calls

\* What a step of thread c does.
LEMMA ThreadCases ==
  ASSUME Inv, NEW c \in Channels, ThreadStep(c)
  PROVE  /\ UNCHANGED <<main, next, choice, keys, mThread, mute>>
         /\ \/ /\ UNCHANGED <<session, vparm, video>>
               /\ \/ thread[c] = "start" /\ Stepped(c, "open")
                  \/ thread[c] = "open" /\ Stepped(c, "create")
                  \/ thread[c] = "open" /\ Stepped(c, "ended")
                  \/ thread[c] = "publish" /\ Stepped(c, "setParams") /\ session[c] = "live"
                  \/ thread[c] = "readMute" /\ Stepped(c, "setMute")
                  \/ thread[c] = "setMute" /\ Stepped(c, "write")
                  \/ thread[c] = "write" /\ UNCHANGED thread
                  \/ thread[c] = "write" /\ Stepped(c, "finish")
                  \/ thread[c] = "finish" /\ Stepped(c, "stop")
            \/ /\ UNCHANGED <<vparm, video>> /\ session' = [session EXCEPT ![c] = "live"]
               /\ thread[c] = "create" /\ Stepped(c, "publish")
            \/ /\ UNCHANGED <<session, video>> /\ vparm' = [vparm EXCEPT ![c] = "thread"]
               /\ thread[c] = "setParams" /\ Stepped(c, "startVideo")
            \/ /\ UNCHANGED <<session, vparm>> /\ video' = [video EXCEPT ![c] = "thread"]
               /\ thread[c] = "startVideo" /\ Stepped(c, "readMute")
            \/ /\ UNCHANGED <<session, vparm>> /\ video' = [video EXCEPT ![c] = "off"]
               /\ thread[c] = "stop" /\ Stepped(c, "release")
            \/ /\ UNCHANGED <<vparm, video>> /\ session' = [session EXCEPT ![c] = "released"]
               /\ thread[c] = "release" /\ Stepped(c, "ended")
<1>1. UNCHANGED <<main, next, choice, keys, mThread, mute>>
  BY DEF ThreadStep, Start, OpenFile, OpenFails, CreateSession, PublishSession, SetVideoParams, StartVideo,
         ReadMute, SetMute, WriteChunk, EndOfPlay, Finish, StopDecoding, Release, mainVars, flagVars
<1>2. thread[c] \in Open => session[c] = "live"
  BY DEF Inv, MultiInv, ChannelInv
<1>3. CASE Start(c) \/ OpenFile(c) \/ OpenFails(c) \/ PublishSession(c) \/ ReadMute(c)
           \/ EndOfPlay(c) \/ Finish(c)
  BY <1>1, <1>2, <1>3 DEF Start, OpenFile, OpenFails, PublishSession, ReadMute,
                          EndOfPlay, Finish, GoTo, Stepped, playerVars, Open
<1>4. CASE CreateSession(c)
  BY <1>1, <1>4 DEF CreateSession, GoTo, Stepped
<1>5. CASE SetVideoParams(c) \/ StartVideo(c) \/ SetMute(c) \/ WriteChunk(c) \/ StopDecoding(c)
  <2>1. thread[c] \in Open /\ Calls(c)
    BY <1>5 DEF SetVideoParams, StartVideo, SetMute, WriteChunk, StopDecoding, GoTo, Open
  <2>2. session' = session
    BY <2>1, CallsNothing
  <2>3. QED
    BY <1>1, <1>5, <2>2 DEF SetVideoParams, StartVideo, SetMute, WriteChunk, StopDecoding, VideoOff,
                            GoTo, Stepped
<1>6. CASE Release(c)
  <2>1. session[c] = "live"
    BY <1>2, <1>6 DEF Release, GoTo, Open
  <2>2. QED
    BY <1>1, <1>6, <2>1 DEF Release, GoTo, Stepped
<1>7. QED
  BY <1>3, <1>4, <1>5, <1>6, Zenon DEF ThreadStep

\* The variables of the thread keep their types.
LEMMA ThreadTypes ==
  ASSUME Inv, NEW c \in Channels, ThreadStep(c)
  PROVE  TypeOK'
<1> USE DEF Inv, TypeOK
<1>1. run' \in [Channels -> BOOLEAN]
  <2>1. run' = run \/ run' = [run EXCEPT ![c] = TRUE] \/ run' = [run EXCEPT ![c] = FALSE]
    BY DEF ThreadStep, Start, OpenFile, OpenFails, CreateSession, PublishSession, SetVideoParams,
           StartVideo, ReadMute, SetMute, WriteChunk, EndOfPlay, Finish, StopDecoding, Release, flagVars, NoLongerRunning
  <2>2. QED
    BY <2>1
<1>2. g_session' \in [Channels -> BOOLEAN]
  <2>1. g_session' = g_session \/ g_session' = [g_session EXCEPT ![c] = TRUE]
    BY DEF ThreadStep, Start, OpenFile, OpenFails, CreateSession, PublishSession, SetVideoParams,
           StartVideo, ReadMute, SetMute, WriteChunk, EndOfPlay, Finish, StopDecoding, Release, flagVars
  <2>2. QED
    BY <2>1
<1>3. muteArg' \in [Channels -> BOOLEAN]
  <2>1. muteArg' = muteArg \/ muteArg' = [muteArg EXCEPT ![c] = mute[c]]
    BY DEF ThreadStep, Start, OpenFile, OpenFails, CreateSession, PublishSession, SetVideoParams,
           StartVideo, ReadMute, SetMute, WriteChunk, EndOfPlay, Finish, StopDecoding, Release
  <2>2. QED
    BY <2>1
<1>4. muted' \in [Channels -> BOOLEAN]
  <2>1. muted' = muted \/ muted' = [muted EXCEPT ![c] = muteArg[c]]
    BY DEF ThreadStep, Start, OpenFile, OpenFails, CreateSession, PublishSession, SetVideoParams,
           StartVideo, ReadMute, SetMute, WriteChunk, EndOfPlay, Finish, StopDecoding, Release, playerVars
  <2>2. QED
    BY <2>1
<1>5. chunks' \in [Channels -> 0 .. MaxChunks]
  <2>1. chunks' = chunks \/ (chunks[c] < MaxChunks /\ chunks' = [chunks EXCEPT ![c] = @ + 1])
    BY DEF ThreadStep, Start, OpenFile, OpenFails, CreateSession, PublishSession, SetVideoParams,
           StartVideo, ReadMute, SetMute, WriteChunk, EndOfPlay, Finish, StopDecoding, Release
  <2>2. QED
    BY <2>1
<1>6. thread' \in [Channels -> ThreadPC]
  <2>1. \A pc \in ThreadPC : [thread EXCEPT ![c] = pc] \in [Channels -> ThreadPC]
    OBVIOUS
  <2>2. QED
    BY <2>1, ThreadCases DEF Stepped, ThreadPC
<1>7. session' \in [Channels -> Lives]
  BY ThreadCases DEF Lives
<1>8. vparm' \in [Channels -> Users] /\ video' \in [Channels -> Starters]
  <2>1. vparm' = vparm \/ vparm' = [vparm EXCEPT ![c] = "thread"]
    BY ThreadCases
  <2>2. video' = video \/ video' = [video EXCEPT ![c] = "thread"] \/ video' = [video EXCEPT ![c] = "off"]
    BY ThreadCases
  <2>3. QED
    BY <2>1, <2>2 DEF Users, Starters
<1>9. UNCHANGED <<main, next, choice, keys, mThread, mute>>
  BY ThreadCases
<1>10. QED
  BY <1>1, <1>2, <1>3, <1>4, <1>5, <1>6, <1>7, <1>8, <1>9 DEF Lives, Users, Starters

\* A step of a thread keeps what holds of its channel, and of the others.
LEMMA ThreadHolds == ASSUME Inv, NEW c \in Channels, ThreadStep(c) PROVE Inv'
<1>1. /\ thread \in [Channels -> ThreadPC] /\ session \in [Channels -> Lives]
      /\ vparm \in [Channels -> Users] /\ video \in [Channels -> Starters]
  BY DEF Inv, TypeOK, Lives, Users, Starters
<1>2. UNCHANGED <<main, next, mThread, mute>>
  BY ThreadCases
<1>3. \A d \in Channels : ChannelInv(d)
  BY DEF Inv, MultiInv
<1>4. \A d \in Channels : g_session'[d] = g_session[d] \/ (d = c /\ thread[c] = "publish")
  <2>1. \/ g_session' = g_session
        \/ thread[c] = "publish" /\ g_session' = [g_session EXCEPT ![c] = TRUE]
    BY DEF ThreadStep, Start, OpenFile, OpenFails, CreateSession, PublishSession, SetVideoParams,
           StartVideo, ReadMute, SetMute, WriteChunk, EndOfPlay, Finish, StopDecoding, Release, GoTo, flagVars
  <2>2. QED
    BY <2>1 DEF Inv, TypeOK
<1>5. \A d \in Channels : ChannelInv(d)'
  <2> SUFFICES ASSUME NEW d \in Channels PROVE ChannelInv(d)'
    OBVIOUS
  <2>1. CASE d # c
    <3>1. /\ thread'[d] = thread[d] /\ session'[d] = session[d] /\ g_session'[d] = g_session[d]
          /\ vparm'[d] = vparm[d] /\ video'[d] = video[d]
      BY <1>1, <1>4, <2>1, ThreadCases DEF Stepped
    <3>2. QED
      BY <1>2, <1>3, <3>1 DEF ChannelInv, Joining
  <2>2. CASE d = c
    <3>1. \/ /\ session'[c] = session[c] /\ vparm'[c] = vparm[c] /\ video'[c] = video[c]
             /\ <<thread[c], thread'[c]>> \in
                  {<<"start", "open">>, <<"open", "create">>, <<"open", "ended">>, <<"publish", "setParams">>,
                   <<"readMute", "setMute">>, <<"setMute", "write">>, <<"write", "write">>,
                   <<"write", "finish">>, <<"finish", "stop">>}
          \/ /\ session'[c] = "live" /\ vparm'[c] = vparm[c] /\ video'[c] = video[c]
             /\ thread[c] = "create" /\ thread'[c] = "publish"
          \/ /\ session'[c] = session[c] /\ vparm'[c] = "thread" /\ video'[c] = video[c]
             /\ thread[c] = "setParams" /\ thread'[c] = "startVideo"
          \/ /\ session'[c] = session[c] /\ vparm'[c] = vparm[c] /\ video'[c] = "thread"
             /\ thread[c] = "startVideo" /\ thread'[c] = "readMute"
          \/ /\ session'[c] = session[c] /\ vparm'[c] = vparm[c] /\ video'[c] = "off"
             /\ thread[c] = "stop" /\ thread'[c] = "release"
          \/ /\ session'[c] = "released" /\ vparm'[c] = vparm[c] /\ video'[c] = video[c]
             /\ thread[c] = "release" /\ thread'[c] = "ended"
      BY <1>1, ThreadCases DEF Stepped
    <3>2. g_session'[c] => session'[c] # "none"
      BY <1>3, <1>4, <2>2, <3>1 DEF ChannelInv, Open
    <3>3. QED
      BY <1>2, <1>3, <2>2, <3>1, <3>2 DEF ChannelInv, Joining, Open
  <2>3. QED
    BY <2>1, <2>2
<1>6. Unmuted' = Unmuted /\ AtMostOneUnmuted'
  BY <1>2 DEF Inv, MultiInv, AtMostOneUnmuted, Unmuted
<1>7. QED
  BY <1>2, <1>5, <1>6, ThreadTypes DEF Inv, MultiInv

\* A step that changes nothing.
LEMMA StutterHolds == ASSUME Inv, UNCHANGED vars PROVE Inv'
<1>1. /\ UNCHANGED <<main, next, choice, keys, mThread, run, mute, g_session>>
      /\ UNCHANGED <<thread, muteArg, chunks, session, muted, vparm, video>>
  BY DEF vars, mainVars, flagVars, threadVars, playerVars
<1>2. TypeOK'
  BY <1>1 DEF Inv, TypeOK
<1>3. \A c \in Channels : ChannelInv(c)'
  BY <1>1 DEF Inv, MultiInv, ChannelInv, Joining
<1>4. Unmuted' = Unmuted /\ AtMostOneUnmuted'
  BY <1>1 DEF Inv, MultiInv, AtMostOneUnmuted, Unmuted
<1>5. QED
  BY <1>1, <1>2, <1>3, <1>4 DEF Inv, MultiInv

\* The inductive invariant holds in every state.
THEOREM MultiInvariant == Spec => []Inv
<1>1. Inv /\ [Next]_vars => Inv'
  <2> SUFFICES ASSUME Inv, [Next]_vars PROVE Inv'
    OBVIOUS
  <2>1. ASSUME MainStep PROVE Inv'
    BY <2>1, CreateHolds, MainHolds, ClearMuteHolds, JoinHolds, VideoKeyHolds DEF MainStep
  <2>2. ASSUME KeyPressed PROVE Inv'
    BY <2>2, PressNumberHolds, VideoKeyHolds, MainHolds DEF KeyPressed
  <2>3. ASSUME NEW c \in Channels, ThreadStep(c) PROVE Inv'
    BY <2>3, ThreadHolds
  <2>4. ASSUME UNCHANGED vars PROVE Inv'
    BY <2>4, StutterHolds
  <2>5. QED
    BY <2>1, <2>2, <2>3, <2>4 DEF Next, Terminated
<1>2. QED
  BY <1>1, InitHolds, PTL DEF Spec

(***************************************************************************)
(* The theorems.                                                           *)
(***************************************************************************)

\* Every variable has its type; main() joins only channels there are.
THEOREM TypeCorrect == Spec => []TypeOK
<1>1. Inv => TypeOK
  BY DEF Inv
<1>2. QED
  BY <1>1, MultiInvariant, PTL

\* changAudio() never leaves two channels unmuted, however many there are.
THEOREM OneSound == Spec => []AtMostOneUnmuted
<1>1. Inv => AtMostOneUnmuted
  BY DEF Inv, MultiInv
<1>2. QED
  BY <1>1, MultiInvariant, PTL

\* When main() returns, no thread is left and every session is released.
THEOREM NothingLeftAtExit == Spec => []SessionsReleasedAtExit
<1>1. Inv => SessionsReleasedAtExit
  <2> SUFFICES ASSUME Inv, main = "exited", NEW c \in Channels
               PROVE  thread[c] \in {"unborn", "ended"} /\ session[c] # "live"
    BY DEF SessionsReleasedAtExit
  <2>1. ChannelInv(c) /\ next = changNum /\ c < next
    BY DEF Inv, MultiInv, Channels
  <2>2. QED
    BY <2>1 DEF ChannelInv, Joining
<1>2. QED
  BY <1>1, MultiInvariant, PTL

\* A call of main() is late for a session that was released, and leaves the video
\* of a session that is not the last one.
LEMMA MainIsLate ==
  ASSUME Inv, NEW c \in Channels, Marked, UNCHANGED <<threadVars, vparm, video>>
  PROVE  [SessionStep(c)]_<<session[c], Decoding(c)>>
<1>1. Decoding(c)' = Decoding(c)
  BY DEF Decoding
<1>2. session'[c] = session[c] \/ (session[c] = "released" /\ session'[c] = "late")
  BY DEF Marked
<1>3. QED
  BY <1>1, <1>2 DEF SessionStep, Session!Late

\* The keys for the video reach the last session while it lives, and only r brings
\* it the parameters of another channel, or none.
LEMMA VideoKeySteps ==
  ASSUME Inv, NEW c \in Channels,
         (\E key \in VideoKeys : PressVideo(key)) \/ PressStart \/ StartLast
  PROVE  [SessionStep(c)]_<<session[c], Decoding(c)>>
<1>1. /\ vparm \in [Channels -> Users] /\ video \in [Channels -> Starters]
      /\ session \in [Channels -> Lives]
  BY DEF Inv, TypeOK, Users, Starters, Lives
<1>2. Marked /\ UNCHANGED threadVars
  BY VideoKey DEF threadVars
<1>3. CASE UNCHANGED <<vparm, video>>
  BY <1>2, <1>3, MainIsLate
<1>4. CASE c # Last /\ ~ UNCHANGED <<vparm, video>>
  <2>1. vparm'[c] = vparm[c] /\ video'[c] = video[c]
    BY <1>1, <1>4, VideoKey
  <2>2. Decoding(c)' = Decoding(c)
    BY <2>1 DEF Decoding
  <2>3. session'[c] = session[c] \/ (session[c] = "released" /\ session'[c] = "late")
    BY <1>2 DEF Marked
  <2>4. QED
    BY <1>2, <2>2, <2>3 DEF SessionStep, Session!Late
<1>5. CASE c = Last /\ ~ UNCHANGED <<vparm, video>>
  <2>1. session[c] = "live" /\ session'[c] = "live"
    BY <1>2, <1>5, VideoKey DEF Marked
  <2>2. \/ vparm'[c] = "key"
        \/ vparm'[c] = vparm[c]
    BY <1>1, <1>5, VideoKey
  <2>3. vparm'[c] \in Users
    BY <1>1, <2>2 DEF Users
  <2>4. CASE vparm'[c] = "thread"
    <3>1. Decoding(c)' \in {"off", "own"}
      BY <2>4 DEF Decoding, Parameters
    <3>2. QED
      BY <2>1, <3>1 DEF SessionStep, Session!Next, Session!Switch
  <2>5. CASE vparm'[c] # "thread"
    <3>1. Decoding(c)' \in {"off", "own", "other"}
      BY DEF Decoding
    <3>2. QED
      BY <1>5, <2>1, <2>5, <3>1 DEF SessionStep, Session!Next, Session!Switch, Session!Foreign
  <2>6. QED
    BY <2>4, <2>5
<1>6. QED
  BY <1>3, <1>4, <1>5

\* Its thread makes a session, sets its parameters, starts and stops its video, and
\* releases it.
LEMMA ThreadSteps ==
  ASSUME Inv, NEW c \in Channels, NEW d \in Channels, ThreadStep(d)
  PROVE  [SessionStep(c)]_<<session[c], Decoding(c)>>
<1>1. /\ thread \in [Channels -> ThreadPC] /\ session \in [Channels -> Lives]
      /\ vparm \in [Channels -> Users] /\ video \in [Channels -> Starters]
  BY DEF Inv, TypeOK, Lives, Users, Starters
<1>2. ChannelInv(c)
  BY DEF Inv, MultiInv
<1>3. CASE d # c
  <2>1. session'[c] = session[c] /\ vparm'[c] = vparm[c] /\ video'[c] = video[c]
    BY <1>1, <1>3, ThreadCases DEF Stepped
  <2>2. QED
    BY <2>1 DEF Decoding
<1>4. CASE d = c
  <2>1. \/ session'[c] = session[c] /\ vparm'[c] = vparm[c] /\ video'[c] = video[c]
        \/ /\ session'[c] = "live" /\ vparm'[c] = vparm[c] /\ video'[c] = video[c]
           /\ thread[c] = "create"
        \/ /\ session'[c] = session[c] /\ vparm'[c] = "thread" /\ video'[c] = video[c]
           /\ thread[c] = "setParams"
        \/ /\ session'[c] = session[c] /\ vparm'[c] = vparm[c] /\ video'[c] = "thread"
           /\ thread[c] = "startVideo"
        \/ session'[c] = session[c] /\ video'[c] = "off" /\ thread[c] = "stop"
        \/ /\ session'[c] = "released" /\ vparm'[c] = vparm[c] /\ video'[c] = video[c]
           /\ thread[c] = "release"
    BY <1>1, <1>4, ThreadCases DEF Stepped
  <2>2. CASE session'[c] = session[c] /\ vparm'[c] = vparm[c] /\ video'[c] = video[c]
    BY <2>2 DEF Decoding
  <2>3. CASE /\ session'[c] = "live" /\ vparm'[c] = vparm[c] /\ video'[c] = video[c]
             /\ thread[c] = "create"
    <3>1. Decoding(c)' = Decoding(c) /\ session[c] = "none"
      BY <1>2, <2>3 DEF Decoding, ChannelInv
    <3>2. QED
      BY <2>3, <3>1 DEF SessionStep, Session!Next, Session!Create
  <2>4. CASE session'[c] = session[c] /\ vparm'[c] = "thread" /\ thread[c] = "setParams"
    <3>1. session[c] = "live" /\ Decoding(c)' \in {"off", "own"}
      BY <1>2, <2>4 DEF Decoding, Parameters, ChannelInv, Open
    <3>2. QED
      BY <2>4, <3>1 DEF SessionStep, Session!Next, Session!Switch
  <2>5. CASE session'[c] = session[c] /\ vparm'[c] = vparm[c] /\ thread[c] = "startVideo"
    <3>1. /\ session[c] = "live" /\ vparm'[c] \in {"thread", "key"}
          /\ vparm'[c] = "key" => c = Last
      BY <1>1, <1>2, <2>5 DEF ChannelInv, Open, Users
    <3>2. vparm'[c] = "thread" => Decoding(c)' \in {"off", "own"}
      BY DEF Decoding, Parameters
    <3>3. Decoding(c)' \in {"off", "own", "other"}
      BY DEF Decoding
    <3>4. QED
      BY <2>5, <3>1, <3>2, <3>3 DEF SessionStep, Session!Next, Session!Switch, Session!Foreign
  <2>6. CASE session'[c] = session[c] /\ video'[c] = "off" /\ thread[c] = "stop"
    <3>1. session[c] = "live" /\ Decoding(c)' = "off"
      BY <1>2, <2>6 DEF Decoding, ChannelInv, Open
    <3>2. QED
      BY <2>6, <3>1 DEF SessionStep, Session!Next, Session!Switch
  <2>7. CASE /\ session'[c] = "released" /\ vparm'[c] = vparm[c] /\ video'[c] = video[c]
             /\ thread[c] = "release"
    <3>1. /\ session[c] = "live" /\ Decoding(c)' = Decoding(c)
          /\ Decoding(c) = "off" \/ (video[c] = "key" /\ c = Last)
      BY <1>1, <1>2, <2>7 DEF Decoding, ChannelInv, Open, Starters
    <3>2. QED
      BY <2>7, <3>1 DEF SessionStep, Session!Next, Session!Release, Session!Cut
  <2>8. QED
    BY <2>1, <2>2, <2>3, <2>4, <2>5, <2>6, <2>7
<1>5. QED
  BY <1>3, <1>4

\* Every session is made once, switched while it lives, and released once with its
\* video stopped, but for the late calls of main() and for what r does to the last
\* one: each channel implements SessionLife and what SessionStep names besides.
THEOREM EverySessionLives == Spec => SessionsLive
<1>1. Init => \A c \in Channels : Session(c)!Init
  BY DEF Init, Session!Init, Decoding
<1>2. Inv /\ [Next]_vars =>
        [\A c \in Channels : [SessionStep(c)]_<<session[c], Decoding(c)>>]_playerVars
  <2> SUFFICES ASSUME Inv, [Next]_vars, NEW c \in Channels
               PROVE  [SessionStep(c)]_<<session[c], Decoding(c)>>
    OBVIOUS
  <2>1. CASE (\E key \in VideoKeys : PressVideo(key)) \/ PressStart \/ StartLast
    BY <2>1, VideoKeySteps
  <2>2. CASE MuteOld \/ UnmuteNew
    <3>1. UNCHANGED <<threadVars, vparm, video>>
      BY <2>2 DEF MuteOld, UnmuteNew
    <3>2. Marked
      <4>1. choice.old \in Int /\ choice.new \in Int
        BY DEF Inv, TypeOK, Channels
      <4>2. MainCalls(choice.old) \/ MainCalls(choice.new)
        BY <2>2 DEF MuteOld, UnmuteNew, SetAudioMute
      <4>3. QED
        BY <4>1, <4>2, MainCallMarks
    <3>3. QED
      BY <3>1, <3>2, MainIsLate
  <2>3. ASSUME NEW d \in Channels, ThreadStep(d)
        PROVE  [SessionStep(c)]_<<session[c], Decoding(c)>>
    BY <2>3, ThreadSteps
  <2>4. CASE \/ PthreadCreate \/ AllSpawned \/ ClearMute \/ AllChannelsExit \/ JoinNext
             \/ PthreadJoin \/ Exit \/ PressQuit \/ UNCHANGED vars
             \/ \E n \in 0 .. MaxNumber : PressNumber(n)
    <3>1. UNCHANGED <<session, vparm, video>>
      BY <2>4 DEF PthreadCreate, AllSpawned, ClearMute, AllChannelsExit, JoinNext, PthreadJoin, Exit,
                  PressNumber, PressQuit, vars, playerVars
    <3>2. Decoding(c)' = Decoding(c)
      BY <3>1 DEF Decoding
    <3>3. QED
      BY <3>1, <3>2
  <2>5. QED
    BY <2>1, <2>2, <2>3, <2>4 DEF Next, MainStep, KeyPressed, Terminated
<1>3. QED
  BY <1>1, <1>2, MultiInvariant, PTL DEF Spec, SessionsLive

(***************************************************************************)
(* The keys and the threads.                                               *)
(***************************************************************************)

\* What SoundStays says of a step.
Stays(c) == thread[c] = "write" /\ thread'[c] = "write" /\ InTune(c) => InTune(c)'

\* A channel that is in neither half of changAudio(), with its flag, its session
\* and the value its thread has read as they were.
LEMMA SoundKept ==
  ASSUME SoundInv, UNCHANGED <<thread, g_session, muteArg, mute, muted>>,
         main \notin {"muteOld", "unmuteNew"}, main' \notin {"muteOld", "unmuteNew"}
  PROVE  SoundInv' /\ \A c \in Channels : Stays(c)
BY DEF SoundInv, SoundUnlessOvertaken, Changing, Stays, InTune

\* The halves of changAudio(): the flag and the session of one channel at a time.
LEMMA SoundChanged ==
  ASSUME Inv, SoundInv,
         \/ \E n \in 0 .. MaxNumber : PressNumber(n)
         \/ MuteOld \/ ClearMute \/ UnmuteNew
  PROVE  SoundInv' /\ \A c \in Channels : Stays(c)
<1>1. /\ UNCHANGED <<thread, muteArg, g_session>>
      /\ mute \in [Channels -> BOOLEAN] /\ muted \in [Channels -> BOOLEAN]
      /\ choice.old \in Channels
  BY DEF Inv, TypeOK, PressNumber, MuteOld, ClearMute, UnmuteNew, flagVars, threadVars, playerVars
<1>2. \A c \in Channels : thread[c] = "write" => g_session[c] /\ session[c] = "live"
  BY DEF Inv, MultiInv, ChannelInv, SoundInv, Open
<1>3. \A c \in Channels :
        thread'[c] \in {"setParams", "startVideo", "readMute", "setMute", "write"} => g_session'[c]
  BY <1>1 DEF SoundInv
<1>4. ASSUME NEW n \in 0 .. MaxNumber, PressNumber(n) PROVE SoundInv' /\ \A c \in Channels : Stays(c)
  <2>1. main = "watch" /\ UNCHANGED muted
    BY <1>4 DEF PressNumber, playerVars
  <2>2. CASE UNCHANGED mute /\ main' \in {"watch", "unmute"}
    BY <1>1, <2>1, <2>2, SoundKept
  <2>3. CASE /\ Unmuted # {} /\ choice' = [old |-> FirstUnmuted, new |-> n]
             /\ mute' = FlagSet(FirstUnmuted) /\ main' = "muteOld"
    <3>1. FirstUnmuted \in Channels
      BY <2>3, FirstIsTheOne DEF Inv, MultiInv
    <3>2. \A c \in Channels : c # FirstUnmuted => mute'[c] = mute[c]
      BY <1>1, <2>3, <3>1 DEF FlagSet
    <3>3. SoundUnlessOvertaken'
      BY <1>1, <2>1, <2>3, <3>2 DEF SoundInv, SoundUnlessOvertaken, Changing
    <3>4. \A c \in Channels : Stays(c)
      BY <1>1, <2>1, <2>3, <3>2 DEF Stays, InTune, Changing
    <3>5. QED
      BY <1>3, <2>3, <3>3, <3>4 DEF SoundInv
  <2>4. QED
    BY <1>4, <2>1, <2>2, <2>3 DEF PressNumber
<1>5. CASE MuteOld
  <2>1. /\ main = "muteOld" /\ main' = "unmute" /\ UNCHANGED <<mute, choice>>
        /\ muted' = IF Reaches(choice.old) THEN [muted EXCEPT ![choice.old] = TRUE] ELSE muted
    BY <1>5 DEF MuteOld, flagVars, SetAudioMute, Set
  <2>2. \A c \in Channels : mute[c]
    BY <2>1 DEF Inv, MultiInv, Unmuted
  <2>3. SoundUnlessOvertaken'
    BY <1>1, <1>2, <2>1, <2>2 DEF SoundInv, SoundUnlessOvertaken, Changing, Reaches
  <2>4. \A c \in Channels : Stays(c)
    BY <1>1, <1>2, <2>1, <2>2 DEF Stays, InTune, Changing, Reaches
  <2>5. QED
    BY <1>3, <2>1, <2>3, <2>4 DEF SoundInv
<1>6. CASE ClearMute
  <2>1. /\ main = "unmute" /\ main' = "unmuteNew" /\ UNCHANGED <<muted, choice>>
        /\ mute' = [c \in Channels |-> c # choice.new /\ mute[c]]
    BY <1>6 DEF ClearMute, playerVars
  <2>2. \A c \in Channels : c # choice.new => mute'[c] = mute[c]
    BY <1>1, <2>1
  <2>3. SoundUnlessOvertaken'
    BY <1>1, <2>1, <2>2 DEF SoundInv, SoundUnlessOvertaken, Changing
  <2>4. \A c \in Channels : Stays(c)
    BY <1>1, <2>1, <2>2 DEF Stays, InTune, Changing
  <2>5. choice.new \in Channels => ~ mute'[choice.new]
    BY <2>1
  <2>6. QED
    BY <1>3, <2>1, <2>3, <2>4, <2>5 DEF SoundInv
<1>7. CASE UnmuteNew
  <2>1. /\ main = "unmuteNew" /\ main' = "watch" /\ UNCHANGED <<mute, choice>>
        /\ muted' = IF Reaches(choice.new) THEN [muted EXCEPT ![choice.new] = FALSE] ELSE muted
    BY <1>7 DEF UnmuteNew, flagVars, SetAudioMute, Set
  <2>2. choice.new \in Channels => ~ mute[choice.new]
    BY <2>1 DEF SoundInv
  <2>3. SoundUnlessOvertaken'
    BY <1>1, <1>2, <2>1, <2>2 DEF SoundInv, SoundUnlessOvertaken, Changing, Reaches
  <2>4. \A c \in Channels : Stays(c)
    BY <1>1, <1>2, <2>1, <2>2 DEF Stays, InTune, Changing, Reaches
  <2>5. QED
    BY <1>3, <2>1, <2>3, <2>4 DEF SoundInv
<1>8. QED
  BY <1>4, <1>5, <1>6, <1>7

\* A thread publishes its handle before it reads its flag, and mutes its session
\* with what it read.
LEMMA SoundOfThread ==
  ASSUME Inv, SoundInv, NEW c \in Channels, ThreadStep(c)
  PROVE  SoundInv' /\ \A d \in Channels : Stays(d)
<1>1. /\ UNCHANGED <<main, choice, mute>>
      /\ thread \in [Channels -> ThreadPC] /\ g_session \in [Channels -> BOOLEAN]
      /\ muteArg \in [Channels -> BOOLEAN] /\ muted \in [Channels -> BOOLEAN]
  BY ThreadCases DEF Inv, TypeOK
<1>2. /\ \A d \in Channels \ {c} : /\ thread'[d] = thread[d] /\ g_session'[d] = g_session[d]
                                   /\ muteArg'[d] = muteArg[d] /\ muted'[d] = muted[d]
      /\ \/ thread'[c] \notin {"setParams", "startVideo", "readMute", "setMute", "write"}
         \/ thread'[c] = "setParams" /\ g_session'[c]
         \/ /\ thread[c] \in {"setParams", "startVideo", "readMute"} /\ g_session'[c] = g_session[c]
            /\ thread'[c] \in {"startVideo", "readMute", "setMute"}
         \/ /\ thread[c] = "setMute" /\ thread'[c] = "write" /\ g_session'[c] = g_session[c]
            /\ muteArg'[c] = muteArg[c] /\ muted'[c] = muteArg[c]
         \/ /\ thread[c] = "write" /\ thread'[c] = "write" /\ g_session'[c] = g_session[c]
            /\ muteArg'[c] = muteArg[c] /\ muted'[c] = muted[c]
  <2>1. CASE Start(c) \/ OpenFile(c) \/ OpenFails(c) \/ CreateSession(c) \/ EndOfPlay(c)
             \/ Finish(c) \/ StopDecoding(c) \/ Release(c)
    <3>1. UNCHANGED <<g_session, muteArg, muted>>
      BY <2>1 DEF Start, OpenFile, OpenFails, CreateSession, EndOfPlay, Finish, StopDecoding, Release,
                  flagVars, playerVars
    <3>2. \E to \in {"open", "create", "ended", "publish", "finish", "stop", "release"} : Stepped(c, to)
      BY <2>1 DEF Start, OpenFile, OpenFails, CreateSession, EndOfPlay, Finish, StopDecoding, Release,
                  GoTo, Stepped
    <3>3. QED
      BY <1>1, <3>1, <3>2 DEF Stepped
  <2>2. CASE PublishSession(c)
    BY <1>1, <2>2 DEF PublishSession, GoTo, playerVars
  <2>3. CASE SetVideoParams(c) \/ StartVideo(c) \/ ReadMute(c)
    BY <1>1, <2>3 DEF SetVideoParams, StartVideo, ReadMute, GoTo, flagVars, playerVars
  <2>4. CASE SetMute(c)
    BY <1>1, <2>4 DEF SetMute, GoTo, flagVars
  <2>5. CASE WriteChunk(c)
    BY <1>1, <2>5 DEF WriteChunk, flagVars, playerVars
  <2>6. QED
    BY <2>1, <2>2, <2>3, <2>4, <2>5 DEF ThreadStep
<1>3. \A d \in Channels :
        thread'[d] \in {"setParams", "startVideo", "readMute", "setMute", "write"} => g_session'[d]
  BY <1>2 DEF SoundInv
<1>4. SoundUnlessOvertaken'
  BY <1>1, <1>2 DEF SoundInv, SoundUnlessOvertaken, Changing
<1>5. \A d \in Channels : Stays(d)
  BY <1>1, <1>2 DEF Stays, InTune, Changing
<1>6. QED
  BY <1>1, <1>3, <1>4, <1>5 DEF SoundInv

\* When its thread begins to write, and whenever the flag has the value that thread
\* has passed on, a channel is muted as its flag says; and from the moment it is, it
\* stays so, whatever keys are pressed: only a key between the thread's reading of
\* the flag and its call leaves a channel out of tune, until the next key for it.
THEOREM SoundFollowsFlag == Spec => []SoundUnlessOvertaken /\ SoundStays
<1>1. Init => SoundInv
  BY DEF Init, SoundInv, SoundUnlessOvertaken
<1>2. ASSUME Inv, SoundInv, [Next]_vars PROVE SoundInv' /\ \A c \in Channels : Stays(c)
  <2>1. CASE AllSpawned \/ (\E key \in VideoKeys : PressVideo(key)) \/ PressStart \/ StartLast
             \/ PressQuit \/ AllChannelsExit \/ JoinNext \/ PthreadJoin \/ Exit
    <3>1. /\ UNCHANGED <<thread, g_session, muteArg, mute, muted>>
          /\ main \notin {"muteOld", "unmuteNew"} /\ main' \notin {"muteOld", "unmuteNew"}
      BY <2>1 DEF AllSpawned, PressVideo, PressStart, StartLast, PressQuit, AllChannelsExit, JoinNext,
                  PthreadJoin, Exit, flagVars, threadVars, playerVars
    <3>2. QED
      BY <1>2, <3>1, SoundKept
  <2>2. CASE PthreadCreate
    <3>1. /\ main = "spawn" /\ UNCHANGED <<main, g_session, muteArg, mute, muted>>
          /\ thread' = thread \/ thread' = [thread EXCEPT ![next] = "start"]
      BY <2>2 DEF PthreadCreate, flagVars, playerVars
    <3>2. thread \in [Channels -> ThreadPC]
      BY <1>2 DEF Inv, TypeOK
    <3>3. QED
      BY <1>2, <3>1, <3>2 DEF SoundInv, SoundUnlessOvertaken, Changing, Stays, InTune
  <2>3. CASE (\E n \in 0 .. MaxNumber : PressNumber(n)) \/ MuteOld \/ ClearMute \/ UnmuteNew
    BY <1>2, <2>3, SoundChanged
  <2>4. ASSUME NEW c \in Channels, ThreadStep(c) PROVE SoundInv' /\ \A d \in Channels : Stays(d)
    BY <1>2, <2>4, SoundOfThread
  <2>5. CASE UNCHANGED vars
    <3>1. UNCHANGED <<main, choice, thread, g_session, muteArg, mute, muted>>
      BY <2>5 DEF vars, mainVars, flagVars, threadVars, playerVars
    <3>2. QED
      BY <1>2, <3>1 DEF SoundInv, SoundUnlessOvertaken, Changing, Stays, InTune
  <2>6. QED
    BY <1>2, <2>1, <2>2, <2>3, <2>4, <2>5 DEF Next, MainStep, KeyPressed, Terminated
<1>3. Inv /\ SoundInv /\ [Next]_vars => SoundInv'
  BY <1>2
<1>4. Inv /\ SoundInv /\ [Next]_vars =>
        [\A c \in Channels :
           thread[c] = "write" /\ thread'[c] = "write" /\ InTune(c) => InTune(c)']_vars
  BY <1>2 DEF Stays
<1>5. SoundInv => SoundUnlessOvertaken
  BY DEF SoundInv
<1>6. QED
  BY <1>1, <1>3, <1>4, <1>5, MultiInvariant, PTL DEF Spec, SoundStays

\* The quit key is lost on a channel only if its thread has not started yet.
THEOREM QuitStaysHeard == Spec => QuitIsKept
<1>1. Inv /\ [Next]_vars => [\A c \in Channels : ~ run[c] /\ run'[c] => thread[c] = "start"]_vars
  <2> SUFFICES ASSUME Inv, [Next]_vars, NEW c \in Channels, ~ run[c], run'[c]
               PROVE  thread[c] = "start"
    OBVIOUS
  <2>1. run \in [Channels -> BOOLEAN]
    BY DEF Inv, TypeOK
  <2>2. ASSUME MainStep \/ KeyPressed \/ UNCHANGED vars PROVE FALSE
    <3>1. \/ run' = run \/ run' = [d \in Channels |-> FALSE] \/ run' = [run EXCEPT ![next] = FALSE]
      BY <2>2 DEF MainStep, PthreadCreate, AllSpawned, MuteOld, ClearMute, UnmuteNew, AllChannelsExit,
                  JoinNext, PthreadJoin, Exit, KeyPressed, PressNumber, PressVideo, PressStart, StartLast, PressQuit,
                  vars, flagVars
    <3>2. QED
      BY <2>1, <3>1
  <2>3. ASSUME NEW d \in Channels, ThreadStep(d) PROVE thread[c] = "start"
    <3>1. \/ run' = run \/ run' = [run EXCEPT ![d] = FALSE]
          \/ thread[d] = "start" /\ run' = [run EXCEPT ![d] = TRUE]
      BY <2>3 DEF ThreadStep, Start, OpenFile, OpenFails, CreateSession, PublishSession, SetVideoParams,
                  StartVideo, ReadMute, SetMute, WriteChunk, EndOfPlay, Finish, StopDecoding, Release, GoTo,
                  flagVars, NoLongerRunning
    <3>2. QED
      BY <2>1, <3>1
  <2>4. QED
    BY <2>2, <2>3 DEF Next, Terminated
<1>2. QED
  BY <1>1, MultiInvariant, PTL DEF Spec, QuitIsKept
=============================================================================
