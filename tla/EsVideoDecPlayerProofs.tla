----------------------- MODULE EsVideoDecPlayerProofs -----------------------
(***************************************************************************)
(* What holds of a player for every number of frames, input buffers,       *)
(* pictures and formats, for both kernels, and under every failure.        *)
(***************************************************************************)
EXTENDS EsVideoDecPlayer, TLAPS, SequenceTheorems

USE MaxFramesAssumption, QueueCountAssumption, MaxPicsAssumption,
    MaxChangesAssumption, FlagsAssumption

(***************************************************************************)
(* Type correctness.                                                       *)
(***************************************************************************)

\* The head of the waiting frames is a frame, and so are those behind it.
LEMMA HeadIsFrame ==
  ASSUME TypeOK, mDisplayWork # <<>>
  PROVE  /\ Head(mDisplayWork) \in Frame
         /\ Tail(mDisplayWork) \in Seq(Frame)
  BY HeadTailProperties DEF TypeOK

\* A delivered frame joins the waiting frames.
LEMMA AppendFrame ==
  ASSUME NEW waiting \in Seq(Frame), NEW frame \in Frame
  PROVE  Append(waiting, frame) \in Seq(Frame) /\ Append(waiting, frame) # <<>>
  BY AppendProperties

\* The initial state, right after the constructor was entered, has its type.
LEMMA TypeInit == Init => TypeInv
<1> SUFFICES ASSUME Init PROVE TypeInv
  OBVIOUS
<1> USE DEF Init
<1>1. /\ mDisplayWork \in Seq(Frame)
      /\ dumped \in Seq(Ids)
      /\ mMmapAddr \in Seq([gen : 1 .. MaxChanges, pic : 0 .. MaxPics - 1])
  OBVIOUS
<1>2. /\ mInputBuffer \in [Ids -> {"absent", "buf", "null"}]
      /\ heap \in [Ids -> {"none", "live", "freed", "twice"}]
      /\ fate \in [Ids -> {"none", "queued", "rejected", "shown", "overtook", "dropped"}]
  OBVIOUS
<1>3. running \in BOOLEAN /\ mready \in BOOLEAN
  OBVIOUS
<1>4. /\ play \in PlayPC /\ out \in OutPC
      /\ mbitstreamId \in 0 .. MaxFrames
      /\ mOutputBufferNum \in 0 .. MaxPics
      /\ mBufferWidth \in 0 .. MaxChanges /\ mBufferHeight \in 0 .. MaxChanges
      /\ gen \in 0 .. MaxChanges /\ format \in FormatPC /\ made \in 0 .. mOutputBufferNum
  BY DEF PlayPC, OutPC, FormatPC
<1>5. TypeOK
  BY <1>1, <1>2, <1>3, <1>4 DEF TypeOK
<1>6. QED
  BY <1>5 DEF TypeInv, FrameInHand, NoEarlyPics, InputInHand

\* The steps of play() that only move it, and tell the decoder so.
ControlOnly ==
  /\ UNCHANGED <<out, playVars, outVars, fmtVars, fate, decHeld, picVars>>
  /\ running' \in {running, FALSE}
  /\ play' \in PlayPC \ {"store", "queue", "record"}
  /\ dec' \in {dec, "created", "ready", "failed", "flushing", "destroyed", "deleted"}

LEMMA ControlKeepsType == ASSUME TypeInv, ControlOnly PROVE TypeInv'
<1> USE DEF ControlOnly, playVars, outVars, fmtVars, picVars
<1>1. TypeOK'
  <2>1. running' \in BOOLEAN /\ play' \in PlayPC /\ out' \in OutPC
    BY DEF TypeInv, TypeOK
  <2>2. Pics' = Pics
    BY DEF Pics
  <2>3. QED
    BY <2>1, <2>2 DEF TypeInv, TypeOK
<1>2. FrameInHand' /\ NoEarlyPics' /\ InputInHand'
  BY DEF TypeInv, FrameInHand, NoEarlyPics, InputInHand
<1>3. QED
  BY <1>1, <1>2 DEF TypeInv

\* No step of the thread of play() breaks a type.
LEMMA PlayKeepsType == ASSUME TypeInv, PlayStep PROVE TypeInv'
<1>1. CASE CreateDecoder \/ InitDecoder \/ ReadBadFrame \/ EndOfFile
  <2>1. ControlOnly
    BY <1>1, Zenon DEF ControlOnly, CreateDecoder, InitDecoder, ReadBadFrame, EndOfFile, GoTo, PlayPC, decVars, picVars
  <2>2. QED
    BY <2>1, ControlKeepsType
<1>2. CASE Flush \/ CheckReady \/ Drain \/ StopOutput \/ Join \/ Destroy \/ DeleteDecoder
  <2>1. ControlOnly
    BY <1>2 DEF ControlOnly, Flush, CheckReady, Drain, StopOutput, Join, Destroy, DeleteDecoder,
       GoTo, PlayPC, decVars, picVars
  <2>2. QED
    BY <2>1, ControlKeepsType
<1> USE DEF TypeInv, TypeOK, FrameInHand, NoEarlyPics, InputInHand, PlayPC, OutPC,
            Pics, Ids, GoTo, playVars, outVars, fmtVars, decVars, picVars
<1>3. CASE OpenInput
  <2>1. play = "open" /\ UNCHANGED <<playVars, outVars, fmtVars, decVars>>
    BY <1>3 DEF OpenInput
  <2>2. /\ running' \in BOOLEAN
        /\ play' \in {"read", "delete"}
        /\ out' \in {"loop", out}
    BY <1>3 DEF OpenInput
  <2>3. QED
    BY <2>1, <2>2
<1>4. CASE ReadFrame
  BY <1>4 DEF ReadFrame
<1>5. CASE StoreBuffer
  BY <1>5 DEF StoreBuffer
<1>6. CASE QueueInput
  <2>1. mbitstreamId \in Ids
    BY <1>6 DEF QueueInput
  <2>2. fate' \in [Ids -> {"none", "queued", "rejected", "shown", "overtook", "dropped"}]
    BY <1>6, <2>1 DEF QueueInput
  <2>3. decHeld' \subseteq Ids
    BY <1>6, <2>1 DEF QueueInput
  <2>4. QED
    BY <1>6, <2>2, <2>3 DEF QueueInput
<1>7. CASE RecordInput
  BY <1>7 DEF RecordInput
<1>8. CASE FreeBuffers
  BY <1>8 DEF FreeBuffers, Freed
<1>9. QED
  BY <1>1, <1>2, <1>3, <1>4, <1>5, <1>6, <1>7, <1>8, PlayStep DEF PlayStep

\* No step of the output thread breaks a type.
LEMMA OutKeepsType == ASSUME TypeInv, OutStep PROVE TypeInv'
<1> USE DEF TypeInv, TypeOK, FrameInHand, NoEarlyPics, InputInHand, OutPC,
            Pics, Ids, playVars, outVars, fmtVars, decVars, picVars
<1>1. CASE OutLoop
  BY <1>1 DEF OutLoop
<1>2. CASE OutCheck
  BY <1>2 DEF OutCheck
<1>3. CASE OutTake
  BY <1>3 DEF OutTake, OpenOutput, Opening
<1>4. CASE OutDump \/ OutRow
  <2>1. used' \subseteq 0 .. MaxChanges
    BY <1>4 DEF OutDump, OutRow
  <2>2. out' = "rows" /\ mDisplayWork # <<>>
    BY <1>4 DEF OutDump, OutRow
  <2>3. UNCHANGED <<play, running, playVars, mDisplayWork, dumped, files, fmtVars, decVars>>
    BY <1>4 DEF OutDump, OutRow
  <2>4. QED
    BY <2>1, <2>2, <2>3
<1>8. CASE OutDumped
  <2>1. Head(mDisplayWork).id \in Ids
    BY <1>8, HeadIsFrame DEF OutDumped, Frame
  <2>2. dumped' \in Seq(Ids)
    BY <1>8, <2>1, AppendProperties DEF OutDumped
  <2>3. QED
    BY <1>8, <2>2 DEF OutDumped
<1>5. CASE OutReturn
  <2>1. decFree' \subseteq Pics'
    BY <1>5 DEF OutReturn
  <2>2. stale' \subseteq 0 .. MaxPics - 1
    BY <1>5, HeadIsFrame DEF OutReturn, Frame
  <2>3. QED
    BY <1>5, <2>1, <2>2 DEF OutReturn
<1>6. CASE OutPop
  <2>1. mDisplayWork' \in Seq(Frame)
    BY <1>6, HeadIsFrame DEF OutPop, Popped
  <2>2. QED
    BY <1>6, <2>1 DEF OutPop
<1>7. QED
  BY <1>1, <1>2, <1>3, <1>4, <1>5, <1>6, <1>8, OutStep DEF OutStep

\* No callback of the decoder breaks a type.
CallbackStep ==
  SpuriousWakeup \/ OutputDone \/ InputDone \/ FormatChanged \/ FrameDropped \/ FlushDone

LEMMA CallbackKeepsType == ASSUME TypeInv, CallbackStep PROVE TypeInv'
<1> USE DEF TypeInv, TypeOK, FrameInHand, NoEarlyPics, InputInHand, PlayPC,
            Pics, Ids, playVars, outVars, fmtVars, decVars, picVars
<1>1. CASE SpuriousWakeup
  BY <1>1 DEF SpuriousWakeup, GoTo
<1>2. CASE OutputDone
  <2>1. PICK i \in Ids, p \in Pics : OnOutputBufferDone(i, p)
    BY <1>2 DEF OutputDone
  <2> DEFINE frame == [id |-> i, pic |-> p, gen |-> gen]
  <2>2. frame \in Frame
    BY <2>1 DEF Frame
  <2>3. mDisplayWork' \in Seq(Frame) /\ mDisplayWork' # <<>>
    <3>1. mDisplayWork' = Append(mDisplayWork, frame)
      BY <2>1 DEF OnOutputBufferDone, Pushed
    <3>2. mDisplayWork \in Seq(Frame)
      OBVIOUS
    <3> HIDE DEF frame
    <3>3. QED
      BY <2>2, <3>1, <3>2, AppendFrame
  <2>4. fate' \in [Ids -> {"none", "queued", "rejected", "shown", "overtook", "dropped"}]
    BY <2>1 DEF OnOutputBufferDone
  <2>5. mInputWork' \subseteq Ids /\ decFree' \subseteq Pics'
    BY <2>1 DEF OnOutputBufferDone, WorkErased
  <2>6. QED
    BY <2>1, <2>3, <2>4, <2>5 DEF OnOutputBufferDone
<1>3. CASE InputDone
  BY <1>3 DEF InputDone, OnInputBufferDone, EraseThenFree
<1>4. CASE FormatChanged
  <2>1. CASE \E n \in 1 .. MaxPics : OnOutputFormatChanged(n)
    BY <2>1 DEF OnOutputFormatChanged, FormatPC
  <2>2. CASE SetWidth \/ SetHeight
    <3>1. /\ mBufferWidth' \in 0 .. MaxChanges /\ mBufferHeight' \in 0 .. MaxChanges
          /\ format' \in {"height", "pictures"} /\ format \in {"width", "height"}
      BY <2>2 DEF SetWidth, NewStride, SetHeight
    <3>2. UNCHANGED <<play, out, running, playVars, outVars, mOutputBufferNum, mMmapAddr,
                      gen, made, decVars>>
      BY <2>2 DEF SetWidth, SetHeight
    <3>3. QED
      BY <3>1, <3>2 DEF FormatPC
  <2>3. CASE CreatePicture
    <3>1. made < mOutputBufferNum /\ mOutputBufferNum \in 0 .. MaxPics /\ gen \in 1 .. MaxChanges
      BY <2>3 DEF CreatePicture
    <3>2. [gen |-> gen, pic |-> made] \in [gen : 1 .. MaxChanges, pic : 0 .. MaxPics - 1]
      BY <3>1
    <3>3. mMmapAddr' \in Seq([gen : 1 .. MaxChanges, pic : 0 .. MaxPics - 1])
      BY <2>3, <3>2, AppendProperties DEF CreatePicture
    <3>4. decFree' \subseteq Pics' /\ made' \in 0 .. mOutputBufferNum'
      BY <2>3, <3>1 DEF CreatePicture
    <3>5. format' \in FormatPC /\ (format' # "idle" => made' < mOutputBufferNum')
          /\ format' \notin {"width", "height"}
      BY <2>3, <3>1 DEF CreatePicture, MorePictures, FormatPC
    <3>6. UNCHANGED <<play, out, running, playVars, outVars, mOutputBufferNum, mBufferWidth,
                      mBufferHeight, gen, dec, fate, decHeld, stale>>
      BY <2>3 DEF CreatePicture
    <3>7. TypeOK'
      <4>1. decFree' \subseteq 0 .. made' - 1
        BY <3>4
      <4> HIDE DEF Pics
      <4>2. QED
        BY <3>3, <3>4, <3>5, <3>6, <4>1
    <3>8. gen' # 0
      BY <3>1, <3>6
    <3>9. NoEarlyPics' /\ FrameInHand' /\ InputInHand'
      <4> HIDE DEF TypeOK
      <4>1. QED
        BY <3>5, <3>6, <3>8
    <3>10. QED
      BY <3>7, <3>9
  <2>4. QED
    BY <1>4, <2>1, <2>2, <2>3 DEF FormatChanged
<1>5. CASE FrameDropped
  BY <1>5 DEF FrameDropped, DropFrame
<1>6. CASE FlushDone
  BY <1>6 DEF FlushDone, OnFlushDone, Notified
<1>7. QED
  BY <1>1, <1>2, <1>3, <1>4, <1>5, <1>6, CallbackStep DEF CallbackStep

\* Every step is one of a thread or of the decoder, or it changes nothing.
LEMMA StepCases ==
  ASSUME [Next]_vars
  PROVE  PlayStep \/ OutStep \/ CallbackStep \/ UNCHANGED vars
  BY DEF Next, Terminated, CallbackStep

\* A step that changes nothing keeps TypeInv.
LEMMA StutterKeepsType == ASSUME TypeInv, UNCHANGED vars PROVE TypeInv'
  BY DEF TypeInv, TypeOK, FrameInHand, NoEarlyPics, InputInHand, Pics,
         vars, playVars, outVars, fmtVars, decVars, picVars

\* Every variable keeps its type, and every access through front(), an id or
\* a picture number finds what it looks for.
THEOREM TypeCorrect == Spec => [](TypeOK /\ TypeInv)
<1>1. TypeInv /\ [Next]_vars => TypeInv'
  BY StepCases, PlayKeepsType, OutKeepsType, CallbackKeepsType, StutterKeepsType
<1>2. TypeInv => TypeOK
  BY DEF TypeInv
<1>3. QED
  BY TypeInit, <1>1, <1>2, PTL DEF Spec

(***************************************************************************)
(* The output thread and the decoder.                                      *)
(***************************************************************************)

\* The output thread exists only between play()'s start of it and its join.
LEMMA ThreadStep == ASSUME ThreadInv, [Next]_vars PROVE ThreadInv'
<1> USE DEF ThreadInv, playVars, outVars, fmtVars, decVars, picVars
<1>1. CASE PlayStep
  BY <1>1 DEF PlayStep, GoTo, Joined, CreateDecoder, InitDecoder, OpenInput, ReadFrame, ReadBadFrame,
     EndOfFile, StoreBuffer, QueueInput, RecordInput, Flush, CheckReady, Drain,
     StopOutput, Join, Destroy, DeleteDecoder, FreeBuffers
<1>2. CASE OutStep
  BY <1>2 DEF OutStep, OutLoop, OutCheck, OutTake, OutDump, OutRow, OutDumped, OutReturn, OutPop
<1>3. CASE CallbackStep
  BY <1>3 DEF CallbackStep, DecoderActive, SpuriousWakeup, GoTo, OutputDone, OnOutputBufferDone,
     InputDone, OnInputBufferDone, FormatChanged, OnOutputFormatChanged, SetWidth, SetHeight, CreatePicture,
     FrameDropped, DropFrame, FlushDone, OnFlushDone, Notified
<1>4. CASE UNCHANGED vars
  BY <1>4 DEF vars
<1>5. QED
  BY <1>1, <1>2, <1>3, <1>4, StepCases

\* destroy() and the deletion of the decoder come after the end of the
\* output thread, on every path through play().
THEOREM OutputThreadIsJoined == Spec => []OutputThreadJoined
<1>1. Init => ThreadInv
  BY DEF Init, ThreadInv
<1>2. ThreadInv /\ [Next]_vars => ThreadInv'
  BY ThreadStep
<1>3. ThreadInv => OutputThreadJoined
  BY DEF ThreadInv, OutputThreadJoined
<1>4. QED
  BY <1>1, <1>2, <1>3, PTL DEF Spec

(***************************************************************************)
(* The input buffers.                                                      *)
(***************************************************************************)

\* The steps that leave every input buffer where it was.
BuffersRest ==
  /\ UNCHANGED <<mbitstreamId, heap, mInputBuffer, fate, decHeld>>
  /\ \/ UNCHANGED <<play, dec>>
     \/ /\ {play, play'} \cap {"store", "queue", "record", "exited"} = {}
        /\ play' = "free" => dec' = "deleted"

\* Of the thread of play(), only the steps from the malloc() to the entry in
\* mInputWork, and the destructor, change the state of an input buffer.
LEMMA BufferStep == ASSUME TypeInv, BufferInv, [Next]_vars PROVE BufferInv'
<1> USE DEF GoTo, playVars, outVars, fmtVars, decVars, picVars
<1>1. CASE PlayStep /\ ~ (ReadFrame \/ StoreBuffer \/ QueueInput \/ RecordInput \/ FreeBuffers)
  <2>1. BuffersRest
    <3>1. CASE CreateDecoder \/ InitDecoder \/ OpenInput \/ ReadBadFrame \/ EndOfFile
      BY <3>1, Zenon DEF BuffersRest, CreateDecoder, InitDecoder, OpenInput, ReadBadFrame, EndOfFile
    <3>2. CASE Flush \/ CheckReady \/ Drain \/ StopOutput \/ Join
      BY <3>2 DEF BuffersRest, Flush, CheckReady, Drain, StopOutput, Join
    <3>3. CASE Destroy \/ DeleteDecoder
      BY <3>3 DEF BuffersRest, Destroy, DeleteDecoder
    <3>4. QED
      BY <1>1, <3>1, <3>2, <3>3 DEF PlayStep
  <2>2. QED
    BY <2>1 DEF BuffersRest, BufferInv, Begun, Stored, Answered, HeapSafe, LeakIsCompletedInputs
<1>2. CASE OutStep \/ SpuriousWakeup \/ FormatChanged \/ FlushDone \/ UNCHANGED vars
  <2>1. BuffersRest
    BY <1>2 DEF BuffersRest, OutStep, OutLoop, OutCheck, OutTake, OutDump, OutRow, OutDumped, OutReturn, OutPop,
       SpuriousWakeup, FormatChanged, OnOutputFormatChanged, SetWidth, SetHeight, CreatePicture, FlushDone, OnFlushDone, Notified, vars
  <2>2. QED
    BY <2>1 DEF BuffersRest, BufferInv, Begun, Stored, Answered, HeapSafe, LeakIsCompletedInputs
<1> USE DEF BufferInv, Begun, Stored, Answered, TypeInv, TypeOK, InputInHand, Ids,
            HeapSafe, LeakIsCompletedInputs, DecoderActive, decIn
<1>3. CASE ReadFrame
  BY <1>3 DEF ReadFrame
<1>4. CASE StoreBuffer
  BY <1>4 DEF StoreBuffer
<1>5. CASE QueueInput
  BY <1>5 DEF QueueInput
<1>6. CASE RecordInput
  <2>1. \A i \in Ids : /\ Begun(i)' = Begun(i)
                       /\ Stored(i)' = Stored(i)
                       /\ Answered(i)' = Answered(i)
    BY <1>6 DEF RecordInput
  <2>2. /\ UNCHANGED <<heap, mInputBuffer, fate, decHeld, dec>>
        /\ play = "record" /\ play' = "read"
    BY <1>6 DEF RecordInput
  <2>3. QED
    BY <2>1, <2>2
<1>7. CASE FreeBuffers
  BY <1>7 DEF FreeBuffers, Freed
<1>8. CASE InputDone
  BY <1>8 DEF InputDone, OnInputBufferDone, EraseThenFree
<1>9. CASE OutputDone
  BY <1>9 DEF OutputDone, OnOutputBufferDone
<1>10. CASE FrameDropped
  BY <1>10 DEF FrameDropped, DropFrame
<1>11. QED
  BY <1>1, <1>2, <1>3, <1>4, <1>5, <1>6, <1>7, <1>8, <1>9, <1>10,
     StepCases DEF CallbackStep

\* The entry onOutputBufferDone() erases comes back only if the frame came
\* before inputBuffer() had made it.
LEMMA WorkStep == ASSUME TypeInv, BufferInv, WorkInv, [Next]_vars PROVE WorkInv'
<1> USE DEF WorkInv, StaleWorkOnlyByOvertaking, TypeInv, TypeOK, Ids,
            GoTo, playVars, outVars, fmtVars, decVars, picVars
<1>1. CASE QueueInput
  BY <1>1 DEF QueueInput
<1>2. CASE RecordInput
  <2>1. UNCHANGED fate /\ mInputWork' = mInputWork \cup {mbitstreamId}
        /\ mbitstreamId' = mbitstreamId + 1
    BY <1>2 DEF RecordInput
  <2>2. mbitstreamId \in Ids
    BY <1>2 DEF RecordInput, InputInHand
  <2>3. QED
    BY <2>1, <2>2
<1>3. CASE PlayStep /\ ~ (QueueInput \/ RecordInput)
  BY <1>3 DEF PlayStep, CreateDecoder, InitDecoder, OpenInput, ReadFrame, ReadBadFrame,
     EndOfFile, StoreBuffer, Flush, CheckReady, Drain, StopOutput, Join, Destroy,
     DeleteDecoder, FreeBuffers
<1>4. CASE OutStep
  BY <1>4 DEF OutStep, OutLoop, OutCheck, OutTake, OutDump, OutRow, OutDumped, OutReturn, OutPop
<1>5. CASE OutputDone
  <2>1. PICK i \in Ids, p \in Pics : OnOutputBufferDone(i, p)
    BY <1>5 DEF OutputDone
  <2>2. i <= mbitstreamId
    BY <2>1 DEF OnOutputBufferDone, decIn, BufferInv, Answered
  <2>3. QED
    BY <2>1, <2>2 DEF OnOutputBufferDone, WorkErased
<1>6. CASE FrameDropped
  BY <1>6 DEF FrameDropped, DropFrame
<1>7. CASE SpuriousWakeup \/ InputDone \/ FormatChanged \/ FlushDone
  <2>1. UNCHANGED <<mInputWork, fate, mbitstreamId>>
    BY <1>7 DEF SpuriousWakeup, InputDone, OnInputBufferDone, FormatChanged,
       OnOutputFormatChanged, SetWidth, SetHeight, CreatePicture, FlushDone, OnFlushDone
  <2>2. QED
    BY <2>1
<1>8. CASE UNCHANGED vars
  BY <1>8 DEF vars
<1>9. QED
  BY <1>1, <1>2, <1>3, <1>4, <1>5, <1>6, <1>7, <1>8, StepCases DEF CallbackStep

(***************************************************************************)
(* The frames.                                                             *)
(***************************************************************************)

\* The frames of a queue after one joined it, and after the first one left.
LEMMA HoldsAfterAppend ==
  ASSUME NEW frames \in Seq(Frame), NEW frame \in Frame, NEW i
  PROVE  Holds(Append(frames, frame), i) <=> Holds(frames, i) \/ frame.id = i
<1>1. DOMAIN Append(frames, frame) = 1 .. Len(frames) + 1 /\ DOMAIN frames = 1 .. Len(frames)
  BY AppendProperties, LenProperties
<1>2. \A k \in 1 .. Len(frames) : Append(frames, frame)[k] = frames[k]
  BY AppendProperties
<1>3. Append(frames, frame)[Len(frames) + 1] = frame /\ Len(frames) \in Nat
  BY AppendProperties, LenProperties
<1> HIDE DEF Frame
<1>4. QED
  BY <1>1, <1>2, <1>3 DEF Holds

LEMMA HoldsAfterTail ==
  ASSUME NEW frames \in Seq(Frame), frames # <<>>, NEW i
  PROVE  Holds(frames, i) <=> Holds(Tail(frames), i) \/ Head(frames).id = i
<1>1. /\ DOMAIN Tail(frames) = 1 .. Len(frames) - 1
      /\ DOMAIN frames = 1 .. Len(frames)
      /\ Len(frames) \in Nat \ {0}
  BY HeadTailProperties, LenProperties, EmptySeq
<1>2. \A k \in 1 .. Len(frames) - 1 : Tail(frames)[k] = frames[k + 1]
  BY HeadTailProperties
<1>3. Head(frames) = frames[1]
  BY HeadTailProperties
<1>4. ASSUME NEW k \in DOMAIN frames
      PROVE  k = 1 \/ (k - 1 \in DOMAIN Tail(frames) /\ Tail(frames)[k - 1] = frames[k])
  <2>1. k = 1 \/ k - 1 \in 1 .. Len(frames) - 1
    BY <1>1
  <2>2. k - 1 + 1 = k
    BY <1>1
  <2>3. QED
    BY <1>1, <1>2, <2>1, <2>2
<1>5. ASSUME NEW k \in DOMAIN Tail(frames)
      PROVE  k + 1 \in DOMAIN frames /\ Tail(frames)[k] = frames[k + 1]
  BY <1>1, <1>2
<1>6. 1 \in DOMAIN frames
  BY <1>1
<1>7. QED
  BY <1>3, <1>4, <1>5, <1>6, Zenon DEF Holds

LEMMA DumpedAfterAppend ==
  ASSUME NEW ids \in Seq(Ids), NEW id \in Ids, NEW i
  PROVE  (\E k \in DOMAIN Append(ids, id) : Append(ids, id)[k] = i)
           <=> (\E k \in DOMAIN ids : ids[k] = i) \/ id = i
<1>1. DOMAIN Append(ids, id) = 1 .. Len(ids) + 1 /\ DOMAIN ids = 1 .. Len(ids)
  BY AppendProperties, LenProperties
<1>2. \A k \in 1 .. Len(ids) : Append(ids, id)[k] = ids[k]
  BY AppendProperties
<1>3. Append(ids, id)[Len(ids) + 1] = id /\ Len(ids) \in Nat
  BY AppendProperties, LenProperties
<1>4. QED
  BY <1>1, <1>2, <1>3

\* The steps that neither deliver, dump nor remove a frame.
FramesRest ==
  /\ UNCHANGED <<mDisplayWork, dumped, fate>>
  /\ out' \in {"return", "pop"} => out \in {"return", "pop"}

\* Only the decoder adds a frame, only the output thread removes one, and
\* the latter has dumped it before.
LEMMA DeliveryStep == ASSUME TypeInv, BufferInv, DeliveryInv, [Next]_vars PROVE DeliveryInv'
<1> USE DEF GoTo, playVars, outVars, fmtVars, decVars, picVars
<1>1. CASE \/ PlayStep /\ ~ QueueInput
           \/ OutLoop \/ OutCheck \/ OutTake \/ OutDump \/ OutRow \/ OutReturn
           \/ SpuriousWakeup \/ InputDone \/ FormatChanged \/ FlushDone
           \/ UNCHANGED vars
  <2>1. FramesRest
    <3>1. CASE PlayStep /\ ~ QueueInput
      BY <3>1 DEF FramesRest, PlayStep, CreateDecoder, InitDecoder, OpenInput, ReadFrame,
         ReadBadFrame, EndOfFile, StoreBuffer, RecordInput, Flush, CheckReady, Drain,
         StopOutput, Join, Destroy, DeleteDecoder, FreeBuffers
    <3>2. CASE OutLoop \/ OutCheck \/ OutTake \/ OutDump \/ OutRow \/ OutReturn
      <4>1. OutTake => out' \in {"loop", "dump"}
        BY DEF OutTake, OpenOutput, Opening
      <4>2. QED
        BY <3>2, <4>1 DEF FramesRest, OutLoop, OutCheck, OutTake, OutDump, OutRow, OutReturn
    <3>3. CASE SpuriousWakeup \/ InputDone \/ FormatChanged \/ FlushDone \/ UNCHANGED vars
      BY <3>3 DEF FramesRest, SpuriousWakeup, InputDone, OnInputBufferDone, FormatChanged,
         OnOutputFormatChanged, SetWidth, SetHeight, CreatePicture, FlushDone, OnFlushDone, Notified, vars
    <3>4. QED
      BY <1>1, <3>1, <3>2, <3>3
  <2>2. QED
    BY <2>1 DEF FramesRest, DeliveryInv, IsDumped, IsWaiting
<1>2. CASE QueueInput
  <2>1. UNCHANGED <<mDisplayWork, dumped, out>>
    BY <1>2 DEF QueueInput
  <2>2. mbitstreamId \in Ids /\ fate[mbitstreamId] = "none"
    BY <1>2 DEF QueueInput, BufferInv, Answered, TypeInv, TypeOK, InputInHand, Ids
  <2>3. \A i \in Ids : fate'[i] = fate[i] \/ (i = mbitstreamId /\ fate'[i] \in {"queued", "rejected"})
    BY <1>2, <2>2 DEF QueueInput, TypeInv, TypeOK
  <2>4. QED
    BY <2>1, <2>2, <2>3 DEF DeliveryInv, IsDumped, IsWaiting
<1>3. CASE OutDumped
  <2>1. /\ UNCHANGED <<mDisplayWork, fate>>
        /\ dumped' = Append(dumped, Head(mDisplayWork).id)
        /\ mDisplayWork # <<>>
    BY <1>3 DEF OutDumped, TypeInv, FrameInHand
  <2>2. Head(mDisplayWork).id \in Ids /\ mDisplayWork \in Seq(Frame) /\ dumped \in Seq(Ids)
    BY <2>1, HeadIsFrame DEF TypeInv, TypeOK, Frame
  <2>3. \A i : IsDumped(i)' <=> IsDumped(i) \/ Head(mDisplayWork).id = i
    BY <2>1, <2>2, DumpedAfterAppend DEF IsDumped
  <2>4. \A i : IsWaiting(i)' <=> IsWaiting(i)
    BY <2>1 DEF IsWaiting
  <2>5. IsWaiting(Head(mDisplayWork).id)
    BY <2>1, <2>2, HoldsAfterTail DEF IsWaiting
  <2>6. QED
    BY <2>1, <2>3, <2>4, <2>5 DEF DeliveryInv
<1>4. CASE OutPop
  <2>1. /\ UNCHANGED <<dumped, fate>>
        /\ mDisplayWork' = Tail(mDisplayWork)
        /\ mDisplayWork # <<>> /\ mDisplayWork \in Seq(Frame)
        /\ out = "pop" /\ out' = "loop"
    BY <1>4 DEF OutPop, Popped, TypeInv, TypeOK, FrameInHand
  <2>2. \A i : IsWaiting(i) <=> IsWaiting(i)' \/ Head(mDisplayWork).id = i
    BY <2>1, HoldsAfterTail DEF IsWaiting
  <2>3. \A i : IsDumped(i)' <=> IsDumped(i)
    BY <2>1 DEF IsDumped
  <2>4. QED
    BY <2>1, <2>2, <2>3 DEF DeliveryInv
<1>5. CASE OutputDone
  <2>1. PICK i \in Ids, p \in Pics : OnOutputBufferDone(i, p)
    BY <1>5 DEF OutputDone
  <2> DEFINE frame == [id |-> i, pic |-> p, gen |-> gen]
  <2>2. /\ frame \in Frame /\ frame.id = i
        /\ mDisplayWork \in Seq(Frame)
        /\ mDisplayWork' = Append(mDisplayWork, frame)
    <3>1. gen \in 1 .. MaxChanges /\ p \in 0 .. MaxPics - 1
      BY <2>1 DEF TypeInv, TypeOK, NoEarlyPics, Pics
    <3>2. QED
      BY <2>1, <3>1 DEF OnOutputBufferDone, Pushed, TypeInv, TypeOK, Frame
  <2>3. /\ UNCHANGED <<dumped, out>>
        /\ fate[i] = "queued" /\ fate'[i] \in {"shown", "overtook"}
        /\ \A j \in Ids \ {i} : fate'[j] = fate[j]
    BY <2>1 DEF OnOutputBufferDone, decIn, TypeInv, TypeOK
  <2> HIDE DEF frame
  <2>4. \A j : IsWaiting(j)' <=> IsWaiting(j) \/ j = i
    BY <2>2, HoldsAfterAppend DEF IsWaiting
  <2>5. \A j : IsDumped(j)' <=> IsDumped(j)
    BY <2>3 DEF IsDumped
  <2>6. out \in {"return", "pop"} => Head(mDisplayWork') = Head(mDisplayWork)
    <3>1. out \in {"return", "pop"} => mDisplayWork # <<>>
      BY DEF TypeInv, FrameInHand
    <3>2. QED
      BY <2>1 DEF OnOutputBufferDone, OutputLockFree
  <2>7. QED
    BY <2>3, <2>4, <2>5, <2>6 DEF DeliveryInv
<1>6. CASE FrameDropped
  <2>1. PICK i \in Ids : DropFrame(i)
    BY <1>6 DEF FrameDropped
  <2>2. /\ UNCHANGED <<mDisplayWork, dumped, out>>
        /\ fate'[i] = "dropped"
        /\ \A j \in Ids \ {i} : fate'[j] = fate[j]
    BY <2>1 DEF DropFrame, TypeInv, TypeOK
  <2>3. QED
    BY <2>2 DEF DeliveryInv, IsDumped, IsWaiting
<1>7. QED
  BY <1>1, <1>2, <1>3, <1>4, <1>5, <1>6, StepCases DEF CallbackStep, OutStep

\* mready is the point after which the decoder delivers nothing: play() gets
\* past the wait for the flush only then.
LEMMA FlushStep == ASSUME TypeInv, FlushInv, [Next]_vars PROVE FlushInv'
<1> USE DEF FlushInv, Closed, decIn, GoTo, playVars, outVars, fmtVars, decVars, picVars
<1>1. CASE QueueInput
  <2>1. mready => decIn' = {}
    BY <1>1 DEF QueueInput, TypeInv, TypeOK
  <2>2. QED
    BY <1>1, <2>1 DEF QueueInput
<1>2. CASE CreateDecoder \/ InitDecoder \/ OpenInput \/ ReadFrame \/ ReadBadFrame \/ EndOfFile
           \/ StoreBuffer \/ RecordInput
  BY <1>2 DEF CreateDecoder, InitDecoder, OpenInput, ReadFrame, ReadBadFrame,
     EndOfFile, StoreBuffer, RecordInput
<1>3. CASE Flush \/ CheckReady \/ Drain \/ StopOutput \/ Join \/ Destroy \/ DeleteDecoder \/ FreeBuffers
  BY <1>3 DEF Flush, CheckReady, Drain, Drained, StopOutput, Join, Destroy, DeleteDecoder, FreeBuffers
<1>4. CASE OutStep
  <2>1. UNCHANGED <<play, dec, mready, fate>>
    BY <1>4 DEF OutStep, OutLoop, OutCheck, OutTake, OutDump, OutRow, OutDumped, OutReturn, OutPop
  <2>2. mDisplayWork = <<>> => mDisplayWork' = <<>>
    BY <1>4 DEF OutStep, OutLoop, OutCheck, OutTake, OutDump, OutRow, OutDumped, OutReturn, OutPop, TypeInv, FrameInHand
  <2>3. QED
    BY <2>1, <2>2
<1>5. CASE OutputDone
  <2>1. /\ UNCHANGED <<play, dec, mready>>
        /\ decIn # {}
    BY <1>5 DEF OutputDone, OnOutputBufferDone
  <2>2. QED
    BY <2>1
<1>6. CASE FrameDropped
  BY <1>6 DEF FrameDropped, DropFrame, TypeInv, TypeOK
<1>7. CASE SpuriousWakeup \/ InputDone \/ FormatChanged \/ UNCHANGED vars
  BY <1>7 DEF SpuriousWakeup, InputDone, OnInputBufferDone, FormatChanged, OnOutputFormatChanged, SetWidth, SetHeight, CreatePicture, vars
<1>8. CASE FlushDone
  BY <1>8 DEF FlushDone, OnFlushDone, Notified, FlushedLockFree
<1>9. QED
  BY <1>1, <1>2, <1>3, <1>4, <1>5, <1>6, <1>7, <1>8, StepCases DEF CallbackStep, PlayStep

(***************************************************************************)
(* The invariant of the player, and what follows from it.                  *)
(***************************************************************************)

PlayerInv == TypeInv /\ BufferInv /\ WorkInv /\ DeliveryInv /\ FlushInv

\* The constructor establishes the whole invariant.
LEMMA PlayerInit == Init => PlayerInv
<1> SUFFICES ASSUME Init PROVE PlayerInv
  OBVIOUS
<1>1. TypeInv
  BY TypeInit
<1>2. BufferInv /\ WorkInv
  BY DEF Init, BufferInv, Begun, Stored, Answered, WorkInv, StaleWorkOnlyByOvertaking, Ids
<1>3. DeliveryInv /\ FlushInv
  BY DEF Init, DeliveryInv, FlushInv, Closed, IsDumped, IsWaiting, Holds, decIn
<1>4. QED
  BY <1>1, <1>2, <1>3 DEF PlayerInv

\* The invariant holds in every state of every player.
THEOREM PlayerInvariant == Spec => []PlayerInv
<1>1. PlayerInv /\ [Next]_vars => PlayerInv'
  <2>1. TypeInv /\ [Next]_vars => TypeInv'
    BY StepCases, PlayKeepsType, OutKeepsType, CallbackKeepsType, StutterKeepsType
  <2>2. QED
    BY <2>1, BufferStep, WorkStep, DeliveryStep, FlushStep DEF PlayerInv
<1>2. QED
  BY PlayerInit, <1>1, PTL DEF Spec

\* No input buffer is freed twice, though two places free them.
THEOREM NoDoubleFree == Spec => []HeapSafe
<1>1. PlayerInv => HeapSafe
  BY DEF PlayerInv, BufferInv, HeapSafe
<1>2. QED
  BY PlayerInvariant, <1>1, PTL

\* A player that exits leaks the buffers whose onInputBufferDone() ran, all
\* of them, and no other.
THEOREM CompletedInputsLeak == Spec => []LeakIsCompletedInputs
<1>1. PlayerInv => LeakIsCompletedInputs
  BY DEF PlayerInv, BufferInv, LeakIsCompletedInputs
<1>2. QED
  BY PlayerInvariant, <1>1, PTL

\* mInputWork grows only by frames the decoder has not shown, or showed early.
THEOREM StaleWork == Spec => []StaleWorkOnlyByOvertaking
<1>1. PlayerInv => StaleWorkOnlyByOvertaking
  BY DEF PlayerInv, WorkInv
<1>2. QED
  BY PlayerInvariant, <1>1, PTL

\* The wait for the flush, and then for the display queue, is enough: when
\* play() stops the output thread every frame it queued was dumped, unless
\* the decoder rejected or dropped it.
THEOREM EveryFrameIsAccountedFor == Spec => []NoFrameAbandoned
<1>1. PlayerInv => NoFrameAbandoned
  <2> SUFFICES ASSUME PlayerInv, play \in {"stop", "join", "destroy"},
                      NEW i \in Ids, i < mbitstreamId
               PROVE  fate[i] \in {"rejected", "dropped"} \/ IsDumped(i)
    BY DEF NoFrameAbandoned, IsDumped
  <2>1. fate[i] # "none"
    BY DEF PlayerInv, BufferInv, Answered
  <2>2. fate[i] # "queued" /\ mDisplayWork = <<>>
    BY DEF PlayerInv, FlushInv, Closed, decIn
  <2>3. ~ IsWaiting(i)
    BY <2>2 DEF IsWaiting, Holds
  <2>4. fate[i] \in {"none", "queued", "rejected", "shown", "overtook", "dropped"}
    BY DEF PlayerInv, TypeInv, TypeOK
  <2>5. QED
    BY <2>1, <2>2, <2>3, <2>4 DEF PlayerInv, DeliveryInv
<1>2. QED
  BY PlayerInvariant, <1>1, PTL

(***************************************************************************)
(* The player implements FrameFifo.                                        *)
(***************************************************************************)

\* The ids of the waiting frames after one joined them and after the first left.
LEMMA IdsAfterAppend ==
  ASSUME NEW frames \in Seq(Frame), NEW frame \in Frame
  PROVE  IdsOf(Append(frames, frame)) = Append(IdsOf(frames), frame.id)
  BY DEF IdsOf

LEMMA IdsAfterTail ==
  ASSUME NEW frames \in Seq(Frame), frames # <<>>
  PROVE  /\ IdsOf(Tail(frames)) = Tail(IdsOf(frames))
         /\ Head(IdsOf(frames)) = Head(frames).id
         /\ IdsOf(frames) # <<>>
  BY DEF IdsOf

\* The steps in which no frame is delivered or dumped, and nothing is closed.
FifoRest ==
  /\ UNCHANGED dumped
  /\ Undumped' = Undumped
  /\ Closed' = Closed

LEMMA FifoStep == ASSUME PlayerInv, [Next]_vars PROVE [Fifo!Next]_(Fifo!fifoVars)
<1> USE DEF GoTo, playVars, outVars, fmtVars, decVars, picVars
<1>1. ASSUME FifoRest PROVE UNCHANGED Fifo!fifoVars
  BY <1>1 DEF FifoRest, Fifo!fifoVars
<1>2. CASE PlayStep /\ ~ (Drain \/ OpenInput)
  BY <1>1, <1>2 DEF FifoRest, Undumped, Closed, PlayStep, CreateDecoder, InitDecoder, ReadFrame,
     ReadBadFrame, EndOfFile, StoreBuffer, QueueInput, RecordInput, Flush, CheckReady,
     StopOutput, Join, Destroy, DeleteDecoder, FreeBuffers
<1>3. CASE Drain \/ OpenInput
  <2>1. Undumped = <<>> /\ Undumped' = <<>> /\ ~ Closed /\ dumped' = dumped
    BY <1>3 DEF Drain, Drained, OpenInput, Closed, Undumped, PlayerInv, FlushInv, TypeInv, FrameInHand
  <2>2. CASE Closed'
    BY <2>1, <2>2 DEF Fifo!Next, Fifo!Close, IdsOf
  <2>3. CASE ~ Closed'
    BY <1>1, <2>1, <2>3 DEF FifoRest, Closed
  <2>4. QED
    BY <2>2, <2>3
<1>4. CASE OutDumped
  <2>1. /\ mDisplayWork \in Seq(Frame) /\ mDisplayWork # <<>>
        /\ UNCHANGED mDisplayWork
        /\ dumped' = Append(dumped, Head(mDisplayWork).id)
        /\ Undumped = mDisplayWork /\ Undumped' = Tail(mDisplayWork)
        /\ ~ Closed /\ UNCHANGED Closed
    BY <1>4 DEF OutDumped, Undumped, Closed, PlayerInv, TypeInv, TypeOK, FrameInHand, FlushInv
  <2>2. IdsOf(Undumped)' = IdsOf(Undumped')
    BY DEF IdsOf
  <2>3. Fifo!Dump
    BY <2>1, <2>2, IdsAfterTail DEF Fifo!Dump
  <2>4. QED
    BY <2>3 DEF Fifo!Next
<1>5. CASE OutLoop \/ OutCheck \/ OutTake \/ OutDump \/ OutRow \/ OutReturn
  <2>1. OutTake => out' \in {"loop", "dump"}
    BY DEF OutTake, OpenOutput, Opening, PlayerInv
  <2>2. FifoRest
    BY <1>5, <2>1 DEF FifoRest, Undumped, Closed, OutLoop, OutCheck, OutTake, OutDump, OutRow, OutReturn
  <2>3. QED
    BY <1>1, <2>2
<1>6. CASE OutPop
  BY <1>1, <1>6 DEF FifoRest, Undumped, Closed, OutPop, Popped
<1>7. CASE OutputDone
  <2>1. PICK i \in Ids, p \in Pics : OnOutputBufferDone(i, p)
    BY <1>7 DEF OutputDone
  <2> DEFINE frame == [id |-> i, pic |-> p, gen |-> gen]
  <2>2. /\ frame \in Frame /\ frame.id = i
        /\ mDisplayWork \in Seq(Frame)
        /\ Undumped = mDisplayWork
        /\ Undumped' = Append(mDisplayWork, frame)
    <3>1. gen \in 1 .. MaxChanges /\ p \in 0 .. MaxPics - 1
      BY <2>1 DEF PlayerInv, TypeInv, TypeOK, NoEarlyPics, Pics
    <3>2. QED
      BY <2>1, <3>1 DEF OnOutputBufferDone, OutputLockFree, Undumped, Pushed,
         PlayerInv, TypeInv, TypeOK, Frame
  <2>3. /\ i \in decIn /\ UNCHANGED <<dumped, play>>
        /\ ~ Closed /\ UNCHANGED Closed
    BY <2>1 DEF OnOutputBufferDone, PlayerInv, FlushInv, Closed
  <2> HIDE DEF frame
  <2>4. IdsOf(Undumped') = Append(IdsOf(Undumped), i)
    BY <2>2, IdsAfterAppend
  <2>5. ~ IsDumped(i) /\ ~ IsWaiting(i)
    BY <2>3 DEF PlayerInv, DeliveryInv, decIn
  <2>6. ~ Fifo!Occurs(i, IdsOf(Undumped)) /\ ~ Fifo!Occurs(i, dumped)
    BY <2>2, <2>5 DEF Fifo!Occurs, IsDumped, IsWaiting, Holds, IdsOf
  <2>7. IdsOf(Undumped)' = IdsOf(Undumped')
    BY DEF IdsOf
  <2>8. Fifo!Deliver(i)
    BY <2>3, <2>4, <2>6, <2>7 DEF Fifo!Deliver
  <2>9. QED
    BY <2>8 DEF Fifo!Next
<1>8. CASE SpuriousWakeup \/ InputDone \/ FormatChanged \/ FrameDropped \/ FlushDone
           \/ UNCHANGED vars
  BY <1>1, <1>8 DEF FifoRest, Undumped, Closed, SpuriousWakeup, InputDone, OnInputBufferDone,
     FormatChanged, OnOutputFormatChanged, SetWidth, SetHeight, CreatePicture, FrameDropped, DropFrame, FlushDone, OnFlushDone,
     Notified, FlushedLockFree, vars
<1>9. QED
  BY <1>2, <1>3, <1>4, <1>5, <1>6, <1>7, <1>8, StepCases DEF CallbackStep, OutStep

\* Frames are dumped in the order of their delivery, each exactly once, and
\* play() closes the player only when none is left: the player implements
\* the abstract queue.
THEOREM ImplementsFifo == Spec => FramesInOrder
<1>1. Init => Fifo!Init
  BY DEF Init, Fifo!Init, IdsOf, Undumped, Closed
<1>2. PlayerInv /\ [Next]_vars => [Fifo!Next]_(Fifo!fifoVars)
  BY FifoStep
<1>3. QED
  BY <1>1, <1>2, PlayerInvariant, PTL DEF Spec, FramesInOrder, Fifo!Spec

(***************************************************************************)
(* The output files.                                                       *)
(***************************************************************************)

\* A file is open from the first dump on.
LEMMA DumpStep == ASSUME DumpInv, [Next]_vars PROVE DumpInv'
<1> USE DEF DumpInv, playVars, outVars, fmtVars, decVars, picVars
<1>1. CASE PlayStep
  <2>1. UNCHANGED <<dumped, files>> /\ out' \in {out, "loop"}
    BY <1>1 DEF PlayStep, GoTo, CreateDecoder, InitDecoder, OpenInput, ReadFrame, ReadBadFrame,
       EndOfFile, StoreBuffer, QueueInput, RecordInput, Flush, CheckReady, Drain,
       StopOutput, Join, Destroy, DeleteDecoder, FreeBuffers
  <2>2. QED
    BY <2>1
<1>2. CASE OutTake
  <2>1. /\ UNCHANGED dumped
        /\ files # "none" => files' = files
        /\ WithOutput /\ out' = "dump" => files' # "none"
        /\ out' \in {"dump", "loop"}
    BY <1>2 DEF OutTake, OpenOutput, Opening
  <2>2. QED
    BY <2>1
<1>3. CASE OutLoop \/ OutCheck \/ OutDump \/ OutRow \/ OutDumped \/ OutReturn \/ OutPop
  BY <1>3 DEF OutLoop, OutCheck, OutDump, OutRow, OutDumped, OutReturn, OutPop
<1>4. CASE CallbackStep \/ UNCHANGED vars
  BY <1>4 DEF CallbackStep, SpuriousWakeup, GoTo, OutputDone, OnOutputBufferDone,
     InputDone, OnInputBufferDone, FormatChanged, OnOutputFormatChanged, SetWidth, SetHeight, CreatePicture,
     FrameDropped, DropFrame, FlushDone, OnFlushDone, Notified, vars
<1>5. QED
  BY <1>1, <1>2, <1>3, <1>4, StepCases DEF OutStep

\* With -o no frame passes for dumped while there is no output file, whatever
\* fails when the files are opened.
THEOREM DumpedToAFile == Spec => []NoSilentDump
<1>1. Init => DumpInv
  BY DEF Init, DumpInv
<1>2. DumpInv => NoSilentDump
  BY DEF DumpInv, NoSilentDump
<1>3. QED
  BY <1>1, <1>2, DumpStep, PTL DEF Spec

(***************************************************************************)
(* The pictures and the formats, also when the format changes while frames *)
(* of the old one wait or are dumped.                                      *)
(***************************************************************************)

\* The frames of a queue after its first one left are frames it held, and the
\* first is one of them.
LEMMA TailHoldsNoOther ==
  ASSUME NEW frames \in Seq(Frame), frames # <<>>
  PROVE  /\ \A k \in DOMAIN Tail(frames) : k + 1 \in DOMAIN frames /\ Tail(frames)[k] = frames[k + 1]
         /\ 1 \in DOMAIN frames /\ Head(frames) = frames[1]
<1>1. /\ DOMAIN Tail(frames) = 1 .. Len(frames) - 1
      /\ DOMAIN frames = 1 .. Len(frames)
      /\ Len(frames) \in Nat \ {0}
  BY HeadTailProperties, LenProperties, EmptySeq
<1>2. \A k \in 1 .. Len(frames) - 1 : Tail(frames)[k] = frames[k + 1]
  BY HeadTailProperties
<1>3. QED
  BY <1>1, <1>2, HeadTailProperties

\* The frames of a queue after one joined it: those it held, and the new one behind.
LEMMA AppendHoldsNoOther ==
  ASSUME NEW frames \in Seq(Frame), NEW frame \in Frame
  PROVE  /\ DOMAIN Append(frames, frame) = (DOMAIN frames) \cup {Len(frames) + 1}
         /\ Len(frames) + 1 \notin DOMAIN frames
         /\ \A k \in DOMAIN frames : Append(frames, frame)[k] = frames[k]
         /\ Append(frames, frame)[Len(frames) + 1] = frame
<1>1. DOMAIN Append(frames, frame) = 1 .. Len(frames) + 1 /\ DOMAIN frames = 1 .. Len(frames)
  BY AppendProperties, LenProperties
<1>2. \A k \in 1 .. Len(frames) : Append(frames, frame)[k] = frames[k]
  BY AppendProperties
<1>3. Append(frames, frame)[Len(frames) + 1] = frame /\ Len(frames) \in Nat
  BY AppendProperties, LenProperties
<1> HIDE DEF Frame
<1>4. QED
  BY <1>1, <1>2, <1>3

\* A frame that is delivered, and what it changes.
LEMMA Delivered ==
  ASSUME TypeInv, OutputDone
  PROVE  \E i \in Ids, p \in Pics :
           LET frame == [id |-> i, pic |-> p, gen |-> gen]
           IN  /\ frame \in Frame
               /\ mDisplayWork \in Seq(Frame)
               /\ mDisplayWork' = Append(mDisplayWork, frame)
               /\ p \in decFree /\ decFree' = decFree \ {p}
               /\ out \notin {"dump", "rows", "return", "pop"}
               /\ UNCHANGED <<out, gen, made, stale>>
<1>1. PICK i \in Ids, p \in Pics : OnOutputBufferDone(i, p)
  BY DEF OutputDone
<1>2. gen \in 1 .. MaxChanges /\ p \in 0 .. MaxPics - 1
  BY <1>1 DEF TypeInv, TypeOK, NoEarlyPics, Pics
<1>3. QED
  BY <1>1, <1>2 DEF OnOutputBufferDone, OutputLockFree, Pushed, TypeInv, TypeOK, Frame, fmtVars

\* A frame is delivered with a picture that was created, and later changes of
\* the format only make it older.
LEMMA FramesStep == ASSUME TypeInv, FramesInv, [Next]_vars PROVE FramesInv'
<1> USE DEF GoTo, playVars, outVars, fmtVars, decVars, picVars
<1>1. ASSUME UNCHANGED <<mDisplayWork, gen, made>> PROVE FramesInv'
  BY <1>1 DEF FramesInv, Pics
<1>2. CASE PlayStep
  BY <1>1, <1>2 DEF PlayStep, CreateDecoder, InitDecoder, OpenInput, ReadFrame,
     ReadBadFrame, EndOfFile, StoreBuffer, QueueInput, RecordInput, Flush, CheckReady, Drain,
     StopOutput, Join, Destroy, DeleteDecoder, FreeBuffers
<1>3. CASE OutLoop \/ OutCheck \/ OutTake \/ OutDump \/ OutRow \/ OutDumped \/ OutReturn
  BY <1>1, <1>3 DEF OutLoop, OutCheck, OutTake, OutDump, OutRow, OutDumped, OutReturn
<1>4. CASE OutPop
  <2>1. /\ UNCHANGED <<made, gen>>
        /\ mDisplayWork' = Tail(mDisplayWork) /\ mDisplayWork # <<>> /\ mDisplayWork \in Seq(Frame)
    BY <1>4 DEF OutPop, Popped, TypeInv, TypeOK, FrameInHand
  <2>2. \A k \in DOMAIN mDisplayWork' :
          k + 1 \in DOMAIN mDisplayWork /\ mDisplayWork'[k] = mDisplayWork[k + 1]
    BY <2>1, TailHoldsNoOther
  <2>3. QED
    BY <2>1, <2>2 DEF FramesInv, Pics
<1>5. CASE OutputDone
  <2>1. PICK i \in Ids, p \in Pics :
          LET frame == [id |-> i, pic |-> p, gen |-> gen]
          IN  /\ frame \in Frame
              /\ mDisplayWork \in Seq(Frame)
              /\ mDisplayWork' = Append(mDisplayWork, frame)
              /\ UNCHANGED <<gen, made>>
    BY <1>5, Delivered
  <2> DEFINE frame == [id |-> i, pic |-> p, gen |-> gen]
  <2>2. frame.gen = gen /\ frame.pic \in Pics
    OBVIOUS
  <2>3. frame \in Frame /\ mDisplayWork' = Append(mDisplayWork, frame)
    BY <2>1
  <2> HIDE DEF frame
  <2>4. \A k \in DOMAIN mDisplayWork' :
          \/ k \in DOMAIN mDisplayWork /\ mDisplayWork'[k] = mDisplayWork[k]
          \/ mDisplayWork'[k] = frame
    BY <2>1, <2>3, AppendHoldsNoOther
  <2>5. QED
    BY <2>1, <2>2, <2>4 DEF FramesInv, Pics
<1>6. CASE FormatChanged
  <2>1. \A k \in DOMAIN mDisplayWork : mDisplayWork[k].gen \in Int
    <3>1. mDisplayWork \in Seq(Frame)
      BY DEF TypeInv, TypeOK
    <3>2. \A k \in DOMAIN mDisplayWork : mDisplayWork[k] \in Frame
      BY <3>1
    <3>3. QED
      BY <3>2 DEF Frame
  <2>2. mDisplayWork' = mDisplayWork /\ gen \in Nat /\ made \in Nat
        /\ \/ gen' = gen + 1
           \/ gen' = gen /\ made' \in {made, made + 1}
    BY <1>6 DEF FormatChanged, OnOutputFormatChanged, SetWidth, SetHeight, CreatePicture,
       TypeInv, TypeOK
  <2>3. QED
    BY <2>1, <2>2 DEF FramesInv, Pics
<1>7. CASE SpuriousWakeup \/ InputDone \/ FrameDropped \/ FlushDone \/ UNCHANGED vars
  BY <1>1, <1>7 DEF SpuriousWakeup, InputDone, OnInputBufferDone,
     FrameDropped, DropFrame, FlushDone, OnFlushDone, vars
<1>8. QED
  BY <1>2, <1>3, <1>4, <1>5, <1>6, <1>7, StepCases DEF CallbackStep, OutStep

\* The head of the waiting frames is not newer than the width and the height.
LEMMA HeadIsNotNewer ==
  ASSUME TypeInv, FramesInv, mDisplayWork # <<>>
  PROVE  /\ Head(mDisplayWork).gen \in 1 .. gen
         /\ \/ Head(mDisplayWork).gen < gen
            \/ Head(mDisplayWork).gen = gen /\ Head(mDisplayWork).pic \in Pics
<1>1. Head(mDisplayWork) \in Frame
  BY HeadIsFrame DEF TypeInv
<1>2. 1 \in DOMAIN mDisplayWork /\ Head(mDisplayWork) = mDisplayWork[1]
  BY TailHoldsNoOther DEF TypeInv, TypeOK
<1>3. \/ Head(mDisplayWork).gen < gen
      \/ Head(mDisplayWork).gen = gen /\ Head(mDisplayWork).pic \in Pics
  BY <1>2 DEF FramesInv
<1>4. Head(mDisplayWork).gen \in 1 .. MaxChanges /\ gen \in 0 .. MaxChanges
  BY <1>1 DEF Frame, TypeInv, TypeOK
<1>5. QED
  BY <1>3, <1>4

LEMMA StrideStep == ASSUME TypeInv, FramesInv, StrideInv, [Next]_vars PROVE StrideInv'
<1> USE DEF GoTo, playVars, outVars, fmtVars, decVars, picVars
<1>1. ASSUME UNCHANGED <<mBufferWidth, mBufferHeight, gen, format>>,
             out' = "rows" => UNCHANGED <<out, used, mDisplayWork>>
      PROVE  StrideInv'
  BY <1>1 DEF StrideInv, StrideMatchesFrame
<1>2. CASE PlayStep
  BY <1>1, <1>2 DEF PlayStep, CreateDecoder, InitDecoder, OpenInput, ReadFrame,
     ReadBadFrame, EndOfFile, StoreBuffer, QueueInput, RecordInput, Flush, CheckReady, Drain,
     StopOutput, Join, Destroy, DeleteDecoder, FreeBuffers
<1>3. CASE OutLoop \/ OutCheck \/ OutTake \/ OutDumped \/ OutReturn \/ OutPop
  <2>1. OutTake => out' \in {"loop", "dump"}
    BY DEF OutTake, OpenOutput, Opening
  <2>2. out' # "rows" /\ UNCHANGED <<mBufferWidth, mBufferHeight, gen, format>>
    BY <1>3, <2>1 DEF OutLoop, OutCheck, OutTake, OutDumped, OutReturn, OutPop
  <2>3. QED
    BY <1>1, <2>2
<1>4. CASE OutDump \/ OutRow
  <2>1. /\ UNCHANGED <<mBufferWidth, mBufferHeight, gen, format, mDisplayWork>>
        /\ \/ used' = {mBufferWidth, mBufferHeight}
           \/ out = "rows" /\ used' = used \cup {mBufferWidth}
        /\ mDisplayWork # <<>>
    BY <1>4 DEF OutDump, OutRow, TypeInv, FrameInHand
  <2>2. /\ Head(mDisplayWork).gen \in 1 .. gen /\ gen \in Nat
        /\ Head(mDisplayWork).gen = gen => made > 0
    BY <2>1, HeadIsNotNewer DEF TypeInv, TypeOK, Pics
  <2>3. made > 0 => format \notin {"width", "height"}
    BY DEF TypeInv, NoEarlyPics
  <2>4. KernelUvm => {mBufferWidth, mBufferHeight} \subseteq Head(mDisplayWork).gen .. gen
    BY <2>2, <2>3 DEF StrideInv
  <2>5. KernelUvm => used' \subseteq Head(mDisplayWork).gen .. gen
    BY <2>1, <2>4 DEF StrideInv, StrideMatchesFrame
  <2>6. QED
    BY <2>1, <2>5 DEF StrideInv, StrideMatchesFrame
<1>5. CASE OutputDone
  <2>1. out \notin {"dump", "rows", "return", "pop"} /\ UNCHANGED <<out, fmtVars>>
    BY <1>5 DEF OutputDone, OnOutputBufferDone, OutputLockFree
  <2>2. QED
    BY <1>1, <2>1
<1>6. CASE FormatChanged
  <2>1. /\ UNCHANGED <<out, used, mDisplayWork>>
        /\ gen \in Nat /\ gen' \in {gen, gen + 1}
    BY <1>6 DEF FormatChanged, OnOutputFormatChanged, SetWidth, SetHeight, CreatePicture, TypeInv, TypeOK
  <2>2. KernelUvm =>
          /\ mBufferWidth' = IF format' = "width" THEN gen' - 1 ELSE gen'
          /\ mBufferHeight' = IF format' \in {"width", "height"} THEN gen' - 1 ELSE gen'
    <3>1. CASE CreatePicture
      <4>1. format = "pictures" /\ format' \in {"pictures", "idle"}
            /\ UNCHANGED <<mBufferWidth, mBufferHeight, gen>>
        BY <3>1 DEF CreatePicture
      <4>2. QED
        BY <4>1 DEF StrideInv
    <3>2. CASE ~ CreatePicture
      BY <1>6, <3>2 DEF FormatChanged, OnOutputFormatChanged, SetWidth, SetHeight, NewStride,
         TypeInv, TypeOK, StrideInv
    <3>3. QED
      BY <3>1, <3>2
  <2>3. out = "rows" => Head(mDisplayWork).gen \in Nat
    BY HeadIsNotNewer DEF TypeInv, FrameInHand
  <2>4. StrideMatchesFrame'
    BY <2>1, <2>3 DEF StrideInv, StrideMatchesFrame
  <2>5. QED
    BY <2>2, <2>4 DEF StrideInv
<1>7. CASE SpuriousWakeup \/ InputDone \/ FrameDropped \/ FlushDone \/ UNCHANGED vars
  BY <1>1, <1>7 DEF SpuriousWakeup, InputDone, OnInputBufferDone,
     FrameDropped, DropFrame, FlushDone, OnFlushDone, vars
<1>8. QED
  BY <1>2, <1>3, <1>4, <1>5, <1>6, <1>7, StepCases DEF CallbackStep, OutStep

\* However often the format changes while a frame waits or is dumped, dumpData()
\* never reads it with a width or a height older than the frame: a callback sets
\* both before the decoder has a picture to deliver a frame of the new format in.
THEOREM DumpedWithItsStride == Spec => []StrideMatchesFrame
<1>1. Init => FramesInv /\ StrideInv
  BY DEF Init, FramesInv, StrideInv, StrideMatchesFrame
<1>2. TypeInv /\ FramesInv /\ StrideInv /\ [Next]_vars => FramesInv' /\ StrideInv'
  BY FramesStep, StrideStep
<1>3. StrideInv => StrideMatchesFrame
  BY DEF StrideInv
<1>4. QED
  BY <1>1, <1>2, <1>3, TypeCorrect, PTL DEF Spec

\* The owner of a picture, among frames that wait.
Owned(frames, g, free, p) ==
  LET at(k) == frames[k].gen = g /\ frames[k].pic = p
  IN  IF p \in free
      THEN \A k \in DOMAIN frames : ~ at(k)
      ELSE \E k \in DOMAIN frames : \A l \in DOMAIN frames : at(l) <=> l = k

LEMMA ConservedIsOwned ==
  PicturesConserved <=> \A p \in Pics \ stale : Owned(Waiting, gen, decFree, p)
  BY DEF PicturesConserved, WaitsAt, Owned

\* A picture handed back by the first frame is the decoder's, unless another frame
\* waits with it; the other pictures keep their owners.
LEMMA OwnedAfterTail ==
  ASSUME NEW frames \in Seq(Frame), frames # <<>>, NEW g, NEW free, NEW p,
         Owned(frames, g, free, p)
  PROVE  /\ Head(frames).pic # p => Owned(Tail(frames), g, free, p)
         /\ Head(frames).gen = g => Owned(Tail(frames), g, free \cup {Head(frames).pic}, p)
<1> DEFINE at(k) == frames[k].gen = g /\ frames[k].pic = p
           rest(k) == Tail(frames)[k].gen = g /\ Tail(frames)[k].pic = p
<1>1. /\ \A k \in DOMAIN Tail(frames) : k + 1 \in DOMAIN frames /\ (rest(k) <=> at(k + 1))
      /\ 1 \in DOMAIN frames /\ Head(frames) = frames[1]
  BY TailHoldsNoOther
<1>2. \A k \in DOMAIN frames : k = 1 \/ (k - 1 \in DOMAIN Tail(frames) /\ k \in Int)
  BY HeadTailProperties, LenProperties
<1>3. DOMAIN Tail(frames) \subseteq Nat \ {0}
  BY HeadTailProperties, LenProperties
<1> HIDE DEF Frame
<1>4. ASSUME ~ at(1) PROVE Owned(Tail(frames), g, free, p)
  <2>1. CASE p \in free
    BY <1>1, <2>1 DEF Owned
  <2>2. CASE p \notin free
    <3>1. PICK k \in DOMAIN frames : \A l \in DOMAIN frames : at(l) <=> l = k
      BY <2>2 DEF Owned
    <3>2. k # 1
      BY <1>1, <1>4, <3>1
    <3>3. k - 1 \in DOMAIN Tail(frames) /\ k \in Int
      BY <1>2, <3>2
    <3>4. ASSUME NEW l \in DOMAIN Tail(frames) PROVE rest(l) <=> l = k - 1
      <4>1. rest(l) <=> l + 1 = k
        BY <1>1, <3>1
      <4>2. l \in Nat
        BY <1>3
      <4>3. QED
        BY <3>3, <4>1, <4>2
    <3>5. QED
      BY <2>2, <3>3, <3>4 DEF Owned
  <2>3. QED
    BY <2>1, <2>2
<1>5. ASSUME at(1) PROVE \A k \in DOMAIN Tail(frames) : ~ rest(k)
  <2>1. p \notin free
    BY <1>1, <1>5 DEF Owned
  <2>2. PICK k \in DOMAIN frames : \A l \in DOMAIN frames : at(l) <=> l = k
    BY <2>1 DEF Owned
  <2>3. k = 1
    BY <1>1, <1>5, <2>2
  <2>4. QED
    BY <1>1, <1>3, <2>2, <2>3
<1>6. Head(frames).pic # p => ~ at(1)
  BY <1>1
<1>7. ASSUME Head(frames).gen = g
      PROVE  Owned(Tail(frames), g, free \cup {Head(frames).pic}, p)
  <2>1. CASE at(1)
    BY <1>1, <1>5, <2>1 DEF Owned
  <2>2. CASE ~ at(1)
    <3>1. Head(frames).pic # p
      BY <1>1, <1>7, <2>2
    <3>2. p \in free <=> p \in free \cup {Head(frames).pic}
      BY <3>1
    <3>3. QED
      BY <1>4, <2>2, <3>2 DEF Owned
  <2>3. QED
    BY <2>1, <2>2
<1>8. QED
  BY <1>4, <1>6, <1>7

\* The picture of a frame that is delivered goes over from the decoder to it.
LEMMA OwnedAfterAppend ==
  ASSUME NEW frames \in Seq(Frame), NEW frame \in Frame, NEW free, NEW p,
         frame.pic \in free, Owned(frames, frame.gen, free, p)
  PROVE  Owned(Append(frames, frame), frame.gen, free \ {frame.pic}, p)
<1>1. /\ DOMAIN Append(frames, frame) = (DOMAIN frames) \cup {Len(frames) + 1}
      /\ Len(frames) + 1 \notin DOMAIN frames
      /\ \A k \in DOMAIN frames : Append(frames, frame)[k] = frames[k]
      /\ Append(frames, frame)[Len(frames) + 1] = frame
  BY AppendHoldsNoOther
<1> HIDE DEF Frame
<1>2. CASE p = frame.pic
  BY <1>1, <1>2 DEF Owned
<1>3. CASE p # frame.pic
  <2>1. p \in free <=> p \in free \ {frame.pic}
    BY <1>3
  <2>2. QED
    BY <1>1, <1>3, <2>1 DEF Owned
<1>4. QED
  BY <1>2, <1>3

\* The steps that move no picture.
PicturesRest ==
  /\ UNCHANGED <<decFree, stale, made, gen>>
  /\ Waiting' = Waiting

LEMMA PictureStep ==
  ASSUME PlayerInv, FramesInv, PicturesConserved, [Next]_vars
  PROVE  PicturesConserved'
<1> USE DEF GoTo, playVars, outVars, fmtVars, decVars, picVars
<1>0. (\A p \in Pics' \ stale' : Owned(Waiting', gen', decFree', p)) => PicturesConserved'
  BY DEF PicturesConserved, WaitsAt, Owned
<1>1. ASSUME PicturesRest PROVE PicturesConserved'
  BY <1>0, <1>1, ConservedIsOwned DEF PicturesRest, Pics
<1>2. CASE PlayStep
  <2>1. UNCHANGED <<decFree, stale, made, gen, mDisplayWork>>
        /\ (out' = out \/ (out' = "loop" /\ play = "open"))
    BY <1>2 DEF PlayStep, CreateDecoder, InitDecoder, OpenInput, ReadFrame, ReadBadFrame,
       EndOfFile, StoreBuffer, QueueInput, RecordInput, Flush, CheckReady, Drain,
       StopOutput, Join, Destroy, DeleteDecoder, FreeBuffers
  <2>2. play = "open" => out # "pop"
    BY DEF PlayerInv, FlushInv, TypeInv, FrameInHand
  <2>3. QED
    BY <1>1, <2>1, <2>2 DEF PicturesRest, Waiting
<1>3. CASE OutLoop \/ OutCheck \/ OutTake \/ OutDump \/ OutRow \/ OutDumped \/ OutPop
  <2>1. OutTake => out' \in {"loop", "dump"}
    BY DEF OutTake, OpenOutput, Opening
  <2>2. PicturesRest
    BY <1>3, <2>1 DEF PicturesRest, Waiting, OutLoop, OutCheck, OutTake, OutDump, OutRow,
       OutDumped, OutPop, Popped
  <2>3. QED
    BY <1>1, <2>2
<1>4. CASE OutReturn
  <2> DEFINE head == Head(mDisplayWork)
  <2>1. /\ UNCHANGED <<made, gen>>
        /\ mDisplayWork \in Seq(Frame) /\ mDisplayWork # <<>>
        /\ Waiting = mDisplayWork /\ Waiting' = Tail(mDisplayWork)
        /\ decFree' = decFree \cup ({head.pic} \cap Pics)
        /\ stale' = IF head.gen = gen THEN stale ELSE stale \cup {head.pic}
    BY <1>4 DEF OutReturn, Waiting, PlayerInv, TypeInv, TypeOK, FrameInHand
  <2>2. Pics' = Pics
    BY <2>1 DEF Pics
  <2>3. ASSUME NEW p \in Pics' \ stale' PROVE Owned(Waiting', gen', decFree', p)
    <3>1. p \in Pics \ stale /\ Owned(mDisplayWork, gen, decFree, p)
      BY <2>1, <2>2, <2>3, ConservedIsOwned
    <3>2. CASE head.gen = gen
      <4>1. head.pic \in Pics
        BY <2>1, <3>2, HeadIsNotNewer DEF PlayerInv, TypeInv, TypeOK
      <4>2. decFree' = decFree \cup {head.pic}
        BY <2>1, <4>1
      <4>3. Owned(Tail(mDisplayWork), gen, decFree \cup {head.pic}, p)
        BY <2>1, <3>1, <3>2, OwnedAfterTail
      <4>4. QED
        BY <2>1, <4>2, <4>3
    <3>3. CASE head.gen # gen
      <4>1. head.pic # p
        BY <2>1, <2>3, <3>3
      <4>2. Owned(Tail(mDisplayWork), gen, decFree, p)
        BY <2>1, <3>1, <4>1, OwnedAfterTail
      <4>3. p \in decFree' <=> p \in decFree
        BY <2>1, <4>1
      <4>4. QED
        BY <2>1, <4>2, <4>3 DEF Owned
    <3>4. QED
      BY <3>2, <3>3
  <2>4. QED
    BY <1>0, <2>3
<1>5. CASE OutputDone
  <2>1. PICK i \in Ids, p \in Pics :
          LET frame == [id |-> i, pic |-> p, gen |-> gen]
          IN  /\ frame \in Frame
              /\ mDisplayWork \in Seq(Frame)
              /\ mDisplayWork' = Append(mDisplayWork, frame)
              /\ p \in decFree /\ decFree' = decFree \ {p}
              /\ out \notin {"dump", "rows", "return", "pop"}
              /\ UNCHANGED <<out, gen, made, stale>>
    BY <1>5, Delivered DEF PlayerInv
  <2> DEFINE frame == [id |-> i, pic |-> p, gen |-> gen]
  <2>2. /\ frame \in Frame /\ frame.pic = p /\ frame.gen = gen
        /\ Waiting = mDisplayWork /\ Waiting' = Append(mDisplayWork, frame)
    BY <2>1 DEF Waiting
  <2> HIDE DEF frame
  <2>3. ASSUME NEW q \in Pics' \ stale' PROVE Owned(Waiting', gen', decFree', q)
    <3>1. Owned(mDisplayWork, frame.gen, decFree, q)
      BY <2>1, <2>2, <2>3, ConservedIsOwned DEF Pics
    <3>2. Owned(Append(mDisplayWork, frame), frame.gen, decFree \ {frame.pic}, q)
      BY <2>1, <2>2, <3>1, OwnedAfterAppend
    <3>3. QED
      BY <2>1, <2>2, <3>2
  <2>4. QED
    BY <1>0, <2>3
<1>6. CASE FormatChanged
  <2>1. CASE \E n \in 1 .. MaxPics : OnOutputFormatChanged(n)
    <3>1. Pics' = {}
      BY <2>1 DEF OnOutputFormatChanged, Pics
    <3>2. QED
      BY <1>0, <3>1
  <2>2. CASE SetWidth \/ SetHeight
    BY <1>1, <2>2 DEF SetWidth, SetHeight, PicturesRest, Waiting
  <2>3. CASE CreatePicture
    <3>1. /\ UNCHANGED <<stale, gen, mDisplayWork, out>> /\ Waiting' = Waiting
          /\ made' = made + 1 /\ decFree' = decFree \cup {made} /\ made \in Nat
      BY <2>3 DEF CreatePicture, Waiting, PlayerInv, TypeInv, TypeOK
    <3>2. \A k \in DOMAIN Waiting : Waiting[k].gen < gen \/ Waiting[k].pic \in Pics
      <4>1. CASE Waiting = mDisplayWork
        BY <4>1 DEF FramesInv
      <4>2. CASE out = "pop"
        <5>1. mDisplayWork \in Seq(Frame) /\ mDisplayWork # <<>> /\ Waiting = Tail(mDisplayWork)
          BY <4>2 DEF Waiting, PlayerInv, TypeInv, TypeOK, FrameInHand
        <5>2. \A k \in DOMAIN Waiting : k + 1 \in DOMAIN mDisplayWork /\ Waiting[k] = mDisplayWork[k + 1]
          BY <5>1, TailHoldsNoOther
        <5>3. QED
          BY <5>2 DEF FramesInv
      <4>3. QED
        BY <4>1, <4>2 DEF Waiting
    <3>3. ASSUME NEW p \in Pics' \ stale' PROVE Owned(Waiting', gen', decFree', p)
      <4>1. CASE p = made
        <5>1. made \notin Pics /\ gen \in Nat
          BY <3>1 DEF Pics, PlayerInv, TypeInv, TypeOK
        <5>2. \A k \in DOMAIN Waiting : ~ (Waiting[k].gen = gen /\ Waiting[k].pic = p)
          BY <3>2, <4>1, <5>1
        <5>3. QED
          BY <3>1, <4>1, <5>2 DEF Owned
      <4>2. CASE p # made
        <5>1. p \in Pics \ stale
          BY <3>1, <3>3, <4>2 DEF Pics
        <5>2. Owned(Waiting, gen, decFree, p)
          BY <5>1, ConservedIsOwned
        <5>3. p \in decFree' <=> p \in decFree
          BY <3>1, <4>2
        <5>4. QED
          BY <3>1, <5>2, <5>3 DEF Owned
      <4>3. QED
        BY <4>1, <4>2
    <3>4. QED
      BY <1>0, <3>3
  <2>4. QED
    BY <1>6, <2>1, <2>2, <2>3 DEF FormatChanged
<1>7. CASE SpuriousWakeup \/ InputDone \/ FrameDropped \/ FlushDone \/ UNCHANGED vars
  <2>1. PicturesRest
    BY <1>7 DEF PicturesRest, Waiting, SpuriousWakeup, InputDone, OnInputBufferDone,
       FrameDropped, DropFrame, FlushDone, OnFlushDone, Notified, vars
  <2>2. QED
    BY <1>1, <2>1
<1>8. QED
  BY <1>2, <1>3, <1>4, <1>5, <1>6, <1>7, StepCases DEF CallbackStep, OutStep

\* Whatever the decoder awaits before it changes the format, a picture it was given
\* has one owner for as long as no frame of an older format hands its number back.
THEOREM PicturesHaveOneOwner == Spec => []PicturesConserved
<1>1. Init => PicturesConserved /\ FramesInv
  BY DEF Init, PicturesConserved, FramesInv, Pics
<1>2. PlayerInv => TypeInv
  BY DEF PlayerInv
<1>3. PlayerInv /\ FramesInv /\ PicturesConserved /\ [Next]_vars
        => FramesInv' /\ PicturesConserved'
  BY <1>2, FramesStep, PictureStep
<1>4. QED
  BY <1>1, <1>3, PlayerInvariant, PTL DEF Spec

(***************************************************************************)
(* The mappings of the pictures, whatever the decoder awaits.              *)
(***************************************************************************)

Mapping == [gen : 1 .. MaxChanges, pic : 0 .. MaxPics - 1]

\* The steps that touch neither the mappings nor the waiting frames.
MappingsRest == UNCHANGED <<mMmapAddr, made, gen, mDisplayWork>>

\* A change of the format keeps the mappings there are, and each picture created
\* adds its own behind them.
LEMMA MappingsAdded ==
  ASSUME TypeInv, MappingInv, FormatChanged
  PROVE  MappingInv'
<1> USE DEF TypeInv, TypeOK, outVars
<1>1. CASE \E n \in 1 .. MaxPics : OnOutputFormatChanged(n)
  <2>1. /\ gen' = gen + 1 /\ gen \in Nat /\ made' = 0 /\ Pics' = {}
        /\ UNCHANGED <<mMmapAddr, mDisplayWork>>
        /\ gen = 0 => made = 0
    BY <1>1 DEF OnOutputFormatChanged, Pics, NoEarlyPics
  <2>2. Len(mMmapAddr) \in Nat
    BY LenProperties
  <2>3. \A k \in DOMAIN mDisplayWork' : Mapped(mDisplayWork[k])'
    BY <2>1 DEF MappingInv, Mapped
  <2>4. QED
    BY <2>1, <2>2, <2>3 DEF MappingInv
<1>2. CASE SetWidth \/ SetHeight
  BY <1>2 DEF SetWidth, SetHeight, MappingInv, Mapped, Pics
<1>3. CASE CreatePicture
  <2> DEFINE added == [gen |-> gen, pic |-> made]
  <2>1. /\ gen \in 1 .. MaxChanges /\ made \in 0 .. MaxPics - 1
        /\ mMmapAddr \in Seq(Mapping) /\ mMmapAddr' = Append(mMmapAddr, added)
        /\ mDisplayWork' = mDisplayWork /\ gen' = gen /\ made' = made + 1
    BY <1>3 DEF CreatePicture, NoEarlyPics, Mapping
  <2>2. added \in Mapping
    BY <2>1 DEF Mapping
  <2>3. added.gen = gen /\ added.pic = made
    OBVIOUS
  <2> HIDE DEF added
  <2>4. /\ Len(mMmapAddr) \in Nat /\ Len(mMmapAddr') = Len(mMmapAddr) + 1
        /\ DOMAIN mMmapAddr = 1 .. Len(mMmapAddr) /\ DOMAIN mMmapAddr' = 1 .. Len(mMmapAddr) + 1
        /\ mMmapAddr'[Len(mMmapAddr) + 1] = added
        /\ \A k \in 1 .. Len(mMmapAddr) : mMmapAddr'[k] = mMmapAddr[k]
    BY <2>1, <2>2, AppendProperties, LenProperties
  <2>5. ASSUME NEW k \in DOMAIN mDisplayWork PROVE Mapped(mDisplayWork[k])'
    <3>1. Mapped(mDisplayWork[k])
      BY DEF MappingInv
    <3>2. QED
      BY <2>1, <2>4, <3>1 DEF Mapped
  <2>6. ASSUME NEW p \in 0 .. made PROVE Mapped([pic |-> p, gen |-> gen])'
    <3>1. CASE p < made
      <4>1. Mapped([pic |-> p, gen |-> gen])
        BY <2>1, <3>1 DEF MappingInv, Pics
      <4>2. QED
        BY <2>1, <2>4, <4>1 DEF Mapped
    <3>2. CASE p = made
      <4>1. p + 1 \in DOMAIN mMmapAddr'
        <5>1. made <= Len(mMmapAddr)
          BY DEF MappingInv
        <5>2. QED
          BY <2>1, <2>4, <3>2, <5>1
      <4>2. ASSUME gen = 1 PROVE mMmapAddr'[p + 1] = [gen |-> 1, pic |-> p]
        <5>1. Len(mMmapAddr) = made
          BY <4>2 DEF MappingInv
        <5>2. QED
          BY <2>4, <3>2, <4>2, <5>1 DEF added
      <4>3. QED
        BY <2>1, <4>1, <4>2 DEF Mapped
    <3>3. QED
      BY <2>1, <3>1, <3>2
  <2>7. Pics' = 0 .. made
    BY <2>1 DEF Pics
  <2>8. QED
    BY <2>1, <2>4, <2>5, <2>6, <2>7 DEF MappingInv
<1>4. QED
  BY <1>1, <1>2, <1>3 DEF FormatChanged

LEMMA MappingStep == ASSUME TypeInv, MappingInv, [Next]_vars PROVE MappingInv'
<1> USE DEF GoTo, playVars, outVars, fmtVars, decVars, picVars
<1>1. ASSUME MappingsRest PROVE MappingInv'
  BY <1>1 DEF MappingsRest, MappingInv, Mapped, Pics
<1>2. CASE PlayStep
  BY <1>1, <1>2 DEF MappingsRest, PlayStep, CreateDecoder, InitDecoder, OpenInput, ReadFrame,
     ReadBadFrame, EndOfFile, StoreBuffer, QueueInput, RecordInput, Flush, CheckReady, Drain,
     StopOutput, Join, Destroy, DeleteDecoder, FreeBuffers
<1>3. CASE OutLoop \/ OutCheck \/ OutTake \/ OutDump \/ OutRow \/ OutDumped \/ OutReturn
  BY <1>1, <1>3 DEF MappingsRest, OutLoop, OutCheck, OutTake, OutDump, OutRow, OutDumped, OutReturn
<1>4. CASE OutPop
  <2>1. /\ UNCHANGED <<mMmapAddr, made, gen>>
        /\ mDisplayWork' = Tail(mDisplayWork) /\ mDisplayWork # <<>> /\ mDisplayWork \in Seq(Frame)
    BY <1>4 DEF OutPop, Popped, TypeInv, TypeOK, FrameInHand
  <2>2. \A k \in DOMAIN mDisplayWork' :
          k + 1 \in DOMAIN mDisplayWork /\ mDisplayWork'[k] = mDisplayWork[k + 1]
    BY <2>1, TailHoldsNoOther
  <2>3. \A k \in DOMAIN mDisplayWork' : Mapped(mDisplayWork'[k])
    BY <2>2 DEF MappingInv
  <2>4. QED
    BY <2>1, <2>3 DEF MappingInv, Mapped, Pics
<1>5. CASE OutputDone
  <2>1. PICK i \in Ids, p \in Pics : OnOutputBufferDone(i, p)
    BY <1>5 DEF OutputDone
  <2> DEFINE frame == [id |-> i, pic |-> p, gen |-> gen]
  <2>2. /\ frame \in Frame /\ frame.pic = p /\ frame.gen = gen
        /\ mDisplayWork \in Seq(Frame)
        /\ mDisplayWork' = Append(mDisplayWork, frame)
    <3>1. gen \in 1 .. MaxChanges /\ p \in 0 .. MaxPics - 1
      BY <2>1 DEF TypeInv, TypeOK, NoEarlyPics, Pics
    <3>2. QED
      BY <2>1, <3>1 DEF OnOutputBufferDone, Pushed, TypeInv, TypeOK, Frame
  <2>3. UNCHANGED <<mMmapAddr, made, gen>>
    BY <2>1 DEF OnOutputBufferDone
  <2> HIDE DEF frame
  <2>4. \A k \in DOMAIN mDisplayWork' :
          \/ k \in DOMAIN mDisplayWork /\ mDisplayWork'[k] = mDisplayWork[k]
          \/ mDisplayWork'[k] = frame
    BY <2>2, AppendProperties, LenProperties
  <2>5. Mapped(frame)
    <3>1. Mapped([pic |-> p, gen |-> gen])
      BY DEF MappingInv
    <3>2. QED
      BY <2>2, <3>1 DEF Mapped
  <2>6. \A k \in DOMAIN mDisplayWork' : Mapped(mDisplayWork'[k])
    BY <2>4, <2>5 DEF MappingInv
  <2>7. QED
    BY <2>3, <2>6 DEF MappingInv, Mapped, Pics
<1>6. CASE FormatChanged
  BY <1>6, MappingsAdded
<1>7. CASE SpuriousWakeup \/ InputDone \/ FrameDropped \/ FlushDone \/ UNCHANGED vars
  BY <1>1, <1>7 DEF MappingsRest, SpuriousWakeup, InputDone, OnInputBufferDone,
     FrameDropped, DropFrame, FlushDone, OnFlushDone, vars
<1>8. QED
  BY <1>2, <1>3, <1>4, <1>5, <1>6, <1>7, StepCases DEF CallbackStep, OutStep

\* outputBuffer() never looks for a mapping beyond the end of mMmapAddr, and finds
\* the right one for every frame of the first format, however often the format
\* changes while the frame waits.
THEOREM MappingsFound == Spec => []LookupInBounds
<1>1. Init => MappingInv
  BY DEF Init, MappingInv, Pics
<1>2. TypeInv /\ MappingInv => LookupInBounds
  <2> SUFFICES ASSUME TypeInv, MappingInv, out = "dump" PROVE Mapped(Head(mDisplayWork))
    BY DEF LookupInBounds
  <2>1. mDisplayWork # <<>> /\ mDisplayWork \in Seq(Frame)
    BY DEF TypeInv, TypeOK, FrameInHand
  <2>2. 1 \in DOMAIN mDisplayWork /\ Head(mDisplayWork) = mDisplayWork[1]
    BY <2>1, TailHoldsNoOther
  <2>3. QED
    BY <2>2 DEF MappingInv
<1>3. QED
  BY <1>1, <1>2, MappingStep, TypeCorrect, PTL DEF Spec

\* A stream that keeps its format is dumped from the right mappings.
THEOREM OneFormatIsMapped == MaxChanges = 1 /\ Spec => []MappingIsCurrent
<1> SUFFICES ASSUME MaxChanges = 1 PROVE Spec => []MappingIsCurrent
  OBVIOUS
<1>1. TypeInv /\ LookupInBounds => MappingIsCurrent
  <2> SUFFICES ASSUME TypeInv, Mapped(Head(mDisplayWork)), out = "dump"
               PROVE  LET frame == Head(mDisplayWork)
                      IN  mMmapAddr[frame.pic + 1] = [gen |-> frame.gen, pic |-> frame.pic]
    BY DEF LookupInBounds, MappingIsCurrent
  <2>1. Head(mDisplayWork) \in Frame
    BY HeadIsFrame DEF TypeInv, FrameInHand
  <2>2. Head(mDisplayWork).gen = 1
    BY <2>1 DEF Frame
  <2>3. QED
    BY <2>2 DEF Mapped
<1>2. QED
  BY <1>1, MappingsFound, TypeCorrect, PTL

(***************************************************************************)
(* The waits of play().                                                    *)
(***************************************************************************)

\* mready is set and signalled under the lock that the test and the wait hold,
\* and the output thread is started before the first wait.
LEMMA WaitStep == ASSUME WaitInv, [Next]_vars PROVE WaitInv'
<1> USE DEF WaitInv, WaitsAreAnswered, Reading, playVars, outVars, fmtVars, decVars, picVars
<1>1. CASE CreateDecoder \/ InitDecoder \/ OpenInput \/ ReadFrame \/ ReadBadFrame
           \/ EndOfFile \/ StoreBuffer \/ QueueInput \/ RecordInput
  BY <1>1 DEF GoTo, CreateDecoder, InitDecoder, OpenInput, ReadFrame, ReadBadFrame,
     EndOfFile, StoreBuffer, QueueInput, RecordInput
<1>2. CASE Flush \/ CheckReady \/ Drain \/ StopOutput \/ Join \/ Destroy \/ DeleteDecoder \/ FreeBuffers
  BY <1>2 DEF GoTo, Flush, CheckReady, Drain, StopOutput, Join, Destroy, DeleteDecoder, FreeBuffers
<1>3. CASE OutLoop \/ OutCheck \/ OutTake \/ OutDump \/ OutRow \/ OutDumped \/ OutReturn \/ OutPop
  <2>1. UNCHANGED <<play, running, mready, dec>>
    BY <1>3 DEF OutLoop, OutCheck, OutTake, OutDump, OutRow, OutDumped, OutReturn, OutPop
  <2>2. out # "idle" /\ out' # "idle" /\ (out' = "done" => ~ running)
    BY <1>3 DEF OutLoop, OutCheck, OutTake, OutDump, OutRow, OutDumped, OutReturn, OutPop, OpenOutput, Opening
  <2>3. QED
    BY <2>1, <2>2
<1>4. CASE OutputDone \/ InputDone \/ FormatChanged \/ FrameDropped \/ UNCHANGED vars
  <2>1. UNCHANGED <<play, out, running, mready, dec>>
    BY <1>4 DEF OutputDone, OnOutputBufferDone, InputDone, OnInputBufferDone, FormatChanged,
       OnOutputFormatChanged, SetWidth, SetHeight, CreatePicture, FrameDropped, DropFrame, vars
  <2>2. QED
    BY <2>1
<1>5. CASE SpuriousWakeup \/ FlushDone
  BY <1>5 DEF GoTo, SpuriousWakeup, FlushDone, OnFlushDone, Notified, FlushedLockFree
<1>6. QED
  BY <1>1, <1>2, <1>3, <1>4, <1>5, StepCases DEF CallbackStep, PlayStep, OutStep

\* The signal of onFlushDone() is never lost, and play() waits for no thread that
\* is not there: its only wait without an answer is the one with a decoder whose
\* initialisation failed.
THEOREM NoWaitIsForgotten == Spec => []WaitsAreAnswered
<1>1. Init => WaitInv
  BY DEF Init, WaitInv, WaitsAreAnswered, Reading
<1>2. WaitInv => WaitsAreAnswered
  BY DEF WaitInv
<1>3. QED
  BY <1>1, <1>2, WaitStep, PTL DEF Spec

(***************************************************************************)
(* The player as the process sees it.                                      *)
(***************************************************************************)

LEMMA LifeStep == ASSUME PlayerInv, [Next]_vars PROVE [ToProcess!Next]_Life
<1> USE DEF GoTo, playVars, outVars, fmtVars, decVars, picVars
<1>1. FlushInv
  BY DEF PlayerInv
<1>2. CASE CreateDecoder \/ InitDecoder \/ OpenInput
  BY <1>2 DEF CreateDecoder, InitDecoder, OpenInput, Life, ToProcess!Next, ToProcess!Moves
<1>3. CASE ReadBadFrame
  BY <1>3 DEF ReadBadFrame, Life, ToProcess!Next, ToProcess!Moves
<1>4. CASE \/ ReadFrame \/ EndOfFile \/ StoreBuffer \/ QueueInput \/ RecordInput
           \/ Flush \/ CheckReady \/ Drain \/ StopOutput \/ Join
  BY <1>4 DEF ReadFrame, EndOfFile, StoreBuffer, QueueInput, RecordInput, Flush,
     CheckReady, Drain, StopOutput, Join, Life
<1>5. CASE Destroy \/ DeleteDecoder \/ FreeBuffers
  BY <1>1, <1>5 DEF Destroy, DeleteDecoder, FreeBuffers, FlushInv, Life, ToProcess!Next, ToProcess!Moves
<1>6. CASE OutStep \/ OutputDone \/ InputDone \/ FormatChanged \/ FrameDropped \/ UNCHANGED vars
  <2>1. UNCHANGED <<play, dec>>
    BY <1>6 DEF OutStep, OutLoop, OutCheck, OutTake, OutDump, OutRow, OutDumped, OutReturn, OutPop,
       OutputDone, OnOutputBufferDone, InputDone, OnInputBufferDone,
       FormatChanged, OnOutputFormatChanged, SetWidth, SetHeight, CreatePicture, FrameDropped, DropFrame, vars
  <2>2. QED
    BY <2>1 DEF Life
<1>7. CASE SpuriousWakeup \/ FlushDone
  BY <1>7 DEF SpuriousWakeup, FlushDone, OnFlushDone, Notified, Life
<1>8. QED
  BY <1>2, <1>3, <1>4, <1>5, <1>6, <1>7, StepCases DEF CallbackStep, PlayStep

\* A player with all its threads implements PlayerLife, the player that the
\* process of EsMain runs.
THEOREM ImplementsPlayerLife == Spec => LivesAsPlayer
<1>1. Init => ToProcess!Init
  BY DEF Init, ToProcess!Init, Life
<1>2. PlayerInv /\ [Next]_vars => [ToProcess!Next]_Life
  BY LifeStep
<1>3. QED
  BY <1>1, <1>2, PlayerInvariant, PTL DEF Spec, LivesAsPlayer, ToProcess!Spec
=============================================================================
