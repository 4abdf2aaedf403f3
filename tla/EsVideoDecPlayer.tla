-------------------------- MODULE EsVideoDecPlayer --------------------------
(***************************************************************************)
(* One VideoDecPlayerExample object of example/EsVideoDecPlayer: the       *)
(* thread that runs play() (it reads frames from a file and queues them to *)
(* the decoder), the output thread that play() starts (it dumps decoded    *)
(* frames and hands their pictures back), and the callbacks the decoder    *)
(* makes from a thread of its own.                                         *)
(*                                                                         *)
(* The decoder (AmVideoDecBase) is a prebuilt library: what it may do is   *)
(* modelled from the calls and callbacks of the player, in the section     *)
(* "the decoder".  Accesses to the standard containers are taken to be     *)
(* atomic, also the ones the code makes without a lock; a callback that    *)
(* changes several members without a lock does so in several steps.        *)
(***************************************************************************)
EXTENDS Integers, Sequences, FiniteSets

CONSTANTS
  MaxFrames,        \* bound: frames the input file may hold
  QueueCount,       \* input buffers the decoder takes at a time (kDefaultQueueCount)
  MaxPics,          \* bound: output pictures one format may ask for
  MaxChanges,       \* bound: output formats the stream goes through
  KernelUvm,        \* the kernel is version 5 or later: uvm buffers, else ion
  AwaitsReturn,     \* restricts the decoder: it changes format only when it owns
                    \* every picture (FALSE: also while frames wait to be dumped)
  WithOutput,       \* an output file is asked for (-o)
  Faults            \* what the environment may let fail

FaultKinds == {"create", "init", "input", "frame", "reject", "yuv", "crc"}

ASSUME MaxFramesAssumption  == MaxFrames \in Nat
ASSUME QueueCountAssumption == QueueCount \in Nat \ {0}
ASSUME MaxPicsAssumption    == MaxPics \in Nat \ {0}
ASSUME MaxChangesAssumption == MaxChanges \in Nat \ {0}
ASSUME FlagsAssumption      == /\ KernelUvm \in BOOLEAN
                               /\ AwaitsReturn \in BOOLEAN
                               /\ WithOutput \in BOOLEAN
ASSUME FaultsAssumption     == Faults \subseteq FaultKinds

VARIABLES
  play,             \* where the thread of play() is
  out,              \* where the output thread is
  running,          \* the flag that keeps the output thread going
  mready,           \* the decoder has reported the end of the flush
  mbitstreamId,     \* the id of the next input frame
  mInputBuffer,     \* per id: no entry, the buffer, or a null pointer
  heap,             \* per id: what became of the malloc-ed buffer
  mInputWork,       \* ids with a timestamp (the timestamp itself is always 0)
  mDisplayWork,     \* frames that wait for the output thread
  dumped,           \* ids in the order in which they were dumped
  files,            \* the output files that are open
  mOutputBufferNum, \* pictures of the present format
  mMmapAddr,        \* the mappings of all pictures ever allocated
  mBufferWidth,     \* the format the width of the buffers was set for
  mBufferHeight,    \* the format the height of the buffers was set for
  gen,              \* the number of the present output format
  format,           \* where onOutputFormatChanged() is
  made,             \* pictures of the present format created so far
  dec,              \* what the decoder was told last
  fate,             \* per id: what the decoder did with the frame
  decHeld,          \* input buffers in the decoder's hands
  decFree           \* pictures in the decoder's hands

\* What no code reads, kept for the properties.
VARIABLES
  used,             \* formats whose width and height the dump in hand was made with
  stale             \* picture numbers handed back by frames of an older format

playVars == <<mready, mbitstreamId, mInputBuffer, heap, mInputWork>>
outVars  == <<mDisplayWork, dumped, files, used>>
fmtVars  == <<mOutputBufferNum, mMmapAddr, mBufferWidth, mBufferHeight, gen, format, made>>
picVars  == <<decFree, stale>>
decVars  == <<dec, fate, decHeld, picVars>>
vars == <<play, out, running, playVars, outVars, fmtVars, decVars>>

Ids  == 0 .. MaxFrames - 1
Pics == 0 .. made - 1

\* free() of a malloc-ed buffer
Freed(state) == IF state = "live" THEN "freed" ELSE "twice"

DecoderActive == dec \in {"ready", "flushing"}
\* mOutputLock is held by outputBuffer() from the front() to its return
OutputLockFree == out \notin {"dump", "rows", "return", "pop"}
\* play() keeps mFlushedLock from the wait for the flush to its own return
FlushedLockFree == play \notin {"drain", "stop", "join", "destroy"}

Init ==
  /\ play = "construct"
  /\ out = "idle"
  /\ running = FALSE
  /\ mready = FALSE
  /\ mbitstreamId = 0
  /\ mInputBuffer = [i \in Ids |-> "absent"]
  /\ heap = [i \in Ids |-> "none"]
  /\ mInputWork = {}
  /\ mDisplayWork = <<>>
  /\ dumped = <<>>
  /\ files = "none"
  /\ mOutputBufferNum = 0
  /\ mMmapAddr = <<>>
  /\ mBufferWidth = 0
  /\ mBufferHeight = 0
  /\ gen = 0
  /\ format = "idle"
  /\ made = 0
  /\ dec = "none"
  /\ fate = [i \in Ids |-> "none"]
  /\ decHeld = {}
  /\ decFree = {}
  /\ used = {}
  /\ stale = {}

-----------------------------------------------------------------------------
(* The thread of main() that constructs the player, calls init() and       *)
(* play(), and destroys the player.                                        *)

GoTo(from, to) == play = from /\ play' = to

\* Without the library the pointer stays null, and init() calls through it.
CreateDecoder ==
  /\ play = "construct"
  /\ \/ play' = "init" /\ dec' = "created"
     \/ "create" \in Faults /\ play' = "aborted" /\ dec' = dec
  /\ UNCHANGED <<out, running, playVars, outVars, fmtVars, fate, decHeld, picVars>>

\* init() reports a failure, which main() does not look at.
InitDecoder ==
  /\ GoTo("init", "open")
  /\ \/ dec' = "ready"
     \/ "init" \in Faults /\ dec' = "failed"
  /\ UNCHANGED <<out, running, playVars, outVars, fmtVars, fate, decHeld, picVars>>

OpenInput ==
  /\ play = "open"
  /\ \/ play' = "read" /\ out' = "loop" /\ running' = TRUE
     \/ "input" \in Faults /\ play' = "delete" /\ UNCHANGED <<out, running>>
  /\ UNCHANGED <<playVars, outVars, fmtVars, decVars>>

ReadFrame ==
  /\ GoTo("read", "store")
  /\ mbitstreamId < MaxFrames
  /\ heap' = [heap EXCEPT ![mbitstreamId] = "live"]
  /\ UNCHANGED <<out, running, mready, mbitstreamId, mInputBuffer, mInputWork,
                 outVars, fmtVars, decVars>>

\* An early return of play() destroys a std::thread nobody joined: terminate().
ReadBadFrame ==
  /\ GoTo("read", "aborted")
  /\ "frame" \in Faults
  /\ UNCHANGED <<out, running, playVars, outVars, fmtVars, decVars>>

EndOfFile ==
  /\ GoTo("read", "flush")
  /\ UNCHANGED <<out, running, playVars, outVars, fmtVars, decVars>>

StoreBuffer ==
  /\ GoTo("store", "queue")
  /\ mInputBuffer' = [mInputBuffer EXCEPT ![mbitstreamId] = "buf"]
  /\ UNCHANGED <<out, running, mready, mbitstreamId, heap, mInputWork,
                 outVars, fmtVars, decVars>>

\* The loop over queueInputBuffer: EAGAIN, a full decoder, is retried for
\* ever; any other error is taken for success.
QueueInput ==
  /\ GoTo("queue", "record")
  /\ \/ /\ dec = "ready"
        /\ Cardinality(decHeld) < QueueCount
        /\ fate' = [fate EXCEPT ![mbitstreamId] = "queued"]
        /\ decHeld' = decHeld \cup {mbitstreamId}
     \/ /\ dec = "failed" \/ "reject" \in Faults
        /\ fate' = [fate EXCEPT ![mbitstreamId] = "rejected"]
        /\ UNCHANGED decHeld
  /\ UNCHANGED <<out, running, playVars, outVars, fmtVars, dec, picVars>>

RecordInput ==
  /\ GoTo("record", "read")
  /\ mInputWork' = mInputWork \cup {mbitstreamId}
  /\ mbitstreamId' = mbitstreamId + 1
  /\ UNCHANGED <<out, running, mready, mInputBuffer, heap, outVars, fmtVars, decVars>>

Flush ==
  /\ GoTo("flush", "check")
  /\ dec' = IF dec = "ready" THEN "flushing" ELSE dec
  /\ UNCHANGED <<out, running, playVars, outVars, fmtVars, fate, decHeld, picVars>>

\* The test of mready; wait() gives mFlushedLock up in the same step.
CheckReady ==
  /\ play = "check"
  /\ play' = IF mready THEN "drain" ELSE "wait"
  /\ UNCHANGED <<out, running, playVars, outVars, fmtVars, decVars>>

WakeupUnchecked ==
  /\ GoTo("wait", "drain")
  /\ UNCHANGED <<out, running, playVars, outVars, fmtVars, decVars>>

SpuriousWakeup ==
  /\ GoTo("wait", "check")
  /\ UNCHANGED <<out, running, playVars, outVars, fmtVars, decVars>>

NotDrained == TRUE
Drained == mDisplayWork = <<>>

Drain ==
  /\ GoTo("drain", "stop")
  /\ Drained
  /\ UNCHANGED <<out, running, playVars, outVars, fmtVars, decVars>>

StopOutput ==
  /\ GoTo("stop", "join")
  /\ running' = FALSE
  /\ UNCHANGED <<out, playVars, outVars, fmtVars, decVars>>

Detached == TRUE
Joined == out = "done"

Join ==
  /\ GoTo("join", "destroy")
  /\ Joined
  /\ UNCHANGED <<out, running, playVars, outVars, fmtVars, decVars>>

Destroy ==
  /\ GoTo("destroy", "delete")
  /\ dec' = "destroyed"
  /\ UNCHANGED <<out, running, playVars, outVars, fmtVars, fate, decHeld, picVars>>

DeleteDecoder ==
  /\ GoTo("delete", "free")
  /\ dec' = "deleted"
  /\ UNCHANGED <<out, running, playVars, outVars, fmtVars, fate, decHeld, picVars>>

FreeBuffers ==
  /\ GoTo("free", "exited")
  /\ heap' = [i \in Ids |-> IF mInputBuffer[i] = "buf" THEN Freed(heap[i]) ELSE heap[i]]
  /\ mInputBuffer' = [i \in Ids |-> IF mInputBuffer[i] = "absent" THEN "absent" ELSE "null"]
  /\ UNCHANGED <<out, running, mready, mbitstreamId, mInputWork,
                 outVars, fmtVars, decVars>>

PlayStep ==
  \/ CreateDecoder \/ InitDecoder \/ OpenInput
  \/ ReadFrame \/ ReadBadFrame \/ EndOfFile
  \/ StoreBuffer \/ QueueInput \/ RecordInput
  \/ Flush \/ CheckReady \/ Drain \/ StopOutput \/ Join
  \/ Destroy \/ DeleteDecoder \/ FreeBuffers

-----------------------------------------------------------------------------
(* The output thread: while (running) outputBuffer(oname, num).            *)

OutLoop ==
  /\ out = "loop"
  /\ out' = IF running THEN "check" ELSE "done"
  /\ UNCHANGED <<play, running, playVars, outVars, fmtVars, decVars>>

\* empty() is called without the lock.
OutCheck ==
  /\ out = "check"
  /\ out' = IF mDisplayWork = <<>> THEN "loop" ELSE "take"
  /\ UNCHANGED <<play, running, playVars, outVars, fmtVars, decVars>>

\* What opening the output files comes to.  A file that cannot be opened
\* leaves the function with the frame still in the queue; an open YUV file
\* is not opened again, so that after a failure of the CRC file the next
\* call goes on without it.
Opening(f, to) == [files |-> f, to |-> to]

DumpAnyway ==
  {Opening("both", "dump")} \cup {Opening("none", "dump") : k \in Faults \cap {"yuv"}}

OpenOutput ==
  IF WithOutput /\ files = "none"
  THEN {Opening("both", "dump")}
         \cup {Opening("none", "loop") : k \in Faults \cap {"yuv"}}
         \cup {Opening("yuv", "loop") : k \in Faults \cap {"crc"}}
  ELSE {Opening(files, "dump")}

\* The lock, front() and the output files.
OutTake ==
  /\ out = "take"
  /\ \E o \in OpenOutput : files' = o.files /\ out' = o.to
  /\ UNCHANGED <<play, running, playVars, mDisplayWork, dumped, used, fmtVars, decVars>>

\* The address of the picture, and y_size from mBufferHeight and mBufferWidth.
OutDump ==
  /\ out = "dump"
  /\ out' = "rows"
  /\ used' = {mBufferWidth, mBufferHeight}
  /\ UNCHANGED <<play, running, playVars, mDisplayWork, dumped, files, fmtVars, decVars>>

\* A row, for which mBufferWidth is read again; mOutputLock is not the lock of
\* onOutputFormatChanged(), which has none.
OutRow ==
  /\ out = "rows"
  /\ files # "none"
  /\ used' = used \cup {mBufferWidth}
  /\ UNCHANGED <<play, out, running, playVars, mDisplayWork, dumped, files, fmtVars, decVars>>

OutDumped ==
  /\ out = "rows"
  /\ out' = "return"
  /\ dumped' = Append(dumped, Head(mDisplayWork).id)
  /\ used' = {}
  /\ UNCHANGED <<play, running, playVars, mDisplayWork, files, fmtVars, decVars>>

\* The decoder takes the number for a picture of the present format, if it has
\* one of that number.
OutReturn ==
  /\ out = "return"
  /\ out' = "pop"
  /\ decFree' = decFree \cup ({Head(mDisplayWork).pic} \cap Pics)
  /\ stale' = IF Head(mDisplayWork).gen = gen THEN stale
              ELSE stale \cup {Head(mDisplayWork).pic}
  /\ UNCHANGED <<play, running, playVars, outVars, fmtVars, dec, fate, decHeld>>

NotPopped == mDisplayWork
Popped == Tail(mDisplayWork)

OutPop ==
  /\ out = "pop"
  /\ out' = "loop"
  /\ mDisplayWork' = Popped
  /\ UNCHANGED <<play, running, playVars, dumped, files, used, fmtVars, decVars>>

OutStep ==
  /\ play # "aborted"
  /\ \/ OutLoop \/ OutCheck \/ OutTake
     \/ OutDump \/ OutRow \/ OutDumped
     \/ OutReturn \/ OutPop

-----------------------------------------------------------------------------
(* The decoder, and the callbacks it makes.                                *)

\* Frames the decoder still owes.
decIn == {i \in Ids : fate[i] = "queued"}

\* onOutputFormatChanged(), without a lock: the buffers of the old format are
\* freed, which the decoder then has none of.  A change begins when the one
\* before it has returned.
OnOutputFormatChanged(n) ==
  /\ format = "idle"
  /\ DecoderActive
  /\ gen < MaxChanges
  /\ decIn # {}
  /\ AwaitsReturn => decFree = Pics
  /\ gen' = gen + 1
  /\ mOutputBufferNum' = n
  /\ made' = 0
  /\ decFree' = {}
  /\ stale' = {}
  /\ format' = IF KernelUvm THEN "width" ELSE "pictures"
  /\ UNCHANGED <<play, out, running, playVars, outVars, mMmapAddr, mBufferWidth,
                 mBufferHeight, dec, fate, decHeld>>

\* mBufferWidth and mBufferHeight are set for uvm buffers alone.
FirstStrideKept == IF mBufferWidth = 0 THEN gen ELSE mBufferWidth
NewStride == gen

SetWidth ==
  /\ format = "width"
  /\ format' = "height"
  /\ mBufferWidth' = NewStride
  /\ UNCHANGED <<play, out, running, playVars, outVars, mOutputBufferNum, mMmapAddr,
                 mBufferHeight, gen, made, decVars>>

SetHeight ==
  /\ format = "height"
  /\ format' = "pictures"
  /\ mBufferHeight' = gen
  /\ UNCHANGED <<play, out, running, playVars, outVars, mOutputBufferNum, mMmapAddr,
                 mBufferWidth, gen, made, decVars>>

OneTooMany == made + 1 <= mOutputBufferNum
MorePictures == made + 1 < mOutputBufferNum

\* One turn of the loop over the pictures, which the decoder has from
\* createOutputBuffer() on.  mMmapAddr only grows.
CreatePicture ==
  /\ format = "pictures"
  /\ format' = IF MorePictures THEN "pictures" ELSE "idle"
  /\ made' = made + 1
  /\ mMmapAddr' = Append(mMmapAddr, [gen |-> gen, pic |-> made])
  /\ decFree' = decFree \cup {made}
  /\ UNCHANGED <<play, out, running, playVars, outVars, mOutputBufferNum, mBufferWidth,
                 mBufferHeight, gen, dec, fate, decHeld, stale>>

PushedInFront(frame) == <<frame>> \o mDisplayWork
Pushed(frame) == Append(mDisplayWork, frame)

WorkKept(i) == mInputWork
WorkErased(i) == mInputWork \ {i}

\* A frame may come back before play() has recorded its id in mInputWork.
OnOutputBufferDone(i, p) ==
  /\ DecoderActive
  /\ OutputLockFree
  /\ i \in decIn
  /\ p \in decFree
  /\ mDisplayWork' = Pushed([id |-> i, pic |-> p, gen |-> gen])
  /\ mInputWork' = WorkErased(i)
  /\ fate' = [fate EXCEPT ![i] = IF i = mbitstreamId THEN "overtook" ELSE "shown"]
  /\ decFree' = decFree \ {p}
  /\ UNCHANGED <<play, out, running, mready, mbitstreamId, mInputBuffer, heap,
                 dumped, files, used, fmtVars, dec, decHeld, stale>>

\* A frame the decoder cannot decode, or skips, is never reported.
DropFrame(i) ==
  /\ DecoderActive
  /\ i \in decIn
  /\ fate' = [fate EXCEPT ![i] = "dropped"]
  /\ UNCHANGED <<play, out, running, playVars, outVars, fmtVars, dec, decHeld, picVars>>

FreeWithoutErase(i) == [entry |-> "buf", memory |-> Freed(heap[i])]
FreeThenErase(i) == [entry |-> "absent", memory |-> Freed(heap[i])]

\* The entry is erased before it is looked up again: free() gets the null
\* pointer the lookup inserts, and the entry stays.
EraseThenFree(i) == [entry |-> "null", memory |-> heap[i]]

OnInputBufferDone(i) ==
  /\ DecoderActive
  /\ i \in decHeld
  /\ decHeld' = decHeld \ {i}
  /\ mInputBuffer' = [mInputBuffer EXCEPT ![i] = EraseThenFree(i).entry]
  /\ heap' = [heap EXCEPT ![i] = EraseThenFree(i).memory]
  /\ UNCHANGED <<play, out, running, mready, mbitstreamId, mInputWork,
                 outVars, fmtVars, dec, fate, picVars>>

NotNotified == play
Notified == IF play = "wait" THEN "check" ELSE play

\* The flush is answered when the decoder has nothing left to do.
OnFlushDone ==
  /\ dec = "flushing"
  /\ decIn = {}
  /\ format = "idle"
  /\ FlushedLockFree
  /\ ~ mready
  /\ mready' = TRUE
  /\ play' = Notified
  /\ UNCHANGED <<out, running, mbitstreamId, mInputBuffer, heap, mInputWork,
                 outVars, fmtVars, decVars>>

OutputDone == play # "aborted" /\ \E i \in Ids, p \in Pics : OnOutputBufferDone(i, p)
InputDone  == play # "aborted" /\ \E i \in Ids : OnInputBufferDone(i)
FormatChanged ==
  /\ play # "aborted"
  /\ \/ \E n \in 1 .. MaxPics : OnOutputFormatChanged(n)
     \/ SetWidth \/ SetHeight \/ CreatePicture
FrameDropped  == play # "aborted" /\ \E i \in Ids : DropFrame(i)
FlushDone  == play # "aborted" /\ OnFlushDone

-----------------------------------------------------------------------------
Terminated ==
  /\ play \in {"exited", "aborted"}
  /\ UNCHANGED vars

Next ==
  \/ PlayStep \/ SpuriousWakeup \/ OutStep
  \/ OutputDone \/ InputDone \/ FormatChanged \/ FrameDropped \/ FlushDone
  \/ Terminated

Spec == Init /\ [][Next]_vars

\* Both threads are scheduled; the decoder returns what it was given, asks
\* for its first pictures, and answers the flush; a change of the format that
\* has begun goes on to its end.
Fairness ==
  /\ WF_vars(PlayStep)
  /\ WF_vars(OutStep)
  /\ WF_vars(OutputDone)
  /\ WF_vars(InputDone)
  /\ WF_vars((gen = 0 \/ format # "idle") /\ FormatChanged)
  /\ WF_vars(FlushDone)

FairSpec == Spec /\ Fairness

-----------------------------------------------------------------------------
(* Properties.                                                             *)

PlayPC == {"construct", "init", "open", "read", "store", "queue", "record",
           "flush", "check", "wait", "drain", "stop", "join", "destroy",
           "delete", "free", "exited", "aborted"}
OutPC  == {"idle", "loop", "check", "take", "dump", "rows", "return", "pop", "done"}
FormatPC == {"idle", "width", "height", "pictures"}
Frame  == [id : Ids, pic : 0 .. MaxPics - 1, gen : 1 .. MaxChanges]

\* Every variable has its type: picture ids stay below the number of the
\* pictures of the present format, also those that come back from an older one.
TypeOK ==
  /\ play \in PlayPC
  /\ out \in OutPC
  /\ running \in BOOLEAN
  /\ mready \in BOOLEAN
  /\ mbitstreamId \in 0 .. MaxFrames
  /\ mInputBuffer \in [Ids -> {"absent", "buf", "null"}]
  /\ heap \in [Ids -> {"none", "live", "freed", "twice"}]
  /\ mInputWork \subseteq Ids
  /\ mDisplayWork \in Seq(Frame)
  /\ dumped \in Seq(Ids)
  /\ files \in {"none", "yuv", "both"}
  /\ mOutputBufferNum \in 0 .. MaxPics
  /\ mMmapAddr \in Seq([gen : 1 .. MaxChanges, pic : 0 .. MaxPics - 1])
  /\ mBufferWidth \in 0 .. MaxChanges
  /\ mBufferHeight \in 0 .. MaxChanges
  /\ gen \in 0 .. MaxChanges
  /\ format \in FormatPC
  /\ made \in 0 .. mOutputBufferNum
  /\ dec \in {"none", "created", "ready", "failed", "flushing", "destroyed", "deleted"}
  /\ fate \in [Ids -> {"none", "queued", "rejected", "shown", "overtook", "dropped"}]
  /\ decHeld \subseteq Ids
  /\ decFree \subseteq Pics
  /\ used \subseteq 0 .. MaxChanges
  /\ stale \subseteq 0 .. MaxPics - 1

\* The inductive strengthening of TypeOK: the output thread works on a frame
\* that is there, there are no pictures before the first format or before its
\* callback creates them, and the input frame in hand has an id.
FrameInHand == out \in {"take", "dump", "rows", "return", "pop"} => mDisplayWork # <<>>
NoEarlyPics ==
  /\ gen = 0 => mOutputBufferNum = 0 /\ format = "idle"
  /\ format # "idle" => made < mOutputBufferNum
  /\ format \in {"width", "height"} => made = 0
InputInHand == play \in {"store", "queue", "record"} => mbitstreamId < MaxFrames
TypeInv == TypeOK /\ FrameInHand /\ NoEarlyPics /\ InputInHand

\* No input buffer is freed twice, by onInputBufferDone() and by the
\* destructor, whatever the order of the callbacks.
HeapSafe == \A i \in Ids : heap[i] # "twice"

\* What is still allocated when the player is gone are exactly the buffers
\* the decoder had reported done: onInputBufferDone() drops its pointer to
\* them, and the destructor frees all the others.
LeakIsCompletedInputs ==
  play = "exited" =>
    \A i \in Ids :
      heap[i] = "live" <=> i < mbitstreamId /\ fate[i] # "rejected" /\ i \notin decHeld

\* The frames that wait and whose pictures were not handed back yet.
Waiting == IF out = "pop" THEN Tail(mDisplayWork) ELSE mDisplayWork

\* A picture of the present format is with the decoder or with one waiting frame,
\* never with both, with two or with none, unless a frame of an older format
\* handed the decoder its number since the format changed: no frame is decoded
\* into a picture that still waits to be dumped, and none is lost to the decoder.
WaitsAt(k, p) == k \in DOMAIN Waiting /\ Waiting[k].gen = gen /\ Waiting[k].pic = p

PicturesConserved ==
  \A p \in Pics \ stale :
    IF p \in decFree
    THEN \A k \in DOMAIN Waiting : ~ WaitsAt(k, p)
    ELSE \E k \in DOMAIN Waiting : \A l \in DOMAIN Waiting : WaitsAt(l, p) <=> l = k

\* When play() calls destroy(), and when the decoder is deleted after that,
\* the output thread has ended (or was never started): it does not call
\* queueOutputBuffer() on a decoder that is gone.
OutputThreadJoined == dec \in {"destroyed", "deleted"} => out \in {"idle", "done"}

\* A player that stops the output thread has dumped every frame it queued,
\* but for those the decoder rejected or did not decode.
NoFrameAbandoned ==
  play \in {"stop", "join", "destroy"} =>
    \A i \in Ids : i < mbitstreamId =>
      fate[i] \in {"rejected", "dropped"} \/ \E k \in DOMAIN dumped : dumped[k] = i

\* mInputWork keeps the entry of a frame that was shown only when the frame
\* came back before inputBuffer() had made the entry.
StaleWorkOnlyByOvertaking == \A i \in mInputWork : fate[i] # "shown"

\* With -o, no frame passes for dumped while there is no output file.
NoSilentDump == WithOutput /\ dumped # <<>> => files # "none"

\* No row of a frame is dumped with the width or the height of a format older
\* than the frame's: they are set before the decoder has the pictures.  They may
\* be newer, when the format changes while the frame waits or is dumped; a frame
\* dumped before the next change begins is dumped with its own throughout.
StrideMatchesFrame ==
  KernelUvm /\ out = "rows" => used \subseteq Head(mDisplayWork).gen .. gen

\* The mapping a frame is dumped from is that of the frame's picture.
MappingIsCurrent ==
  out = "dump" =>
    LET frame == Head(mDisplayWork)
    IN  mMmapAddr[frame.pic + 1] = [gen |-> frame.gen, pic |-> frame.pic]

\* The inductive strengthenings of the properties above, of which
\* EsVideoDecPlayerProofs shows that every step keeps them.

Begun(i)    == i < mbitstreamId \/ (i = mbitstreamId /\ play \in {"store", "queue", "record"})
Stored(i)   == i < mbitstreamId \/ (i = mbitstreamId /\ play \in {"queue", "record"})
Answered(i) == i < mbitstreamId \/ (i = mbitstreamId /\ play = "record")

\* The life of an input buffer, from malloc() to the destructor.
BufferInv ==
  /\ \A i \in Ids :
       IF Answered(i) THEN fate[i] # "none" ELSE fate[i] = "none" /\ i \notin decHeld
  /\ \A i \in Ids : fate[i] = "rejected" => i \notin decHeld
  /\ play # "exited" =>
       \A i \in Ids :
         /\ heap[i] = IF Begun(i) THEN "live" ELSE "none"
         /\ mInputBuffer[i] =
              IF ~ Stored(i) THEN "absent"
              ELSE IF Answered(i) /\ fate[i] # "rejected" /\ i \notin decHeld
                   THEN "null" ELSE "buf"
  /\ play \in {"free", "exited"} => dec = "deleted"
  /\ play = "exited" => HeapSafe /\ LeakIsCompletedInputs

\* The entry of a frame that was shown is gone, and stays away.
WorkInv ==
  /\ StaleWorkOnlyByOvertaking
  /\ \A i \in Ids : fate[i] = "shown" => i < mbitstreamId

\* The output thread runs between its start in play() and the join.
ThreadInv ==
  /\ play \in {"construct", "init", "open"} => out = "idle"
  /\ play \in {"destroy", "delete", "free", "exited"} => out \in {"idle", "done"}
  /\ dec \in {"destroyed", "deleted"} => play \in {"delete", "free", "exited"}

Holds(frames, i) == \E k \in DOMAIN frames : frames[k].id = i
IsWaiting(i) == Holds(mDisplayWork, i)
IsDumped(i) == \E k \in DOMAIN dumped : dumped[k] = i

\* A delivered frame waits until it is dumped, and only a delivered one does.
DeliveryInv ==
  /\ \A i \in Ids : fate[i] \in {"shown", "overtook"} => IsDumped(i) \/ IsWaiting(i)
  /\ \A i \in Ids : fate[i] \in {"none", "queued"} => ~ IsDumped(i) /\ ~ IsWaiting(i)
  /\ out \in {"return", "pop"} => IsDumped(Head(mDisplayWork).id)

\* The frames that wait and were not dumped, by their ids; play() has seen
\* that there are none, or never started the output thread.
IdsOf(frames) == [k \in DOMAIN frames |-> frames[k].id]
Undumped == IF out \in {"return", "pop"} THEN Tail(mDisplayWork) ELSE mDisplayWork
Closed == play \in {"stop", "join", "destroy", "delete", "free", "exited"}

\* The flush leaves the decoder with nothing to deliver, and play() goes on
\* to the stop when nothing waits.
FlushInv ==
  /\ play \in {"construct", "init"} => dec \in {"none", "created"}
  /\ play \in {"construct", "init", "open"} => decIn = {} /\ mDisplayWork = <<>>
  /\ mready => decIn = {} /\ dec \in {"flushing", "destroyed", "deleted"}
  /\ play \in {"drain", "stop", "join", "destroy"} => mready
  /\ Closed => decIn = {} /\ mDisplayWork = <<>>

\* Nothing is dumped, nor about to be, without an output file.
DumpInv ==
  WithOutput /\ (dumped # <<>> \/ out \in {"dump", "rows", "return", "pop"}) => files # "none"

\* Frames wait with a picture that was created, of the present format or of an
\* older one.
FramesInv ==
  \A k \in DOMAIN mDisplayWork :
    \/ mDisplayWork[k].gen < gen
    \/ mDisplayWork[k].gen = gen /\ mDisplayWork[k].pic \in Pics

\* The callback sets the width and the height before it creates the first
\* picture, so that no frame that waits is of a format newer than theirs.
StrideInv ==
  /\ KernelUvm =>
       /\ mBufferWidth = IF format = "width" THEN gen - 1 ELSE gen
       /\ mBufferHeight = IF format \in {"width", "height"} THEN gen - 1 ELSE gen
  /\ StrideMatchesFrame

\* No wait of play() is left without its answer: it waits for the flush only
\* while mready is not set, with a decoder that flushes (or was never made to
\* work, the one case in which the wait does not end); for the empty queue only
\* while the output thread is there to empty it; and in join() only for a thread
\* that was started and told to stop.
WaitsAreAnswered ==
  /\ play = "wait" => ~ mready /\ dec \in {"flushing", "failed"}
  /\ play = "drain" => running /\ out \notin {"idle", "done"}
  /\ play = "join" => ~ running /\ out # "idle"

\* The decoder works and the output thread runs for as long as play() reads.
Reading == {"read", "store", "queue", "record", "flush"}
WaitInv ==
  /\ play \in {"open"} \cup Reading => dec \in {"ready", "failed"}
  /\ play \in {"check", "wait"} => dec \in {"flushing", "failed"}
  /\ play \in Reading \cup {"check", "wait", "drain", "stop"} => running /\ out \notin {"idle", "done"}
  /\ WaitsAreAnswered

\* What holds of mMmapAddr in spite of its growing: the mapping of a frame that
\* is dumped is looked up within it, and found if the frame has the first format.
Mapped(frame) ==
  /\ frame.pic + 1 \in DOMAIN mMmapAddr
  /\ frame.gen = 1 => mMmapAddr[frame.pic + 1] = [gen |-> 1, pic |-> frame.pic]
LookupInBounds == out = "dump" => Mapped(Head(mDisplayWork))

MappingInv ==
  /\ made <= Len(mMmapAddr)
  /\ gen <= 1 => Len(mMmapAddr) = made
  /\ \A p \in Pics : Mapped([pic |-> p, gen |-> gen])
  /\ \A k \in DOMAIN mDisplayWork : Mapped(mDisplayWork[k])

\* Frames are dumped in the order in which the decoder delivered them, once
\* each, and the player stops only when none waits: FrameFifo is implemented.
Fifo == INSTANCE FrameFifo WITH
          Frame <- Ids, queue <- IdsOf(Undumped), dumped <- dumped, closed <- Closed
FramesInOrder == Fifo!Spec

\* What the process sees of the player.
Life ==
  CASE play \in {"construct", "init", "open"} -> "new"
    [] play \in {"delete", "free"} -> "leaving"
    [] play = "exited" -> "over"
    [] play = "aborted" -> "aborted"
    [] OTHER -> IF dec = "failed" THEN "dumb" ELSE "playing"

\* A player lives as PlayerLife says: it aborts the process only before
\* play() returns, and never returns once it plays with a decoder that was
\* not initialised.
ToProcess == INSTANCE PlayerLife WITH life <- Life
LivesAsPlayer == ToProcess!Spec

\* The player ends: it exits, or the whole process is aborted.
Termination == <>(play \in {"exited", "aborted"})

\* A frame the decoder delivered is dumped in the end.
DeliveredIsDumped ==
  \A i \in Ids : fate[i] \in {"shown", "overtook"} ~>
                  play = "aborted" \/ \E k \in DOMAIN dumped : dumped[k] = i
=============================================================================
