# Verification of the media HAL example players

This directory holds TLA+ specifications of the programs in this repository,
the TLC configurations that check them on small instances, and proofs, checked
by TLAPS, of what holds for every instance.

The repository ships the media HAL as headers (`prebuilt/noarch/include`) and
prebuilt libraries. Its own source code is the three example programs under
`example/`; those are what is specified here. A library appears only as the
environment of a program: as much of it as the program's calls and callbacks
show.

## 1. The system

### EsVideoDecPlayer

Plays an elementary stream through `AmVideoDecBase`. `main()` checks its options,
writes `1` to the sysfs switch `bypass_vpp`, starts one thread per player, joins
them, and writes `0`. A player (`VideoDecPlayerExample`) is run by three parties:

| party | what it does | state it changes |
|---|---|---|
| the thread of `play()` | reads frames, `malloc`s a buffer for each, queues it (`inputBuffer`), flushes, waits for the flush (`mFlushedLock`, `mFlushedCondition`), waits until the display queue is empty, stops and joins the output thread, destroys the decoder | `mInputBuffer`, `mInputWork`, `mbitstreamId`, `running` |
| the output thread | while `running`: takes the first frame of `mDisplayWork` under `mOutputLock`, opens the output files once, dumps the frame, hands the picture back, pops the frame | `mDisplayWork`, `moFp`, `mcFp` |
| the decoder's callbacks | allocate pictures (`onOutputFormatChanged`), deliver frames (`onOutputBufferDone`), report input buffers done (`onInputBufferDone`), report the flush done (`onFlushDone`) | all of the above, `mMmapAddr`, `mBufferWidth/Height`, `mready` |

`dumpData()` writes the rows of a picture to the YUV file and their checksums
(`crc32_gen`, a table of 256 words) to the CRC file.

What is hard: three threads and three locks that do not cover every access
(`mInputBuffer` and `mInputWork` are written under different locks or none); a
callback may overtake the code that expects it; files, frames and the decoder
may fail part way; an early return of `play()` destroys a joinable thread, which
aborts the process with every other player in it; the resolution may change
while frames of the old one wait; rows are read with a stride that is not the
width, by four loops written out apart.

What makes it correct: no buffer is freed twice; each picture has one owner;
each delivered frame is dumped, once, in order, from the right memory with the
right stride, also when the format changes meanwhile; the checksums are those of what was written; nothing is lost
between the flush, the display queue and the join; the decoder is not used after
`destroy()`; the player ends; the switch is set while a player lives; `main()`
ends last.

### AmTsPlayerMultiExample

Plays two transport streams at once. `main()` starts a thread per channel and
polls the keyboard; `0` and `1` choose the channel that is heard, `p r h s`
steer the video of the last channel, `q` quits. Each thread creates a session
of the `AmTsPlayer` library, stores its handle in the global `g_session`, writes
its file to it and releases it. `main()` and the threads share `run`, `mute` and
`g_session` without locks.

What is hard: every shared flag is written from two sides; keys arrive before a
session exists and after it is released; a thread may end early.

What makes it correct: one channel is heard; quitting ends every thread; no
session outlives `main()`; the program ends when its channels have ended; a
session is made, switched with its own parameters while it lives, and stopped
and released once.

### AmTsPlayerExample

Plays one stream: options, a session, a loop that writes the file and reads
keys, a SIGINT handler that stops and releases the session, and the on-screen
display blanked meanwhile.

What is hard: the handler may start at any point of `main()` and, since the
library has threads, may run on another one beside it; files may be missing or
empty; the end of the file is noticed one read late; the retry limit is dead
code; numbers on the command line are cast to enumerations of the library.

What makes it correct: however it ends, the display is back and the session is
released, and stopped before; where that happens twice, or something is called
after it, is known (section 2); the file is written whole; `q`, SIGINT and
the end of the file end it; the demultiplexer and the session agree about where
the stream comes from.

### The rest

`AmTsPlayer.h` and `AmVideoDecBase.h` declare the libraries the examples use:
modelled as environments, with the enumerations that the options stand for.
`MediaSyncInterface.h`, `render_lib.h`, `render_common.h`, `resourcemanage.h` and
`dmabufmanage.h` declare libraries that no code in the repository calls.
Makefiles and `version.txt` have no behaviour.

## 2. Modules

| module | models |
|---|---|
| `FrameFifo` | what a player promises of frames: a queue, in order, each dumped once, no close while one waits |
| `PlayerLife` | what the process sees of a player: new, playing or dumb, leaving, over or aborted |
| `EsVideoDecPlayer` | one player of EsVideoDecPlayer.cpp with its threads and callbacks, and the decoder around it; implements `FrameFifo` and `PlayerLife` |
| `EsMain` | `main()` of EsVideoDecPlayer.cpp, composed with one `PlayerLife` per player |
| `DumpData` | the loops of `dumpData()` and the memory they read |
| `Crc32` | `crc32_tab` and `crc32_gen`, beside the polynomial division they stand for, on words as functions of their bits |
| `DumpCrc` | `DumpData` with the bytes of the picture and the checksums of `Crc32` |
| `SessionLife` | what a program owes to a session of the library |
| `TsPlayerMulti` | `main()` and the channel threads of AmTsPlayerMultiExample.cpp; each channel implements `SessionLife` |
| `TsPlayerSingle` | `main()` and `signHandler()` of AmTsPlayerExample.cpp; implements `SessionLife` |
| `TsPlayerOptions` | the options of AmTsPlayerExample and what they configure |
| `MCEsVideoDecPlayer`, `MCEsMain`, `MCDumpData`, `MCTsPlayerMulti`, `MCTsPlayerSingle`, `MCTsPlayerOptions` | the sets TLC needs: failures, keys, files, sizes |
| `EsVideoDecPlayerProofs`, `EsMainProofs`, `DumpDataProofs`, `Crc32Proofs`, `DumpCrcProofs`, `TsPlayerMultiProofs`, `TsPlayerSingleProofs`, `TsPlayerOptionsProofs` | the theorems |

In a specification each thread has a program counter (`play`, `out`; `main`,
`thread[c]`, `handler[t]`), and an action is the code between two points at which
another thread could see or make a difference. Code that holds a lock throughout
is still cut where it calls the decoder or changes a second shared variable, and
the lock is the condition that keeps others out (`OutputLockFree`,
`FlushedLockFree`).

Some definitions stand beside a second one with the same parameters that no
action uses (`Joined` and `Detached`, `Popped` and `NotPopped`): the second is a
mistake one could make in that place of the code, and each property of the
passing runs is known to fail with one of them.

### EsVideoDecPlayer

* `play` follows the code from the constructor through `init()`, `play()` and the
  destructor. `aborted` is the end of the process: a null decoder called by
  `init()`, or a joinable thread destroyed by an early return of `play()`.
* `inputBuffer()` is three actions: the entry in `mInputBuffer` (`StoreBuffer`),
  the accepted or refused `queueInputBuffer()` (`QueueInput`; the retry on EAGAIN
  is the time it is not enabled), and the entry in `mInputWork` (`RecordInput`).
  Callbacks run between any two.
* `outputBuffer()` is `OutCheck` (the test without the lock), `OutTake` (lock and
  files), `OutDump` (the address and the start of the chroma), `OutRow` (a row, for
  which `mBufferWidth` is read again), `OutDumped`, `OutReturn` and `OutPop`.
* `onOutputFormatChanged()` holds no lock, so it is cut where it changes what
  others read: the old buffers go (`OnOutputFormatChanged`), then `SetWidth`,
  `SetHeight`, and `CreatePicture` for each picture. `mBufferWidth` and
  `mBufferHeight` stand for the format their value came from. Any step of the
  other threads may come between, a row of a dump among them.
* `heap`, `fate`, `dumped` and `gen` record what the code does not keep: the life
  of each buffer and frame, the order of dumps, the number of the format. `used`
  has the formats whose size the dump in hand was made with, and `stale` the
  numbers that frames of an older format have handed back.
* The decoder: it accepts a frame when it holds fewer than `QueueCount` buffers;
  delivers accepted frames in any order, each into a picture it owns, or drops
  them; gives each input buffer back at any time; may change the format while it
  has frames to deliver, also while frames of the old format wait or are dumped;
  makes the callback for one change after the other; ends a flush when it has
  nothing left; makes no callback after `destroy()`. A picture number handed back
  by a frame of an older format is taken for the picture of that number that the
  decoder now has, if any. `AwaitsReturn`, a decoder that changes the format only
  when all pictures are back, is a restriction that `es_mapping` alone makes, to
  show that its violation does not need a change at a bad moment. No theorem
  assumes it.
* Timestamps are always 0 in this program, so `mInputWork` is a set. Contents,
  names and logs are left out. `mOutputBufferPictureId`, `mmapBuf`, `out_flag`,
  `mDqWidth/Height`, `miFp` and `msFp` are read by nothing that is modelled here.
* Container accesses are atomic. The code has unlocked accesses to `mInputBuffer`,
  `mInputWork` and `mDisplayWork`; a data race on a standard container has no
  defined result, so what is shown here holds for executions in which the
  accesses themselves do not tear.

### EsMain

* The command line is four letters given or not, the count of words, `-f` and
  `-n`; a command line is refused in one step (`Refuse`), as the code returns
  before it has changed anything.
* A player is `PlayerLife`, not `EsVideoDecPlayer` itself: the players share no
  memory but the process, so what matters to `main()` is when one ends, that one
  may abort all, and that a player whose decoder was not initialised (`dumb`,
  since `init()`'s result is not looked at) may wait for its flush for ever.
  `LivesAsPlayer` states that `EsVideoDecPlayer` lives like that, and is proved.
* `lost` records the values that `sysfs_cmd_control()` could not write.

### DumpData, Crc32, DumpCrc

* A turn of a loop is `ReadRow`; what a loop has read is a sequence of pieces
  `[at, len]` of the picture. `files` says which files are open, which settles
  what `dumpData()` does.
* The size of the picture (`width`, `height`) is what `onOutputBufferDone()` was
  given (line 706); the stride, and the start of the chroma, are those that
  `onOutputFormatChanged()` set last (lines 664 and 665), and the memory is that of
  the format `buf`. The three are independent: a picture may be larger than its
  format, of an older format, or read while `SetWidth` and `SetHeight` set another
  one at any row. `mDqWidth` and `mDqHeight` are the sizes before they are aligned.
  `Fits` says when all three agree: no format was begun since the memory was
  allocated, and the picture is no larger than the format. `entered = gen`, in the
  properties about what is written, says that none was begun since the dump began.
* What `allocUvmBuffer()` allocates for a size is not in the repository; it is taken
  to be a 4:2:0 picture of that size. `imagesize` is only printed in that branch.
* A word of the checksum is a function from 0 .. 31 to its bits, so that the
  exclusive or of the code is a comparison of bits that the provers can follow.
  `crc32_tab` is the table of the source, written as the high and the low halves of its
  words; `crc32_gen` the loop of the source, a fold (`Over`) of `Crc`; `Divide` the
  bitwise division by the reflected polynomial. `TableAssumption` says that each of
  the 256 words of the table is what the division leaves of its index: a closed
  statement about constants, which TLC evaluates in full whenever `dump_core` runs.
* `DumpCrc` adds to the loops the two words that they sum. What `dumpData()` wrote is
  already in `yuv`, so the property divides just those bytes; the contents of a
  picture, padding included, are any function `Pixel` of the picture and the offset.

### TsPlayerMulti

* The key for a channel is `PressNumber`, `MuteOld`, `ClearMute`, `UnmuteNew`: the
  flag and the library are changed in separate steps, as in `changAudio()`.
* A thread reads its mute flag (`ReadMute`) and passes it on (`SetMute`) in two
  steps: evaluation of the argument and call.
* A call of `main()` goes through `g_session`: before the thread has stored the
  handle it reaches no session; after the release it makes the session `"late"`,
  and changes nothing else. That a library may give a released handle out again is
  not modelled.
* `vparm` and `video` say who set the parameters of a session and who started its
  video, its thread or a key. `startVideo()` (the key `r`) passes on the codec and
  the PID of the first channel, as `mTsParams` points to the first of the array
  (lines 341 and 342), in a session that is the last one's.
* `SessionLife` allows none of what it names `Foreign`, `Cut`, `Late` and `Again`.
  `SessionsLive` adds to it just what this program does: `Late`, by a step of `main()`;
  `Foreign`, on the last channel, when its parameters are those of the key or not yet
  set by its thread; and `Cut`, on the last channel, when a key has started its video
  last. A thread that calls after its release, or does not stop what it
  started, violates it.
* Keys `2` and `3` (`MaxNumber = 3`) and the quit key reach beyond the arrays of
  two in the code. What they write there is not modelled; what they do to the two
  channels is.
* `inPutTsType` is `TS_MEMORY`, the value `main()` sets, so the loop for `TS_DEMOD`
  is not reached.
* `main()` counts the cleared `run` flags in one step. A flag is cleared by its
  thread once and for good unless a quit came before, so a count in several steps
  finds nothing else.

### TsPlayerSingle

* Sizes are counted in half buffers, which is enough to tell a last piece that
  fills the buffer from one that does not. A piece is named by where it ends.
* `Interrupt(t)` starts the handler on thread `t`. On `"main"` it suspends `main()`
  (`Suspended`), wherever that is; on `"other"`, a thread the library has started
  once a session is being made, it runs beside `main()`. SIGINT is blocked in a
  thread that handles it; before `signal()` was called it kills the program.
  The handler ends in `raise()` of the default action, so it never returns.
* `CreateSession` and `StoreHandle` are two steps: the library makes the session
  before the global handle is set, and a handler between them finds none.
* `misused` records who called through a handle that is not set or released. The
  session itself is `"late"` after such a call, and `"twice"` after a second release.
  `SessionLives` adds three steps to `SessionLife`: when a handler runs beside `main()`
  (`Raced`), a release with the video on; and then, or once `main()` has released the
  session and not yet returned, a late call and another release.
* The keyboard is read before every `writeData()`, after every piece, and in the
  loop of a demodulator stream; `TypeKey` is the person at it.

### TsPlayerOptions

Options are read one by one into `opt`, the variables of `main()`; `Configure` is
everything `main()` then writes to `/sys/class/stb` and to the session. A number is
passed on as it is, as the casts do, also one that no enumeration has; the
enumerations of `AmTsPlayer.h` say what a number of a codec or a trick mode means.

## 3. Runs

| run | checks | instance |
|---|---|---|
| `es_core` | `HeapSafe`, `LeakIsCompletedInputs`, `OutputThreadJoined`, `NoFrameAbandoned`, `StaleWorkOnlyByOvertaking`, `NoSilentDump`, `StrideMatchesFrame`, `PicturesConserved`, refinement `LivesAsPlayer` | 3 frames, 1 input buffer, up to 2 pictures, 2 formats that change at any time, every failure |
| `es_live` | `TypeOK`, refinement `FramesInOrder`, `Termination`, `DeliveredIsDumped` | 2 frames, 1 input buffer (so that EAGAIN happens), 2 formats that change at any time, failures the player survives |
| `multi_core` | `TypeOK`, `AtMostOneUnmuted`, `SessionsReleasedAtExit`, refinement `SessionsLive`, `EndsWithTheSessions`, `QuitEnds` | 2 channels, 3 keys (any number up to 3, any video key), every failure |
| `single_core` | `TypeOK`, `OsdRestored`, `MainCallsLive`, `SessionOutlivesOnlyIfEarly`, `PlayedWhole`, `TwiceOnlyAtTheEnd`, refinement `SessionLives`, `QuitEnds`, `InterruptEnds`, `PlaysOut` | files missing, empty, of half, one and one and a half buffers, or the demodulator; 2 keys of `p r q`; 1 SIGINT on either thread; write errors |
| `options_core` | `SourceMatchesType`, `SessionAsAsked` | 4 options, values at and beyond the ends of each range |
| `main_core` | `TypeOK`, `BypassedWhilePlaying`, `NoPlayerOutlivesMain`, `EndsWithItsPlayers` | up to 3 players, `-n` from 0 to 4, every failure |
| `dump_core` | `TypeOK`, `RowsInside`, `ChecksumsMatchFile`, `DumpedWhole`, `LineMatchesFile` | 2 pictures, 1 change of format, widths 1 and 65, heights of formats 2 and 65, of pictures 2 and 3, two contents |
| `es_mapping` | `MappingIsCurrent` is violated | 2 frames, 2 formats, a decoder that waits for its pictures, no failure |
| `multi_quit` | `QuitIsHeard` is violated | the quit key alone |
| `multi_sound` | `KeySelectsSound` is violated | 1 key |
| `multi_ended` | `EndsWithTheChannels` is violated | 2 channels, files that cannot be read |
| `single_missing` | `NothingWithoutData` is violated | a missing file, nothing else |

Why the bounds are enough. A decoder that takes one input buffer at a time may
give it back before it delivers the frame, so that three frames and two pictures
let the input queue fill, a frame overtake another, one be dumped while one
waits and one is decoded, and the pictures run out. Two formats suffice for a
frame of an old format to wait, or to be in the middle of its dump, while every
step of the change to a new one is made. Two channels are what the program has;
three keys switch the sound there and back with a key in between. Two pieces
reach every pass of the write loop: the first, one after another, and the one
that meets the end; two keys stop and start the video, or do something before
`q`; the handler kills the program, so that a second SIGINT matters only on a
second thread, and changes nothing the proofs do not cover. Three players suffice
for one to end before and one after the one being joined. Widths and heights
within one alignment of 64 and in the next make strides and planes that differ,
a picture of 65 columns is wider than a format of 1, one of 3 rows is higher than
one of 2, and the loops distinguish only odd and even heights; a change of the
format falls on every row of either picture. All safety properties of the passing runs, the
refinements among them, are moreover proved for any bounds.

### What the violated runs show

* `es_mapping`: `mMmapAddr` only grows, while frames are looked up in it by picture
  number. After a change of resolution (comment at line 650: "resolution change
  clean resource") frames are dumped from the freed buffers of the first format.
* `multi_quit`: `TsPlayerThread()` starts with `run = true` and so undoes an early
  `q:quit` (line 369). `QuitEnds` shows that the program still ends, with the file.
* `multi_sound`: a key between the read of `mute` and the call that passes it on is
  lost: the menu's "channel sound" (line 371) does not come.
* `multi_ended`: a thread whose file cannot be read leaves `run` set, so `main()` never
  reaches "all channel exit" (line 517). `EndsWithTheSessions` shows that it does
  when every channel had a session.
* `single_missing`: `tellg()` is -1 for a missing file; as an unsigned number that
  passes the test for an empty one (line 328), and the program writes a buffer it
  never filled until `q` or SIGINT.

### Read in the code, with no run spent on it

* In the ion branch (kernels before 5) `mBufferWidth` and `mBufferHeight` are never
  set (EsVideoDecPlayer.cpp:676), so `dumpData()` has no stride. `StrideMatchesFrame`
  is stated for uvm buffers.
* A key of AmTsPlayerMultiExample uses the handle of a channel that has ended
  (lines 268 and 318), which `SessionsLive` allows to keys alone, and `r` starts the
  video of the last channel with the codec and PID of the first (line 341).
* A SIGINT after `AmTsPlayer_release()` releases again (AmTsPlayerExample.cpp:174);
  `SessionLives` shows that, without a handler beside `main()`, a second release has no
  other cause.
* A frame that is still dumped, or waits, when the format changes is read with the
  stride of the new one (EsVideoDecPlayer.cpp:375), which may lie outside its memory.
  `StrideMatchesFrame` and `RowsInside` state what holds besides.
* The last piece of a file is passed on with the length of the whole buffer, and
  again when the file ends where a buffer does (AmTsPlayerExample.cpp:397);
  `TwiceOnlyAtTheEnd` shows that this is the only piece written twice.
* The usage text of AmTsPlayerExample numbers `-y` differently from the header
  (line 189), and the session ignores `-d` (line 338): `SessionAsAsked` checks the
  number given with `-y`, not its name, and leaves `-d` out.
* `vformat_to_mime()` has no name for formats 5 and 16 (EsVideoDecPlayer.cpp:131),
  which the usage text lists (lines 752 and 753).

### Fairness

`es_live`: weak fairness of the two threads (they are ordinary threads), and of
the decoder for returning input buffers, delivering or completing frames, asking
for its first pictures and answering the flush: without these the API the program
is written against cannot be used at all. Nothing is assumed of drops, spurious
wakeups, later formats or failures. Weak fairness is enough for
`onOutputBufferDone()` though it competes for `mOutputLock`: with no delivery the
output thread empties the queue and stops taking the lock. Two failures are left
out: a decoder that was not initialised never answers the flush, and a YUV file
that can never be opened keeps its frame in the queue for ever; in both cases the
program does hang. So it does with a decoder that never gives an input buffer
back, which the fairness excludes: EAGAIN is retried for ever (line 359). A change
of the format that has begun goes on to its end; the flush is answered after it.

`multi_core`: weak fairness of `main()` and of each thread; `writeData()` does not
answer RETRY for ever. No key is ever required to be pressed.

`single_core`: weak fairness of `main()` and of a handler that was started. RETRY may
be answered for ever (`PlaysOut` says so, `QuitEnds` holds nevertheless); keys and
SIGINT need not come.

`main_core`: weak fairness of `main()`, and of a player outside `play()`: it gets as far
as the call, and from its return to the end of its thread (`Proceeds`). Nothing is
assumed of `play()`, which may hang in the ways just named: `EndsWithItsPlayers` says
that the process ends unless some player stays there for ever.

## 4. Proofs

All theorems are about the specification without fairness, with every failure
allowed, for all values of the constants that satisfy the named assumptions of
the modules. An invariant is proved as the consequence of an inductive one that
the component's module states; each proof has one step per action.

| module | theorem | states |
|---|---|---|
| `EsVideoDecPlayerProofs` | `TypeCorrect` | `[]TypeOK` |
| | `OutputThreadIsJoined` | `[]OutputThreadJoined` |
| | `PlayerInvariant` | the inductive invariant `PlayerInv` |
| | `NoDoubleFree` | `[]HeapSafe` |
| | `CompletedInputsLeak` | `[]LeakIsCompletedInputs` |
| | `StaleWork` | `[]StaleWorkOnlyByOvertaking` |
| | `EveryFrameIsAccountedFor` | `[]NoFrameAbandoned` |
| | `DumpedToAFile` | `[]NoSilentDump` |
| | `PicturesHaveOneOwner` | `[]PicturesConserved`, whenever the decoder changes the format |
| | `DumpedWithItsStride` | `[]StrideMatchesFrame`, likewise |
| | `MappingsFound` | `[]LookupInBounds`: a frame's mapping is looked up within `mMmapAddr`, and found for every frame of the first format |
| | `OneFormatIsMapped` | `[]MappingIsCurrent`, if `MaxChanges = 1` |
| | `NoWaitIsForgotten` | `[]WaitsAreAnswered`: no lost wakeup, no wait for a thread that is not there |
| | `ImplementsFifo` | `Spec => Fifo!Spec`, the refinement of `FrameFifo` |
| | `ImplementsPlayerLife` | the refinement of `PlayerLife` |
| `EsMainProofs` | `MainInvariant`, `TypeCorrect` | `MainInv`, `[]TypeOK` |
| | `PlayersEndFirst`, `PlayersAreBypassed` | `[]NoPlayerOutlivesMain`, `[]BypassedWhilePlaying` |
| | `PlayersAsAsked` | `[]AskedPlayersPlayed`: at its end `main()` has played 1 to `-n`, and no other |
| `DumpDataProofs` | `DumpInvariant`, `TypeCorrect` | `DataInv`, `[]TypeOK` |
| | `NoRowOutside`, `ChecksumsOfTheFile`, `EveryPictureWhole` | `[]RowsInside`, `[]ChecksumsMatchFile`, `[]DumpedWhole` |
| `Crc32Proofs` | `OneByte` | a turn of `crc32_gen()` is eight steps of the division, for every word and byte |
| | `ChecksumIsRemainder` | `crc32_gen(crc, bytes) = Divide(crc, bytes)` for all bytes |
| | `ChecksumContinues` | the checksum of a sequence is that of its end, begun with that of its beginning |
| | `OneByteShows` | sequences that differ in one byte have different checksums |
| `DumpCrcProofs` | `SumInvariant`, `LineIsRemainder` | `CrcInv`, `[]LineMatchesFile` |
| `TsPlayerMultiProofs` | `MultiInvariant`, `TypeCorrect` | `MultiInv`, `[]TypeOK` |
| | `OneSound`, `NothingLeftAtExit` | `[]AtMostOneUnmuted`, `[]SessionsReleasedAtExit` |
| | `EverySessionLives` | `SessionsLive`, the refinement of `SessionLife` by every channel, but for the steps of keys it names |
| | `SoundFollowsFlag` | `[]SoundUnlessOvertaken` and `SoundStays`: a session is muted as its flag says when its thread passed on the value the flag has, and from then on whatever keys come |
| | `QuitStaysHeard` | `QuitIsKept`: a cleared `run` is set again only by a thread that starts |
| `TsPlayerSingleProofs` | `SingleInvariant`, `PiecesInvariant`, `TypeCorrect` | `SingleInv`, `PieceInv`, `[]TypeOK` |
| | `DisplayIsBack`, `NoCallAfterRelease`, `SessionIsReleased` | `[]OsdRestored`, `[]MainCallsLive`, `[]SessionOutlivesOnlyIfEarly` |
| | `SessionIsKeptOrderly` | `SessionLives`, the refinement of `SessionLife` but for the steps of handlers it names |
| | `FileIsPlayedWhole`, `NoPieceTwice` | `[]PlayedWhole`, `[]TwiceOnlyAtTheEnd` |
| | `DataUnlessUnopened` | `[]NothingWithoutData`, if `-1 \notin Sizes` |
| `TsPlayerOptionsProofs` | `OptionsInvariant` | `OptionsInv` |
| | `SourcesMatch`, `ConfiguredAsAsked` | `[]SourceMatchesType`, `[]SessionAsAsked` |

### EsVideoDecPlayer

None of the properties is inductive by itself, so the module states invariants
that are:

* `TypeInv` adds to the types that the output thread has a frame in hand when it
  works on one (it alone pops, so the unlocked `empty()` stays true until the
  lock), that there are no pictures before the first format, and that the id in
  hand is below the bound.
* `BufferInv` fixes, for each id, the state of its buffer and of its entry from
  where `play()` is and whether the decoder still has the buffer. `HeapSafe` and
  `LeakIsCompletedInputs` follow in the destructor.
* `WorkInv`: a frame counted as shown has an id below `mbitstreamId`; so the entry
  it erased is not made again.
* `ThreadInv`: when the output thread can be alive.
* `DeliveryInv`: a delivered frame waits or was dumped, an undelivered one neither;
  the frame about to be popped was dumped.
* `FlushInv`: `mready` implies that the decoder owes nothing; `play()` passes the
  wait only with `mready`, and passes the drain only with an empty queue.

`NoFrameAbandoned` follows from `BufferInv` (every frame was answered), `FlushInv`
(none is owed, none waits) and `DeliveryInv`. For `ImplementsFifo` the abstract
queue is the display queue without a head that was dumped and not popped yet;
`OutDumped` maps to a dump, `onOutputBufferDone()` to a delivery, the end of the drain
(or a failure to open the input) to the close, every other step to a stutter.

`PicturesConserved` needs `FramesInv` beside it: a waiting frame is of an older format,
or of the present one with a picture that was created. A change of the format
starts with no picture at all, and each one created is with the decoder until a
frame is delivered in it. The property is about the frames that wait, less the
head whose picture was already handed back, and about the numbers that no frame
of an older format has handed back since the change (`stale`): such a number gives
the decoder a picture that may still wait to be dumped, and nothing in the
repository says whether it takes it.

`StrideInv`: between changes of the format `mBufferWidth` and `mBufferHeight` are those of
the present one, and in the callback those of the one before until they are set,
which is before the first picture is created. With `FramesInv` no stride is older
than a frame. The upper end, the present format, cannot be improved on: a change
between two rows of a dump is a behaviour of the code.

`LookupInBounds` follows from `MappingInv`: each picture of the present format, and that
of each waiting frame, has a place in `mMmapAddr`, and while the format is the first
one it is the right place. Appending moves nothing, so frames of the first format
keep it. `WaitInv` carries `WaitsAreAnswered`: while `play()` reads, the decoder was
initialised or has failed and the output thread runs; `mready` is never set while
`play()` waits, since the test, the wait and `onFlushDone()` share `mFlushedLock`. It is
the safety half of `Termination`; the exception it makes, a decoder that failed, is
the player that `PlayerLife` calls dumb.

### What holds beside the violated runs

Each violated run has a theorem that says how far the claim does hold, for all
constants: `es_mapping`, a stream of one format (`OneFormatIsMapped`), and frames of the
first format in any stream (`MappingsFound`); `multi_quit`, every thread that has
started (`QuitStaysHeard`); `multi_sound`, every channel whose thread passed on the
flag it has then, and from then on (`SoundFollowsFlag`); `single_missing`, every file that can be opened
(`DataUnlessUnopened`). For `multi_ended`, a liveness property, `EndsWithTheSessions` is
checked instead.

### The others

* `StartedInv` adds to `MainInv` that the loop of `main()` passes no player; with what
  `MainInv` says of the joined ones `PlayersAsAsked` follows.
* `SoundInv`: a thread publishes its handle before it reads its flag, so a key that
  comes after that reaches the session; the flag of the channel `changAudio()` is
  about to unmute is clear already.
* `OneByte`: a step of the division is linear (`DivideBitLinear`), and the eight steps
  only shift what is above the lowest byte (`DivideBitsShifts`), so the word is the
  exclusive or of a shift and of what eight steps leave of the lowest byte, which is
  the entry of the table.
* Folds. `Over` is a recursive function over the length of a sequence, and no
  theorem of induction can be used here, since each takes a predicate as a
  parameter. A statement about every length is proved by its least counterexample
  instead: the set of lengths at which two runs of a fold differ has no least
  element (`Least`, from the well-foundedness of the natural numbers), so it is
  empty (`RunsAgree`). `OverUnfolds`, `OverStays` and `OverContinues` rest on that.
* `CrcInv`: at any time the two words are the remainders of the rows summed so far.
  With `DataInv`, which says that those are the rows written, `LineMatchesFile` follows.
* `OneByteShows` uses that a step of the division is injective on words, as the
  highest coefficient of the polynomial is 1, and so is a turn of the loop for a
  given byte, and, for a given word, in the byte.
* `OptionsInv`: each variable of `main()` holds its default or the value of the last
  option with its letter (`AskedInv`); after `Configure` the session is `Settings`.
* `MainInv` says, for each place of `main()`, which players there may be: below `i`
  while it starts them, over below `i` while it joins them.
* `DataInv`: at row `i` of a loop the output is the first `i` rows of a plane (`Plane`).
  Both writing and both summing loops fit the same formula, which is the reason
  for `ChecksumsMatchFile`. The formula (`RowsInv`) holds while no format is begun, with
  `FormatInv` relating the memory, the dump and the format; the number of rows
  (`LengthInv`) whatever happens, since it comes from the picture alone.
  `MaxSize <= 37824` is the assumption under which an offset into a picture of
  1.5 times the luma plane fits into a signed word.
* `MultiInv`: between the two halves of `changAudio()` no flag is clear; a thread that
  was started and not joined is known to `main()`; a session lives while its thread
  is between making and releasing it; and its video is on by its thread only between
  that thread's start and stop, or by a key, on the last channel only, which is
  what `SessionsLive` needs at the release. That `changAudio()` takes the first unmuted
  channel is not needed, only that there is no second one.
* `SingleInv`: before the session is made only a handler on `main()`'s own thread can
  run, so it is stopped there; a released session was released by `main()` at its
  end or by a handler that never returns; who stopped the video finds it stopped.
  The exception `Raced`, a handler beside `main()`, is in `MainCallsLive` and
  `SessionLives` because the code has no answer to it. Without it a late call or a
  second release is a handler's, after `main()`'s own release: any earlier handler
  that has released the session is at `showOsd` or `raise` and calls nothing more.
* `PieceInv`: until the end was seen a whole number of buffers was read, and all
  that was read, but the piece in hand, was given to the session.
* `SourcesMatch` rests on the part of `OptionsInv` by which `session` and `demux` come
  from the same `opt`; both are told apart by the same numbers.

## 5. Only model-checked

* Liveness, and all temporal reasoning under fairness, which is beyond TLAPS (it has
  no `ENABLED` here): `Termination`,
  `DeliveredIsDumped`, `EndsWithTheSessions`, `QuitEnds` (both), `InterruptEnds`,
  `PlaysOut`, `EndsWithItsPlayers`.
* `TableAssumption`: a finite computation, 256 divisions of 8 steps, which TLC does in
  full; the theorems of `Crc32Proofs` and `DumpCrcProofs` use it.
* The properties that are violated.

## 6. Not modelled

* MediaSync, the render library and its server, the resource manager and the DMA
  buffer manager: no source code and no caller in the repository, only headers
  and prebuilt files; from their declarations alone no behaviour can be told.
  The libraries that are called are modelled only as the callers see them.
* The decoder's own locks, and so a deadlock between them and the player's
  (`queueOutputBuffer()` is called with `mOutputLock` held, which a callback takes):
  whether one is possible depends on code that is not in the repository. Likewise
  whether the decoder still calls back while it is deleted.
* The outcomes of data races on the containers of EsVideoDecPlayer.
* AmTsPlayerMultiExample: what keys 2 and 3 and the quit key write outside the
  arrays of two, the geometry of the windows, the build variant `ONLY_ONE_VIDEO`, and
  a library that gives a released handle out again.
* What the decoder does with a picture number of an older format, beyond taking it.
* `video_callback()` and the decoder callbacks that only print; `vformat_to_mime()`,
  whose result only names the codec to the decoder.

## 7. Plan

Done, in this order: `EsVideoDecPlayer` with `FrameFifo`; `TsPlayerMulti`; `TsPlayerSingle`
and `TsPlayerOptions`; `PlayerLife` and `EsMain`; `Crc32`, `DumpData` and `DumpCrc`; the
proofs of all of them.

Left, if the libraries' behaviour becomes known: the decoder's locks and the end
of its callbacks, as assumptions that replace `DecoderActive` and make the lock
around `queueOutputBuffer()` a question one can ask; `TsPlayerMulti` for a build with
`ONLY_ONE_VIDEO`.
