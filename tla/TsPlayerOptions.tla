--------------------------- MODULE TsPlayerOptions ---------------------------
(***************************************************************************)
(* example/AmTsPlayerExample: how the options of the command line become   *)
(* the settings of the demultiplexer and of the AmTsPlayer session.  main()*)
(* reads one option after the other and then configures the session; the   *)
(* numbers are cast to the enumerations of AmTsPlayer.h and passed on as   *)
(* they are, also those that no enumeration has.  What main() does with    *)
(* the session afterwards is TsPlayerSingle.                               *)
(***************************************************************************)
EXTENDS Integers, Sequences

CONSTANTS
  Options,          \* the options that may be given: [letter, value]
  MaxOptions        \* bound: options on a command line

Letters == {"t", "d", "b", "y", "c", "v", "a", "V", "A", "g", "o", "p", "q", "h"}

ASSUME OptionsAssumption    == Options \subseteq [letter : Letters, value : Int]
ASSUME MaxOptionsAssumption == MaxOptions \in Nat

VARIABLES
  stage,            \* "parse", "usage" or "configured"
  given,            \* the options read so far
  opt,              \* the variables of main() they are kept in
  demux,            \* what is written under /sys/class/stb
  session           \* the settings of the session

vars == <<stage, given, opt, demux, session>>

-----------------------------------------------------------------------------
(* The enumerations of AmTsPlayer.h, in their order, from 0.               *)

TrickMode == <<"none", "pause", "pause next", "Ionly">>
VideoCodec == <<"unknown", "mpeg1", "mpeg2", "h264", "h265", "vp9", "avs", "mpeg4",
                "avs2", "mjpeg", "dves_avc", "dves_hevc", "avs3", "av1", "vc1">>
AudioCodec == <<"unknown", "mp2", "mp3", "ac3", "eac3", "dts", "aac", "latm", "pcm",
                "ac4", "dra", "flac", "vorbis", "opus", "wmav1", "wmav2", "wmapro",
                "wmalossless", "pcm_u8", "av3a", "pcm_adpcm_ima_wav">>

-----------------------------------------------------------------------------
(* main().                                                                 *)

Defaults ==
  [t |-> 3, d |-> 0, y |-> 1, c |-> 0, v |-> 3, a |-> 6, V |-> 256, A |-> 257,
   g |-> 20, o |-> -1, p |-> -1, q |-> 50]

Init ==
  /\ stage = "parse"
  /\ given = <<>>
  /\ opt = Defaults
  /\ demux = [dev |-> "unset", source |-> "unset"]
  /\ session = <<>>

\* getopt_long(): a value is kept, but for -b, which nothing is done with.
FirstWins(o) == IF opt[o.letter] = Defaults[o.letter] THEN o.value ELSE opt[o.letter]
Kept(o) == o.value

Option(o) ==
  /\ stage = "parse"
  /\ Len(given) < MaxOptions
  /\ o.letter # "h"
  /\ given' = Append(given, o)
  /\ opt' = IF o.letter \in DOMAIN opt THEN [opt EXCEPT ![o.letter] = Kept(o)] ELSE opt
  /\ UNCHANGED <<stage, demux, session>>

\* -h prints the usage and ends the program.
Help(o) ==
  /\ stage = "parse"
  /\ Len(given) < MaxOptions
  /\ o.letter = "h"
  /\ stage' = "usage"
  /\ given' = Append(given, o)
  /\ UNCHANGED <<opt, demux, session>>

AtMostTwo == opt.t <= 2
FromDemod == opt.t >= 0 /\ opt.t <= 2

TsType == IF FromDemod THEN "TS_DEMOD" ELSE "TS_MEMORY"

\* set_dmx_source(): the device is selected by its number, but the source is
\* always written for demultiplexer 0.
SetDmxSource ==
  [dev |-> opt.d,
   source |-> CASE opt.t = 0 -> "ts0" [] opt.t = 1 -> "ts1" [] opt.t = 2 -> "ts2"
                [] OTHER -> "hiu"]

\* An audio description is mixed in if it is given whole and comes with the
\* demodulator.
NoMix == [on |-> FALSE]
AdMix ==
  IF opt.o # -1 /\ opt.p # -1 /\ FromDemod
  THEN [on |-> TRUE, codec |-> opt.p, pid |-> opt.o, level |-> opt.q]
  ELSE NoMix

CodecsSwapped == [codec |-> opt.a, pid |-> opt.V]
VideoParams == [codec |-> opt.v, pid |-> opt.V]

Settings ==
  [source |-> TsType, drmmode |-> "normal", dmx_dev_id |-> 0,
   workMode |-> "normal", syncMode |-> opt.y,
   pcrPid |-> IF FromDemod THEN opt.V ELSE -1,
   video |-> VideoParams,
   ad |-> AdMix,
   audio |-> [codec |-> opt.a, pid |-> opt.A],
   volume |-> opt.g,
   trickMode |-> opt.c]

Configure ==
  /\ stage = "parse"
  /\ stage' = "configured"
  /\ demux' = SetDmxSource
  /\ session' = Settings
  /\ UNCHANGED <<given, opt>>

Done == stage # "parse" /\ UNCHANGED vars

Next == (\E o \in Options : Option(o) \/ Help(o)) \/ Configure \/ Done

Spec == Init /\ [][Next]_vars

-----------------------------------------------------------------------------
(* Properties.                                                             *)

Configured == stage = "configured"

\* What the usage text calls the numbers of an option.
UsageTrick == <<"none", "pause", "pause next", "Ionly">>
UsageVideo == <<"unknown", "mpeg1", "mpeg2", "h264", "h265", "vp9", "avs", "mpeg4">>
UsageAudio == <<"unknown", "mp2", "mp3", "ac3", "eac3", "dts", "aac", "latm", "pcm">>

\* The value the command line ends up asking for, the last one counting.
Places(letter) == {k \in DOMAIN given : given[k].letter = letter}
LastPlace(letter) == CHOOSE k \in Places(letter) : \A l \in Places(letter) : l <= k
Asked(letter, default) == IF Places(letter) = {} THEN default ELSE given[LastPlace(letter)].value

\* A number the usage text explains has the meaning it has in AmTsPlayer.h.
MeansAsUsed(n, enum, usage) == n + 1 \in DOMAIN usage => enum[n + 1] = usage[n + 1]

\* The demultiplexer takes its input from the demodulator's port exactly if
\* the session expects it from there: set_dmx_source() and main() decide it
\* apart, from the same option.
SourceMatchesType ==
  Configured => (session.source = "TS_MEMORY" <=> demux.source = "hiu")

AskedFromDemod == Asked("t", 3) \in 0 .. 2
AskedAdMix == AskedFromDemod /\ Asked("o", -1) # -1 /\ Asked("p", -1) # -1

\* The session has what the last option of each letter asks for, or the default:
\* codecs, PIDs, volume, synchronisation and trick mode; a PCR PID exactly with the
\* demodulator; and the audio description mixed in exactly if both its PID and its
\* codec are asked for with the demodulator, with the level asked for.  The numbers
\* of codecs and trick mode mean to AmTsPlayer what the usage text says.
SessionAsAsked ==
  Configured =>
    /\ session.video = [codec |-> Asked("v", 3), pid |-> Asked("V", 256)]
    /\ session.audio = [codec |-> Asked("a", 6), pid |-> Asked("A", 257)]
    /\ session.volume = Asked("g", 20)
    /\ session.syncMode = Asked("y", 1)
    /\ session.trickMode = Asked("c", 0)
    /\ session.pcrPid = IF AskedFromDemod THEN Asked("V", 256) ELSE -1
    /\ session.ad.on = AskedAdMix
    /\ AskedAdMix => session.ad = [on |-> TRUE, codec |-> Asked("p", -1),
                                   pid |-> Asked("o", -1), level |-> Asked("q", 50)]
    /\ MeansAsUsed(session.video.codec, VideoCodec, UsageVideo)
    /\ MeansAsUsed(session.audio.codec, AudioCodec, UsageAudio)
    /\ MeansAsUsed(session.trickMode, TrickMode, UsageTrick)

\* The inductive strengthening of the two properties: while options are read, a
\* variable of main() has what the last option for it asks for, or its default;
\* then the demultiplexer and the session are configured from these variables.
AskedInv == \A letter \in DOMAIN Defaults : opt[letter] = Asked(letter, Defaults[letter])

\* Of the places of an option on the command line there is a last one.
HasLast(letter) == Places(letter) # {} => \E k \in Places(letter) : \A l \in Places(letter) : l <= k

OptionsInv ==
  /\ \A letter \in DOMAIN Defaults : HasLast(letter)
  /\ given \in Seq(Options)
  /\ opt \in [DOMAIN Defaults -> Int]
  /\ AskedInv
  /\ stage = "configured" => demux = SetDmxSource /\ session = Settings
=============================================================================
