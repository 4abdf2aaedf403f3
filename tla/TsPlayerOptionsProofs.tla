----------------------- MODULE TsPlayerOptionsProofs -----------------------
(***************************************************************************)
(* What holds of the options of example/AmTsPlayerExample for every number *)
(* on the command line, of any length.                                     *)
(***************************************************************************)
EXTENDS TsPlayerOptions, TLAPS

\* The two places that decide where the stream comes from agree.
LEMMA SourcesAgree == opt.t \in Int => (TsType = "TS_MEMORY" <=> SetDmxSource.source = "hiu")
<1> SUFFICES ASSUME opt.t \in Int PROVE TsType = "TS_MEMORY" <=> SetDmxSource.source = "hiu"
  OBVIOUS
<1> DEFINE port == CASE opt.t = 0 -> "ts0" [] opt.t = 1 -> "ts1" [] opt.t = 2 -> "ts2"
                     [] OTHER -> "hiu"
<1>1. SetDmxSource.source = port
  BY DEF SetDmxSource
<1>2. ASSUME opt.t = 0 PROVE port = "ts0"
  <2>1. opt.t # 1 /\ opt.t # 2
    BY <1>2
  <2>2. QED
    BY <1>2, <2>1, Zenon
<1>3. ASSUME opt.t = 1 PROVE port = "ts1"
  <2>1. opt.t # 0 /\ opt.t # 2
    BY <1>3
  <2>2. QED
    BY <1>3, <2>1, Zenon
<1>4. ASSUME opt.t = 2 PROVE port = "ts2"
  <2>1. opt.t # 0 /\ opt.t # 1
    BY <1>4
  <2>2. QED
    BY <1>4, <2>1, Zenon
<1>5. opt.t # 0 /\ opt.t # 1 /\ opt.t # 2 => port = "hiu"
  BY Zenon
<1> HIDE DEF port
<1>6. FromDemod <=> opt.t = 0 \/ opt.t = 1 \/ opt.t = 2
  BY DEF FromDemod
<1>7. QED
  BY <1>1, <1>2, <1>3, <1>4, <1>5, <1>6 DEF TsType

-----------------------------------------------------------------------------
(* The last option counts.                                                 *)

\* The last place of a letter, if there is one.
LEMMA LastPlaceIs ==
  ASSUME given \in Seq(Options), NEW letter, NEW k \in Places(letter),
         \A l \in Places(letter) : l <= k
  PROVE  LastPlace(letter) = k
<1>1. \A m, n \in Places(letter) : m <= n /\ n <= m => m = n
  BY DEF Places
<1>2. QED
  BY <1>1 DEF LastPlace

\* One more option is the last of its letter, and leaves the others as they are.
LEMMA AskedAfter ==
  ASSUME given \in Seq(Options), NEW o \in Options, given' = Append(given, o),
         NEW letter, NEW default, HasLast(letter)
  PROVE  /\ HasLast(letter)'
         /\ Asked(letter, default)' = IF o.letter = letter THEN o.value ELSE Asked(letter, default)
<1> DEFINE n == Len(given)
<1>1. /\ n \in Nat
      /\ DOMAIN given = 1 .. n /\ DOMAIN given' = 1 .. n + 1
      /\ \A k \in 1 .. n : given'[k] = given[k]
      /\ given'[n + 1] = o
      /\ given' \in Seq(Options)
  OBVIOUS
<1> HIDE DEF n
<1>2. CASE o.letter = letter
  <2>1. Places(letter)' = Places(letter) \cup {n + 1}
    BY <1>1, <1>2 DEF Places
  <2>2. \A k \in Places(letter)' : k <= n + 1
    BY <1>1, <2>1 DEF Places
  <2>3. LastPlace(letter)' = n + 1
    BY <1>1, <2>1, <2>2 DEF LastPlace, Places
  <2>4. QED
    BY <1>1, <1>2, <2>1, <2>2, <2>3 DEF Asked, HasLast
<1>3. CASE o.letter # letter
  <2>1. Places(letter)' = Places(letter)
    BY <1>1, <1>3 DEF Places
  <2>2. LastPlace(letter)' = LastPlace(letter)
    BY <2>1 DEF LastPlace
  <2>3. HasLast(letter)'
    BY <2>1 DEF HasLast
  <2>4. ASSUME Places(letter) # {} PROVE LastPlace(letter) \in 1 .. n
    <3>1. PICK k \in Places(letter) : \A l \in Places(letter) : l <= k
      BY <2>4 DEF HasLast
    <3>2. LastPlace(letter) = k
      BY <3>1, LastPlaceIs
    <3>3. QED
      BY <1>1, <3>2 DEF Places
  <2>5. QED
    BY <1>1, <1>3, <2>1, <2>2, <2>3, <2>4 DEF Asked
<1>4. QED
  BY <1>2, <1>3

-----------------------------------------------------------------------------
(* The inductive invariant.                                                *)

LEMMA InitHolds == Init => OptionsInv
<1> SUFFICES ASSUME Init PROVE OptionsInv
  OBVIOUS
<1>1. given = <<>> /\ opt = Defaults /\ stage = "parse"
  BY DEF Init
<1>2. \A letter : Places(letter) = {}
  BY <1>1 DEF Places
<1>3. AskedInv /\ \A letter \in DOMAIN Defaults : HasLast(letter)
  BY <1>1, <1>2 DEF AskedInv, Asked, HasLast
<1>4. opt \in [DOMAIN Defaults -> Int]
  BY <1>1 DEF Defaults
<1>5. QED
  BY <1>1, <1>3, <1>4 DEF OptionsInv

\* A step that reads no option keeps the variables of main().
LEMMA KeptApart ==
  ASSUME OptionsInv, UNCHANGED opt, given' = given
  PROVE  /\ given' \in Seq(Options) /\ opt' \in [DOMAIN Defaults -> Int]
         /\ AskedInv' /\ \A letter \in DOMAIN Defaults : HasLast(letter)'
         /\ SetDmxSource' = SetDmxSource /\ Settings' = Settings
<1>1. \A letter : Places(letter)' = Places(letter)
  BY DEF Places
<1>2. \A letter : LastPlace(letter)' = LastPlace(letter)
  BY <1>1 DEF LastPlace
<1>3. \A letter, default : Asked(letter, default)' = Asked(letter, default)
  BY <1>1, <1>2 DEF Asked
<1>4. AskedInv' /\ \A letter \in DOMAIN Defaults : HasLast(letter)'
  BY <1>1, <1>3 DEF AskedInv, HasLast, OptionsInv
<1>5. SetDmxSource' = SetDmxSource
  BY DEF SetDmxSource
<1>6. Settings' = Settings
  BY DEF Settings, TsType, FromDemod, AdMix, NoMix, VideoParams
<1>7. QED
  BY <1>4, <1>5, <1>6 DEF OptionsInv

LEMMA NextHolds == OptionsInv /\ [Next]_vars => OptionsInv'
<1> SUFFICES ASSUME OptionsInv, [Next]_vars PROVE OptionsInv'
  OBVIOUS
<1>1. ASSUME NEW o \in Options, Option(o) PROVE OptionsInv'
  <2>1. o.letter \in Letters /\ o.value \in Int
    BY OptionsAssumption
  <2>2. /\ stage' = "parse" /\ given' = Append(given, o)
        /\ opt' = IF o.letter \in DOMAIN opt THEN [opt EXCEPT ![o.letter] = o.value] ELSE opt
    BY <1>1 DEF Option, Kept
  <2>3. /\ given \in Seq(Options) /\ opt \in [DOMAIN Defaults -> Int] /\ AskedInv
        /\ \A letter \in DOMAIN Defaults : HasLast(letter)
    BY DEF OptionsInv
  <2>4. given' \in Seq(Options) /\ opt' \in [DOMAIN Defaults -> Int]
    BY <2>1, <2>2, <2>3
  <2>5. ASSUME NEW letter \in DOMAIN Defaults
        PROVE  opt'[letter] = Asked(letter, Defaults[letter])' /\ HasLast(letter)'
    <3>1. /\ HasLast(letter)'
          /\ Asked(letter, Defaults[letter])'
               = IF o.letter = letter THEN o.value ELSE Asked(letter, Defaults[letter])
      BY <2>2, <2>3, AskedAfter
    <3>2. opt[letter] = Asked(letter, Defaults[letter])
      BY <2>3 DEF AskedInv
    <3>3. QED
      BY <2>2, <2>3, <3>1, <3>2
  <2>6. QED
    BY <2>2, <2>4, <2>5 DEF OptionsInv, AskedInv
<1>2. ASSUME NEW o \in Options, Help(o) PROVE OptionsInv'
  <2>1. /\ stage' = "usage" /\ UNCHANGED opt
        /\ given' = Append(given, o) /\ o.letter = "h"
    BY <1>2 DEF Help
  <2>2. "h" \notin DOMAIN Defaults
    BY DEF Defaults
  <2>3. /\ given \in Seq(Options) /\ opt \in [DOMAIN Defaults -> Int] /\ AskedInv
        /\ \A letter \in DOMAIN Defaults : HasLast(letter)
    BY DEF OptionsInv
  <2>4. ASSUME NEW letter \in DOMAIN Defaults
        PROVE  opt'[letter] = Asked(letter, Defaults[letter])' /\ HasLast(letter)'
    <3>1. o.letter # letter
      BY <2>1, <2>2
    <3>2. HasLast(letter)' /\ Asked(letter, Defaults[letter])' = Asked(letter, Defaults[letter])
      BY <2>1, <2>3, <3>1, AskedAfter
    <3>3. QED
      BY <2>1, <2>3, <3>2 DEF AskedInv
  <2>5. QED
    BY <2>1, <2>3, <2>4 DEF OptionsInv, AskedInv
<1>3. CASE Configure
  <2>1. UNCHANGED opt /\ given' = given /\ demux' = SetDmxSource /\ session' = Settings
    BY <1>3 DEF Configure
  <2>2. QED
    BY <2>1, KeptApart DEF OptionsInv
<1>4. CASE Done \/ UNCHANGED vars
  <2>1. UNCHANGED opt /\ given' = given /\ UNCHANGED <<stage, demux, session>>
    BY <1>4 DEF Done, vars
  <2>2. QED
    BY <2>1, KeptApart DEF OptionsInv
<1>5. QED
  BY <1>1, <1>2, <1>3, <1>4 DEF Next

\* What is on the command line, what main() keeps of it and what it configures
\* belong together at every moment.
THEOREM OptionsInvariant == Spec => []OptionsInv
  BY InitHolds, NextHolds, PTL DEF Spec

-----------------------------------------------------------------------------
(* The properties.                                                         *)

\* For every number given as the type of the stream, the demultiplexer and the
\* session agree about where it comes from.
THEOREM SourcesMatch == Spec => []SourceMatchesType
<1>1. OptionsInv => SourceMatchesType
  <2> SUFFICES ASSUME OptionsInv, Configured
               PROVE  session.source = "TS_MEMORY" <=> demux.source = "hiu"
    BY DEF SourceMatchesType
  <2>1. demux = SetDmxSource /\ session = Settings
    BY DEF OptionsInv, Configured
  <2>2. opt.t \in Int
    BY DEF OptionsInv, Defaults
  <2>3. session.source = TsType
    BY <2>1 DEF Settings
  <2>4. QED
    BY <2>1, <2>2, <2>3, SourcesAgree
<1>2. QED
  BY <1>1, OptionsInvariant, PTL

\* The names of the header and of the usage text agree as far as the latter goes.
LEMMA NamesAgree ==
  ASSUME NEW n \in Int
  PROVE  /\ MeansAsUsed(n, VideoCodec, UsageVideo)
         /\ MeansAsUsed(n, AudioCodec, UsageAudio)
         /\ MeansAsUsed(n, TrickMode, UsageTrick)
<1>1. MeansAsUsed(n, VideoCodec, UsageVideo)
  <2>1. DOMAIN UsageVideo = 1 .. 8
    BY DEF UsageVideo
  <2>2. \A k \in 1 .. 8 : VideoCodec[k] = UsageVideo[k]
    BY DEF VideoCodec, UsageVideo
  <2>3. QED
    BY <2>1, <2>2 DEF MeansAsUsed
<1>2. MeansAsUsed(n, AudioCodec, UsageAudio)
  <2>1. DOMAIN UsageAudio = 1 .. 9
    BY DEF UsageAudio
  <2>2. \A k \in 1 .. 9 : AudioCodec[k] = UsageAudio[k]
    BY DEF AudioCodec, UsageAudio
  <2>3. QED
    BY <2>1, <2>2 DEF MeansAsUsed
<1>3. MeansAsUsed(n, TrickMode, UsageTrick)
  BY DEF UsageTrick, TrickMode, MeansAsUsed
<1>4. QED
  BY <1>1, <1>2, <1>3

\* However many options are given, in whatever order and with whatever numbers,
\* the session is what the last one of each letter asks for: -v, -V, -a, -A, -g,
\* -y, -c, and -o, -p, -q for the audio description.
THEOREM ConfiguredAsAsked == Spec => []SessionAsAsked
<1>1. OptionsInv => SessionAsAsked
  <2> SUFFICES ASSUME OptionsInv, Configured PROVE SessionAsAsked
    BY DEF SessionAsAsked
  <2>1. session = Settings
    BY DEF OptionsInv, Configured
  <2>2. /\ Defaults.v = 3 /\ Defaults.a = 6 /\ Defaults.c = 0 /\ Defaults.y = 1
        /\ Defaults.V = 256 /\ Defaults.A = 257 /\ Defaults.g = 20 /\ Defaults.t = 3
        /\ Defaults.o = -1 /\ Defaults.p = -1 /\ Defaults.q = 50
        /\ {"v", "a", "c", "y", "V", "A", "g", "t", "o", "p", "q"} \subseteq DOMAIN Defaults
    BY DEF Defaults
  <2>3. /\ opt.v = Asked("v", 3) /\ opt.a = Asked("a", 6) /\ opt.c = Asked("c", 0)
        /\ opt.V = Asked("V", 256) /\ opt.A = Asked("A", 257) /\ opt.g = Asked("g", 20)
    BY <2>2 DEF OptionsInv, AskedInv
  <2>4. /\ opt.y = Asked("y", 1) /\ opt.t = Asked("t", 3)
        /\ opt.o = Asked("o", -1) /\ opt.p = Asked("p", -1) /\ opt.q = Asked("q", 50)
    BY <2>2 DEF OptionsInv, AskedInv
  <2>5. opt.v \in Int /\ opt.a \in Int /\ opt.c \in Int /\ opt.t \in Int
    BY <2>2 DEF OptionsInv
  <2>6. /\ session.video = [codec |-> opt.v, pid |-> opt.V]
        /\ session.audio = [codec |-> opt.a, pid |-> opt.A]
        /\ session.volume = opt.g /\ session.syncMode = opt.y /\ session.trickMode = opt.c
        /\ session.pcrPid = IF FromDemod THEN opt.V ELSE -1
        /\ session.ad = AdMix
    BY <2>1 DEF Settings, VideoParams
  <2>7. FromDemod <=> AskedFromDemod
    BY <2>4, <2>5 DEF FromDemod, AskedFromDemod
  <2>8. /\ session.ad.on = AskedAdMix
        /\ AskedAdMix => session.ad = [on |-> TRUE, codec |-> Asked("p", -1),
                                       pid |-> Asked("o", -1), level |-> Asked("q", 50)]
    <3>1. CASE AskedAdMix
      <4>1. AdMix = [on |-> TRUE, codec |-> opt.p, pid |-> opt.o, level |-> opt.q]
        BY <2>4, <2>7, <3>1 DEF AdMix, AskedAdMix
      <4>2. QED
        BY <2>4, <2>6, <3>1, <4>1
    <3>2. CASE ~ AskedAdMix
      <4>1. AdMix = NoMix
        BY <2>4, <2>7, <3>2 DEF AdMix, AskedAdMix
      <4>2. session.ad.on = FALSE
        BY <2>6, <4>1 DEF NoMix
      <4>3. AskedAdMix = FALSE
        BY <3>2 DEF AskedAdMix
      <4>4. QED
        BY <3>2, <4>2, <4>3
    <3>3. QED
      BY <3>1, <3>2
  <2>9. QED
    BY <2>3, <2>4, <2>5, <2>6, <2>7, <2>8, NamesAgree DEF SessionAsAsked
<1>2. QED
  BY <1>1, OptionsInvariant, PTL
=============================================================================
