---------------------------- MODULE AmptekStatus ----------------------------
(***************************************************************************)
(* What AmptekStatus and AmptekSpectrum read in the bytes of a status and  *)
(* of a spectrum.  Times are in milliseconds, voltages and temperatures in *)
(* the unit of their last place.                                           *)
(***************************************************************************)
EXTENDS Integers, Sequences

STATUS_SIZE == 64

\* raw_status[i], and its bit k.
Raw(raw, i) == raw[i + 1]
Bit(raw, i, k) == (Raw(raw, i) \div 2 ^ k) % 2 = 1

\* mergeBytes of two or three: the bytes at places, the most significant first.
Merge(raw, places) ==
    LET merge[k \in 0..Len(places)] ==
            IF k = 0 THEN 0 ELSE 256 * merge[k - 1] + Raw(raw, places[k])
    IN  merge[Len(places)]

\* mergeBytes of four, without a sign: as its two words of 16 bits.
MergeWords(raw, a, b, c, d) == <<Merge(raw, <<a, b>>), Merge(raw, <<c, d>>)>>

signed_word16(w) == IF w < 32768 THEN w ELSE w - 65536

\* What becomes of the unsigned number in a getter that returns an int.
ToInt(words) == 65536 * signed_word16(words[1]) + words[2]

FastCount(raw) == ToInt(MergeWords(raw, 3, 2, 1, 0))
SlowCount(raw) == ToInt(MergeWords(raw, 7, 6, 5, 4))
GpCount(raw) == ToInt(MergeWords(raw, 11, 10, 9, 8))

\* As a fraction, numerator and denominator.
DeadTime(raw) ==
    CASE FastCount(raw) # 0 -> <<FastCount(raw) - SlowCount(raw), FastCount(raw)>>
      [] FastCount(raw) = 0 /\ SlowCount(raw) = 0 -> <<0, 1>>
      [] OTHER -> <<1, 1>>

\* A mistake the checks must notice: the bytes the other way round.
AccTimeSwapped(raw) == Raw(raw, 12) + 100 * Merge(raw, <<13, 14, 15>>)

AccTime(raw) == Raw(raw, 12) + 100 * Merge(raw, <<15, 14, 13>>)
\* A double, which has room for the unsigned number.
RealTime(raw) == MergeWords(raw, 23, 22, 21, 20)

FirmwareMajor(raw) == Raw(raw, 24) \div 16
FirmwareMinor(raw) == Raw(raw, 24) % 16
\* A mistake the checks must notice: the build in the byte of the version.
FirmwareBuildSame(raw) == Raw(raw, 24) % 16

FirmwareBuild(raw) == Raw(raw, 37) % 16
FpgaMajor(raw) == Raw(raw, 25) \div 16
FpgaMinor(raw) == Raw(raw, 25) % 16
SerialNb(raw) == ToInt(MergeWords(raw, 29, 28, 27, 26))

\* A signed 16-bit number of half volts; tenths of Kelvin; degrees Celsius.
HighVoltage(raw) == signed_word16(Merge(raw, <<30, 31>>))
DetectorTemp(raw) == Merge(raw, <<32, 33>>) % 4096
BoardTemp(raw) == Raw(raw, 34)
TecVoltage(raw) == Merge(raw, <<40, 41>>)

IsPresetTimeReached(raw) == Bit(raw, 35, 7)
IsEnabled(raw) == Bit(raw, 35, 5)
IsPresetCountReached(raw) == Bit(raw, 35, 4)
IsGated(raw) == ~Bit(raw, 35, 3)

FpgaClock(raw) == IF Bit(raw, 36, 1) THEN 80 ELSE 20
DeviceType(raw) == Raw(raw, 39)

ListModeLMMO(raw) == Bit(raw, 43, 3)
ListModeSync(raw) == Raw(raw, 43) % 4
ListModeClock(raw) ==
    (IF ListModeSync(raw) = 1 THEN 1000 ELSE 1) * (IF Bit(raw, 43, 2) THEN 1000 ELSE 100)

SequentialBufferRunning(raw) == Bit(raw, 46, 1)
SequentialBufferIndex(raw) == Merge(raw, <<46, 47>>) % 512

\* A mistake the checks must notice: two bytes of each channel.
BinsOfTwo(raw, nbins) ==
    [i \in 0..nbins - 1 |-> Merge(raw, <<2 * i + 1, 2 * i>>)]

\* AmptekSpectrum: channel i of nbins, of three bytes each.
Bins(raw, nbins) ==
    [i \in 0..nbins - 1 |-> Merge(raw, <<3 * i + 2, 3 * i + 1, 3 * i>>)]
=============================================================================
