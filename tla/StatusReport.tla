---------------------------- MODULE StatusReport ----------------------------
(***************************************************************************)
(* The way of a number from a detector to the caller: the detector puts it *)
(* into a status or a spectrum, this into a packet, the packet comes whole *)
(* or damaged into the handler's input buffer, is read out of it and its   *)
(* bytes are taken for numbers again.  And the way of a request.           *)
(*                                                                         *)
(* The detector is the simulator.  Its responses reach the caller as they  *)
(* are; those of a real one, which has the same layout, through the buffer *)
(* of the USB handler, over whatever response was there before.            *)
(***************************************************************************)
EXTENDS Packet, AmptekStatus, FiniteSets

CONSTANTS Detectors,    \* the simulator's counts, time in ms, preset, state
          Lengths,      \* lengths of spectra that MCAC asks for
          Values,       \* contents of a channel
          Calls,        \* requests: their names and 16-bit arguments
          Rates,        \* events per second of a test
          Damages,      \* what may be added to a byte on its way
          Others,       \* responses that are no status: acknowledges, list data
          BufferSize    \* bytes of the input buffer

\* Counts are 32 bits, which are given as two words of 16.
ASSUME DetectorsAssumption ==
    Detectors \subseteq [counts : (0..Word16 - 1) \X (0..Word16 - 1), ms : Nat,
                         preset : Int, enabled : BOOLEAN]
\* The field of the time is wide enough: 24 bits of tenths of a second.
ASSUME FieldsAssumption == \A d \in Detectors : d.ms < 100 * 2 ^ 24
\* COMMTEST_STREAM has the most arguments.
ASSUME CallsAssumption ==
    \A call \in Calls : /\ call[1] \in DOMAIN RequestIds
                        /\ call[2] \in Seq(0..Word16 - 1) /\ Len(call[2]) <= 4
ASSUME ValuesAssumption == Values \subseteq Nat /\ Lengths \subseteq Nat \ {0}
ASSUME RatesAssumption == Rates \subseteq Nat \ {0}
ASSUME DamagesAssumption == Damages \subseteq Byte \ {0}
ASSUME BufferAssumption == BufferSize \in Nat /\ BufferSize >= STATUS_SIZE + MIN_PACKET_LEN
ASSUME OthersAssumption ==
    \A bytes \in Others : bytes \in Seq(Byte) /\ Len(bytes) <= BufferSize

VARIABLES
    detector,   \* what the detector holds as it answers
    buffer,     \* the input buffer
    response,   \* what sendAndReceive returns; <<>> if it throws
    came,       \* how the last response came: see Arrive
    channels,   \* the spectrum that the simulator sent, and what it was read as
    request     \* the last request, its bytes, and of a test the clock and rate

vars == <<detector, buffer, response, came, channels, request>>

NoCame == [how |-> "none", place |-> 0]
NoChannels == [len |-> 0, value |-> 0, read |-> <<>>]
NoRequest == [call |-> <<>>, bytes |-> <<>>, test |-> <<>>]

\* channels and request are about the last step only.
NoOther == channels' = NoChannels /\ request' = NoRequest

Init ==
    /\ detector = [counts |-> <<0, 0>>, ms |-> 0, preset |-> 0, enabled |-> FALSE]
    /\ buffer = [i \in 1..BufferSize |-> 0]
    /\ response = <<>>
    /\ came = NoCame
    /\ channels = NoChannels
    /\ request = NoRequest

-----------------------------------------------------------------------------
(* The simulator's answers.                                                *)

\* Byte k of v, the least significant being 0.
Octet(v, k) == (v \div 256 ^ k) % 256

\* Byte k of the 32 bits of the counts.
CountOctet(counts, k) == Octet(IF k < 2 THEN counts[2] ELSE counts[1], k % 2)

\* createStatusData.  acc_time is in milliseconds; computed in floating point,
\* its last digit may come out one less.  The time of the preset is "reached"
\* whenever acc_time is not above it.  The real time is sent in tenths of a
\* second, although it was computed in milliseconds.
Status(d, less) ==
    LET tenths == d.ms \div 100
        byte(i) ==
            CASE i \in 0..3 -> CountOctet(d.counts, i)
              [] i \in 4..7 -> CountOctet(d.counts, i - 4)
              [] i = 12 -> (d.ms % 100) - less
              [] i \in 13..15 -> Octet(tenths, i - 13)
              [] i \in 20..23 -> Octet(tenths, i - 20)
              [] i = 35 -> (IF d.preset > 0 /\ d.ms <= d.preset /\ ~d.enabled THEN 128 ELSE 0)
                           + (IF d.enabled THEN 32 ELSE 0)
              [] OTHER -> 0
    IN  [i \in 1..STATUS_SIZE |-> byte(i - 1)]

Less(d) == IF d.ms % 100 > 0 THEN {0, 1} ELSE {0}

\* createSpectrumData: three bytes of each channel.
SpectrumData(bins, len) ==
    [i \in 1..3 * len |-> Octet(bins[(i - 1) \div 3], (i - 1) % 3)]

\* The PID2 of a spectrum; it stays 0 for a length that is none of the six.
SpectrumPid2(len, status) ==
    LET without == CASE len = 256 -> 1 [] len = 512 -> 3 [] len = 1024 -> 5
                     [] len = 2048 -> 7 [] len = 4096 -> 9 [] len = 8192 -> 11
                     [] OTHER -> 0
    IN  IF status /\ without > 0 THEN without + 1 ELSE without

\* Bound: what came damaged or without the buffer is the last to come.
Fresh == came.how \in {"none", "whole", "another"}

\* A request for the status.
AnswerStatus(d, less) ==
    /\ Fresh
    /\ detector' = d
    /\ response' = ResizedPacket(STATUS_RESPONSE[1], STATUS_RESPONSE[2], Status(d, less))
    /\ came' = [how |-> "direct", place |-> 0]
    /\ NoOther
    /\ UNCHANGED buffer

\* A status with one bit more or less, from a detector that fills all fields.
AnswerOther(i, k) ==
    LET raw == Status(detector, 0)
        bit == IF Bit(raw, i, k) THEN -2 ^ k ELSE 2 ^ k
    IN  /\ came = NoCame
        /\ response' = ResizedPacket(STATUS_RESPONSE[1], STATUS_RESPONSE[2],
                                     [raw EXCEPT ![i + 1] = @ + bit])
        /\ came' = [how |-> "other", place |-> i]
        /\ NoOther
        /\ UNCHANGED <<detector, buffer>>

\* A request for the spectrum, or spectrum and status: updateSpectrum takes the
\* length from PID2 and looks for the status behind it.  With a PID2 that it
\* does not know it throws.
AnswerSpectrum(d, status, len, value) ==
    LET bins == [i \in 0..len - 1 |-> value + i]
        packet == ResizedPacket(SPECTRUM_RESPONSE, SpectrumPid2(len, status),
                    SpectrumData(bins, len) \o (IF status THEN Status(d, 0) ELSE <<>>))
        pid2 == At(packet, PID2)
        nbins == SpectrumLength(pid2)
    IN  /\ came = NoCame /\ request = NoRequest
        /\ status \/ d = detector
        /\ detector' = d
        /\ came' = [how |-> IF pid2 \notin 1..12 THEN "unknown"
                            ELSE IF WithStatus(pid2) THEN "direct" ELSE "spectrum",
                     place |-> 0]
        /\ channels' = IF pid2 \in 1..12
                       THEN [len |-> len, value |-> value,
                             read |-> Bins(DataOf(packet), nbins)]
                       ELSE NoChannels
        /\ response' = IF came'.how = "direct"
                       THEN ResizedPacket(STATUS_RESPONSE[1], STATUS_RESPONSE[2],
                            SubSeq(DataOf(packet), 3 * nbins + 1, 3 * nbins + STATUS_SIZE))
                       ELSE <<>>
        /\ UNCHANGED <<buffer, request>>

-----------------------------------------------------------------------------
(* A detector's answer through the input buffer.                           *)

Filled(bytes) == [i \in 1..BufferSize |-> IF i \in DOMAIN bytes THEN bytes[i] ELSE buffer[i]]

\* The bytes are put into the buffer over those of the response before, and read.
Arrive(d, bytes, how, place) ==
    /\ Fresh
    /\ detector' = d
    /\ came' = [how |-> how, place |-> place]
    /\ buffer' = Filled(bytes)
    /\ response' = IF Valid(fromByteArray(buffer')) THEN fromByteArray(buffer') ELSE <<>>
    /\ NoOther

\* A response to another request.
ArriveOther(bytes) == Arrive(detector, bytes, "another", 0)

Answer(d) == Packet(STATUS_RESPONSE[1], STATUS_RESPONSE[2], Status(d, 0))

ArriveWhole(d) == Arrive(d, Answer(d), "whole", 0)

\* Something is added to one of its bytes, if only the length stays what it is.
ArriveDamaged(d, place, damage) ==
    /\ place \notin {LEN_MSB, LEN_LSB}
    /\ Arrive(d, [Answer(d) EXCEPT ![place + 1] = (@ + damage) % 256], "damaged", place)

-----------------------------------------------------------------------------

\* A request is made of its name and its arguments.
Makes(name, words, test) ==
    /\ request' = [call |-> <<name, words>>, bytes |-> RequestWords(name, words),
                   test |-> test]
    /\ came = NoCame
    /\ UNCHANGED <<detector, buffer, response, came, channels>>

Ask(name, words) == Makes(name, words, <<>>)

\* A mistake the checks must notice: every detector runs at 80 MHz.
PeriodOf80(clock, rate) == IF rate > 10000000 THEN 8 ELSE 80000000 \div rate

\* Ticks of a clock (in MHz) between two events.
Period(clock, rate) ==
    IF 8 * rate > clock * 1000000 THEN 8 ELSE (clock * 1000000) \div rate

\* StartCommtestStreaming; the argument of the request has 16 bits.
StartCommtest(clock, rate) ==
    Makes("COMMTEST_STREAM", <<16, 8191, 1, Period(clock, rate) % Word16>>, <<clock, rate>>)

Done == ~Fresh /\ UNCHANGED vars

Next ==
    \/ \E d \in Detectors :
        \/ \E less \in Less(d) : AnswerStatus(d, less)
        \/ \E status \in BOOLEAN, len \in Lengths, value \in Values :
            AnswerSpectrum(d, status, len, value)
        \/ ArriveWhole(d)
        \/ \E place \in 0..71, damage \in Damages : ArriveDamaged(d, place, damage)
    \/ \E bytes \in Others : ArriveOther(bytes)
    \/ \E i \in 0..STATUS_SIZE - 1, k \in 0..7 : AnswerOther(i, k)
    \/ \E call \in Calls : Ask(call[1], call[2])
    \/ \E clock \in {20, 80}, rate \in Rates : StartCommtest(clock, rate)
    \/ Done

Spec == Init /\ [][Next]_vars

-----------------------------------------------------------------------------
(* Properties.                                                             *)

Arrived == came.how \in {"direct", "whole"}
Report == DataOf(response)

\* The counts as an int takes them: from 2^31 on they come out negative, 2^32 less.
CountsAsInt(counts) ==
    (IF counts[1] < 2 ^ 15 THEN counts[1] ELSE counts[1] - Word16) * Word16 + counts[2]

\* What the caller reads is what the detector held: all counts up to 2^31 (those
\* above are negative), no dead time, the accumulation time to within a millisecond,
\* and whether it is enabled; also in the status that comes behind a spectrum of any
\* length.  Two readings are not what their comments say, the simulator sending
\* something else: the real time comes out as a hundredth of it, and a preset time
\* counts as reached in a detector that is off until its time is above the preset.
ReadsBack ==
    Arrived =>
        /\ response # <<>>
        /\ FastCount(Report) = CountsAsInt(detector.counts)
        /\ SlowCount(Report) = CountsAsInt(detector.counts)
        /\ DeadTime(Report)[1] = 0
        /\ AccTime(Report) \in {detector.ms, detector.ms - 1}
        /\ RealTime(Report)[1] * Word16 + RealTime(Report)[2] = detector.ms \div 100
        /\ IsEnabled(Report) = detector.enabled
        /\ IsPresetTimeReached(Report)
             = (detector.preset > 0 /\ detector.ms <= detector.preset /\ ~detector.enabled)

\* A spectrum of any length and content is read channel by channel, each reduced
\* to its 24 bits; one with a length that has no PID2 is not taken for another.
SpectrumReadsBack ==
    channels # NoChannels =>
        /\ channels.len \in Speclens
        /\ channels.read = [i \in 0..channels.len - 1 |-> (channels.value + i) % 2 ^ 24]

\* A byte that was changed on its way is noticed, wherever it is but in LEN.
DamageNoticed == came.how = "damaged" => response = <<>>

\* What the getters read that do not depend on one another.
Readings(raw) ==
    [fast |-> FastCount(raw), slow |-> SlowCount(raw), gp |-> GpCount(raw),
     acc |-> AccTime(raw), real |-> RealTime(raw), serial |-> SerialNb(raw),
     firmware |-> FirmwareMajor(raw), minor |-> FirmwareMinor(raw),
     build |-> FirmwareBuild(raw), fpga |-> FpgaMajor(raw), fpgaminor |-> FpgaMinor(raw),
     hv |-> HighVoltage(raw), chip |-> DetectorTemp(raw), board |-> BoardTemp(raw),
     tec |-> TecVoltage(raw), timereached |-> IsPresetTimeReached(raw),
     enabled |-> IsEnabled(raw), countreached |-> IsPresetCountReached(raw),
     gated |-> IsGated(raw), clock |-> FpgaClock(raw), device |-> DeviceType(raw),
     lmmo |-> ListModeLMMO(raw), list |-> <<ListModeSync(raw), ListModeClock(raw)>>,
     running |-> SequentialBufferRunning(raw), index |-> SequentialBufferIndex(raw)]

\* Every bit of a status belongs to one reading at most: no two getters read the
\* same place, and no mask lets a neighbour's bit through.
ReadingsDisjoint ==
    came.how = "other" =>
        LET now == Readings(Report)
            before == Readings(Status(detector, 0))
        IN  Cardinality({f \in DOMAIN now : now[f] # before[f]}) <= 1

\* Every request that the program makes fits the USB endpoint, is valid for its
\* receiver, and has the type and the arguments that were meant, which no other
\* request has.
RequestReadsBack ==
    request # NoRequest =>
        LET bytes == request.bytes
            words == request.call[2]
        IN  /\ Len(bytes) <= 520 /\ ~Overruns(bytes)
            /\ fromByteArray(bytes) = bytes /\ Valid(bytes)
            /\ \A name \in DOMAIN RequestIds :
                  RequestIds[name] = <<At(bytes, PID1), At(bytes, PID2)>>
                    <=> name = request.call[1]
            /\ \A k \in DOMAIN words :
                  words[k] = mergeBytes(At(bytes, DATA + 2 * k - 2), At(bytes, DATA + 2 * k - 1))

\* A test that is asked for at a rate whose period fits into 16 bits, and is no
\* shorter than the shortest, runs at that rate, to within one tick of the period.
RateKept ==
    request.test # <<>> =>
        LET ticks == request.test[1] * 1000000
            rate == request.test[2]
            period == mergeBytes(At(request.bytes, DATA + 6), At(request.bytes, DATA + 7))
        IN  ticks \div Word16 < rate /\ rate <= ticks \div 8 =>
                period * rate <= ticks /\ ticks < (period + 1) * rate
=============================================================================
