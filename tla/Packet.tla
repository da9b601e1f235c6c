------------------------------- MODULE Packet -------------------------------
(***************************************************************************)
(* Packets as bytes: how class Packet builds one, how it reads one from a  *)
(* buffer, and which packets the program sends.  Unsigned types keep their *)
(* width; a sequence stands for a vector, whose at(i) is At(s, i).         *)
(***************************************************************************)
EXTENDS Integers, Sequences

Byte == 0..255
Word16 == 65536

At(bytes, i) == bytes[i + 1]

msbyte(w) == (w \div 256) % 256
lsbyte(w) == w % 256
mergeBytes(msb, lsb) == msb * 256 + lsb

\* Offsets of the header's fields.
PID1 == 2
PID2 == 3
LEN_MSB == 4
LEN_LSB == 5
DATA == 6
MIN_PACKET_LEN == 8

Sync == <<245, 250>>

twosComplement(n) == (Word16 - n) % Word16

\* The 16-bit sum of bytes, by halves: of those from i to j, for part = <<i, j>>.
Sum16(bytes) ==
    LET sum[part \in (1..Len(bytes) + 1) \X (0..Len(bytes))] ==
            LET i == part[1]
                j == part[2]
                mid == (i + j) \div 2
            IN  CASE j < i -> 0
                  [] i = j -> bytes[i]
                  [] OTHER -> (sum[<<i, mid>>] + sum[<<mid + 1, j>>]) % Word16
    IN  sum[<<1, Len(bytes)>>]

\* A mistake the checks must notice: the data is left out of the sum.
HeaderChecksum(bytes) == twosComplement(Sum16(SubSeq(bytes, 1, DATA)))

\* The checksum of a packet's bytes up to its checksum.
calcChecksum(bytes) == twosComplement(Sum16(bytes))

WithChecksum(bytes) ==
    bytes \o <<msbyte(calcChecksum(bytes)), lsbyte(calcChecksum(bytes))>>

\* A mistake the checks must notice: LEN counts the whole packet.
PacketLong(pid1, pid2, data) ==
    WithChecksum(Sync \o <<pid1, pid2, msbyte(Len(data) + 8), lsbyte(Len(data) + 8)>> \o data)

\* Packet(pid1, pid2, data, len); setData inserts the data before the checksum.
Packet(pid1, pid2, data) ==
    WithChecksum(Sync \o <<pid1, pid2, msbyte(Len(data)), lsbyte(Len(data))>> \o data)

\* The simulator resizes its packet before it inserts the data: as many zeros
\* remain behind the checksum, which is where dataLength says.
ResizedPacket(pid1, pid2, data) ==
    Packet(pid1, pid2, data) \o [i \in 1..Len(data) |-> 0]

\* fromByteArray believes LEN, whatever was received.
LengthIn(buffer) == mergeBytes(At(buffer, LEN_MSB), At(buffer, LEN_LSB))
Overruns(buffer) == LengthIn(buffer) + MIN_PACKET_LEN > Len(buffer)
fromByteArray(buffer) == SubSeq(buffer, 1, LengthIn(buffer) + MIN_PACKET_LEN)

\* validateChecksum throws unless this holds.
Valid(packet) ==
    LET n == Len(packet) - 2
    IN  calcChecksum(SubSeq(packet, 1, n)) = mergeBytes(packet[n + 1], packet[n + 2])

DataOf(packet) == SubSeq(packet, DATA + 1, Len(packet))

-----------------------------------------------------------------------------
(* The packets that the program sends, by name, and the types of responses. *)

RequestIds ==
    [STATUS |-> <<1, 1>>, SPECTRUM |-> <<2, 1>>, SPECTRUM_AND_STATUS |-> <<2, 3>>,
     BUFFER |-> <<2, 5>>, BUFFER_CLEAR |-> <<2, 6>>, GET_BUFFER |-> <<2, 7>>,
     LIST_DATA |-> <<3, 9>>, SET_CONFIG |-> <<32, 2>>, GET_CONFIG |-> <<32, 3>>,
     CLEAR_SPECTRUM |-> <<240, 1>>, ENABLE |-> <<240, 2>>, DISABLE |-> <<240, 3>>,
     CLEAR_LIST_TIMER |-> <<240, 22>>, RESTART_SEQ_BUFFERING |-> <<240, 30>>,
     CANCEL_SEQ_BUFFERING |-> <<240, 31>>, KEEP_ALIVE_NO_SHARING |-> <<240, 33>>,
     COMMTEST_STREAM |-> <<241, 126>>]

Request(name, data) == Packet(RequestIds[name][1], RequestIds[name][2], data)

\* The 16-bit arguments of a request, the most significant byte first.
RequestWords(name, words) ==
    Request(name, [i \in 1..2 * Len(words) |->
                    IF i % 2 = 1 THEN msbyte(words[(i + 1) \div 2])
                    ELSE lsbyte(words[i \div 2])])

STATUS_RESPONSE == <<128, 1>>
SPECTRUM_RESPONSE == 129

Speclens == {256, 512, 1024, 2048, 4096, 8192}

\* SPECTRUM256 = 1, SPECTRUM256_STATUS = 2, ... SPECTRUM8192_STATUS = 12.
SpectrumLength(pid2) == 256 * 2 ^ ((pid2 - 1) \div 2)
WithStatus(pid2) == pid2 % 2 = 0
=============================================================================
