------------------------- MODULE StatusReport_proofs -------------------------
(* Proofs about StatusReport and the packets it is made of: the checksum is *)
(* a sum modulo 2^16 that notices a changed byte, and what a packet is made *)
(* of is what its receiver reads, for requests with any arguments, spectra  *)
(* of any length and content, statuses of any detector and any damage.      *)
EXTENDS StatusReport, Counting, SequenceTheorems

------------------------------------------------------------------------------
(* Bytes and 16-bit words.                                                  *)

\* The values of a 16-bit word.
Words == 0..Word16 - 1

\* Words as natural numbers.
LEMMA WordRange ==
    /\ \A n \in Words : n \in Nat /\ n < 65536
    /\ \A n \in Nat : n < 65536 => n \in Words
<1> DEFINE k == Word16 - 1
<1>1. k \in Nat
  BY DEF Word16
<1>2. Words = 0..k
  BY DEF Words
<1>3. k = 65535
  BY DEF Word16
<1> HIDE DEF k
<1>4. /\ \A n \in 0..k : n \in Nat /\ n <= k
      /\ \A n \in Nat : n <= k => n \in 0..k
  BY <1>1
<1>5. \A n \in Nat : n < 65536 <=> n <= k
  BY <1>3
<1> QED
  BY <1>2, <1>4, <1>5

\* A word that is split into two bytes is put together again by mergeBytes.
LEMMA WordLemma ==
    ASSUME NEW w \in Words
    PROVE  /\ msbyte(w) \in Byte /\ lsbyte(w) \in Byte
           /\ mergeBytes(msbyte(w), lsbyte(w)) = w
<1> DEFINE high == w \div 256
           low == w % 256
<1>1. w \in Nat /\ w < 65536
  BY WordRange
<1>2. \A n \in Nat : n < 65536 => n \div 256 \in Nat /\ n \div 256 < 256
  OBVIOUS
<1>3. \A n \in Nat : n < 256 => n % 256 = n
  OBVIOUS
<1>4. \A n \in Nat : n % 256 = n - 256 * (n \div 256) /\ n % 256 \in 0..255
  OBVIOUS
<1>5. high \in Nat /\ high < 256 /\ high % 256 = high /\ low = w - 256 * high /\ low \in 0..255
  BY <1>1, <1>2, <1>3, <1>4
<1>6. msbyte(w) = high /\ lsbyte(w) = low
  BY <1>5 DEF msbyte, lsbyte
<1> HIDE DEF high, low
<1>7. high \in 0..255 /\ low \in 0..255 /\ high * 256 + low = w
  BY <1>1, <1>5
<1> QED
  BY <1>6, <1>7 DEF mergeBytes, Byte

\* Bytes are words, and msbyte and lsbyte are bytes of any number.
LEMMA ByteLemma ==
    /\ \A b \in Byte : b \in Nat /\ b < Word16
    /\ \A n \in Nat : msbyte(n) \in Byte /\ lsbyte(n) \in Byte
<1>1. \A n \in Nat : (n \div 256) % 256 \in 0..255 /\ n % 256 \in 0..255
  <2>1. \A n \in Nat : n % 256 \in 0..255 /\ n \div 256 \in Nat
    OBVIOUS
  <2> QED
    BY <2>1
<1> QED
  BY <1>1 DEF Byte, Word16, msbyte, lsbyte

\* Sums modulo 2^16.
LEMMA Word16Arithmetic ==
    /\ \A m, n \in Nat : ((m % Word16) + (n % Word16)) % Word16 = (m + n) % Word16
    /\ \A n \in Nat : n < Word16 => n % Word16 = n
    /\ \A n \in Nat : n % Word16 \in Nat /\ n % Word16 < Word16
<1>1. \A m, n \in Nat : ((m % 65536) + (n % 65536)) % 65536 = (m + n) % 65536
  OBVIOUS
<1>2. \A n \in Nat : n < 65536 => n % 65536 = n
  OBVIOUS
<1>3. \A n \in Nat : n % 65536 \in Nat /\ n % 65536 < 65536
  OBVIOUS
<1> QED
  BY <1>1, <1>2, <1>3 DEF Word16

\* The two's complement is a word, another one for every word.
LEMMA Twos ==
    /\ \A n \in Words : twosComplement(n) \in Words
    /\ \A m, n \in Words : twosComplement(m) = twosComplement(n) => m = n
    /\ twosComplement(0) = 0
<1>1. \A n \in Nat : n < 65536 /\ n # 0 => (65536 - n) % 65536 = 65536 - n
  OBVIOUS
<1>2. (65536 - 0) % 65536 = 0
  OBVIOUS
<1>3. \A n \in Words : n \in Nat /\ n < 65536
  BY WordRange
<1>4. /\ twosComplement(0) = 0
      /\ \A n \in Words : n # 0 => twosComplement(n) = 65536 - n
  BY <1>1, <1>2, <1>3 DEF twosComplement, Word16
<1>5. \A n \in Words : twosComplement(n) \in Words
  <2>1. \A n \in Nat : n < 65536 /\ n # 0 => 65536 - n \in Nat /\ 65536 - n < 65536
    OBVIOUS
  <2> QED
    BY <1>3, <1>4, <2>1, WordRange
<1>6. \A m, n \in Words : twosComplement(m) = twosComplement(n) => m = n
  BY <1>3, <1>4
<1> QED
  BY <1>4, <1>5, <1>6

------------------------------------------------------------------------------
(* The 16-bit sum. Sum16 halves its argument until single bytes remain; it  *)
(* is the sum of all bytes, modulo 2^16, for every length because there is  *)
(* no shortest part for which it is not.                                    *)

\* Any of the bytes, as Counting needs them.
LEMMA BytesPart ==
    ASSUME NEW bytes \in Seq(Byte), NEW S, S \subseteq 1..Len(bytes)
    PROVE  Part(bytes, S)
<1>1. Len(bytes) \in Nat /\ DOMAIN bytes = 1..Len(bytes)
  OBVIOUS
<1>2. \A i \in 1..Len(bytes) : bytes[i] \in Nat
  <2>1. \A i \in 1..Len(bytes) : bytes[i] \in Byte
    OBVIOUS
  <2> QED
    BY <2>1, ByteLemma
<1>3. IsFiniteSet(1..Len(bytes)) /\ S \in SUBSET (1..Len(bytes))
  BY <1>1, FS_Interval
<1>4. IsFiniteSet(S)
  BY <1>3, FS_Subset
<1> QED
  BY <1>1, <1>2, <1>4 DEF Part

\* One step of Sum16, and a function that makes it everywhere.
SumOf(bytes, sum, i, j) ==
    CASE j < i -> 0
      [] i = j -> bytes[i]
      [] OTHER -> (sum[<<i, (i + j) \div 2>>] + sum[<<(i + j) \div 2 + 1, j>>]) % Word16

\* The parts that bytes can be halved into, empty ones included.
Parts(bytes) == (1..Len(bytes) + 1) \X (0..Len(bytes))

\* sum makes that step at every part.
Sums(bytes, sum) ==
    sum = [part \in Parts(bytes) |-> SumOf(bytes, sum, part[1], part[2])]

\* Such a function, at one part.
LEMMA SumStep ==
    ASSUME NEW bytes, NEW sum, Sums(bytes, sum),
           NEW i \in 1..Len(bytes) + 1, NEW j \in 0..Len(bytes)
    PROVE  sum[<<i, j>>] = SumOf(bytes, sum, i, j)
<1>1. <<i, j>> \in Parts(bytes)
  BY DEF Parts
<1>2. sum[<<i, j>>] = SumOf(bytes, sum, <<i, j>>[1], <<i, j>>[2])
  BY <1>1 DEF Sums
<1> QED
  BY <1>2

\* There is one: the sum of the part's bytes.
LEMMA SumsExist ==
    ASSUME NEW bytes \in Seq(Byte)
    PROVE  Sums(bytes, [part \in Parts(bytes) |-> Held(bytes, part[1]..part[2]) % Word16])
<1> DEFINE n == Len(bytes)
           held(i, j) == Held(bytes, i..j)
           sum == [part \in Parts(bytes) |-> held(part[1], part[2]) % Word16]
<1>1. n \in Nat /\ \A i \in 1..n : bytes[i] \in Byte
  OBVIOUS
<1>2. SUFFICES ASSUME NEW i \in 1..n + 1, NEW j \in 0..n
               PROVE  held(i, j) % Word16 = SumOf(bytes, sum, i, j)
  BY DEF Sums, Parts
<1>3. CASE j < i
  <2>1. i..j = {}
    BY <1>1, <1>3
  <2>2. held(i, j) = 0
    BY <2>1, HeldNone
  <2> QED
    BY <1>3, <2>2, Word16Arithmetic DEF SumOf, Word16
<1>4. CASE i = j
  <2>1. i..j = {i} /\ bytes[i] \in Nat /\ bytes[i] < Word16
    <3>1. i \in 1..n /\ i..j = {i}
      BY <1>1, <1>4
    <3>2. bytes[i] \in Byte
      BY <1>1, <3>1
    <3> QED
      BY <3>1, <3>2, ByteLemma
  <2>2. held(i, j) = bytes[i]
    BY <2>1, HeldOne
  <2>3. held(i, j) % Word16 = bytes[i]
    BY <2>1, <2>2, Word16Arithmetic
  <2> QED
    BY <1>4, <2>3 DEF SumOf
<1>5. CASE i < j
  <2> DEFINE mid == (i + j) \div 2
  <2>1. mid \in Nat /\ i <= mid /\ mid < j
    BY <1>1, <1>5
  <2> HIDE DEF mid
  <2>2. /\ mid \in 0..n /\ mid + 1 \in 1..n + 1
        /\ (i..mid) \cap (mid + 1..j) = {} /\ i..j = (i..mid) \cup (mid + 1..j)
        /\ i..mid \subseteq 1..n /\ mid + 1..j \subseteq 1..n
    BY <1>1, <2>1
  <2>3. Part(bytes, i..mid) /\ Part(bytes, mid + 1..j)
    BY <2>2, BytesPart
  <2>4. held(i, j) = held(i, mid) + held(mid + 1, j)
    BY <2>2, <2>3, HeldUnion
  <2>5. held(i, mid) \in Nat /\ held(mid + 1, j) \in Nat
    BY <2>3, HeldTyped
  <2> HIDE DEF held
  <2>6. held(i, j) % Word16 = ((held(i, mid) % Word16) + (held(mid + 1, j) % Word16)) % Word16
    <3>1. ((held(i, mid) % Word16) + (held(mid + 1, j) % Word16)) % Word16
            = (held(i, mid) + held(mid + 1, j)) % Word16
      BY <2>5, Word16Arithmetic, Zenon
    <3> QED
      BY <2>4, <3>1, Zenon
  <2>7. <<i, mid>> \in Parts(bytes) /\ <<mid + 1, j>> \in Parts(bytes)
    BY <2>2 DEF Parts
  <2> HIDE DEF sum
  <2>8. sum[<<i, mid>>] = held(i, mid) % Word16 /\ sum[<<mid + 1, j>>] = held(mid + 1, j) % Word16
    BY <2>7 DEF sum
  <2>9. SumOf(bytes, sum, i, j) = (sum[<<i, mid>>] + sum[<<mid + 1, j>>]) % Word16
    BY <1>5 DEF SumOf, mid
  <2>10. SumOf(bytes, sum, i, j) = ((held(i, mid) % Word16) + (held(mid + 1, j) % Word16)) % Word16
    BY <2>8, <2>9
  <2> QED
    BY <2>6, <2>10
<1> QED
  BY <1>1, <1>3, <1>4, <1>5

\* And no other: two of them would differ first at a shortest part.
LEMMA SumsUnique ==
    ASSUME NEW bytes \in Seq(Byte), NEW sum, Sums(bytes, sum), NEW other, Sums(bytes, other)
    PROVE  sum[<<1, Len(bytes)>>] = other[<<1, Len(bytes)>>]
<1> DEFINE n == Len(bytes)
           differ(i, j) == sum[<<i, j>>] # other[<<i, j>>]
           D == {d \in Nat : \E i \in 1..n + 1, j \in 0..n : j < i + d /\ differ(i, j)}
<1>1. n \in Nat
  OBVIOUS
<1>2. D = {}
  <2>1. SUFFICES ASSUME D # {} PROVE FALSE
    OBVIOUS
  <2>2. PICK d \in D : d \in Nat /\ \A e \in D : d <= e
    <3>1. D \in SUBSET Nat
      OBVIOUS
    <3> HIDE DEF D
    <3> QED
      BY <2>1, <3>1, Least
  <2>3. PICK i \in 1..n + 1, j \in 0..n : j < i + d /\ differ(i, j)
    OBVIOUS
  <2>4. SumOf(bytes, sum, i, j) # SumOf(bytes, other, i, j)
    BY <2>3, SumStep
  <2>5. i < j
    BY <2>4 DEF SumOf
  <2> DEFINE mid == (i + j) \div 2
  <2>6. mid \in 0..n /\ mid + 1 \in 1..n + 1 /\ i <= mid /\ mid < j
    BY <1>1, <2>5
  <2>7. differ(i, mid) \/ differ(mid + 1, j)
    <3> HIDE DEF D
    <3> QED
      BY <2>4, <2>5 DEF SumOf
  <2> HIDE DEF mid, differ
  <2>8. d - 1 \in Nat /\ mid < i + (d - 1) /\ j < mid + 1 + (d - 1)
    BY <1>1, <2>3, <2>5, <2>6
  <2>9. d - 1 \in D
    BY <2>6, <2>7, <2>8
  <2> HIDE DEF D
  <2> QED
    BY <2>2, <2>8, <2>9
<1>3. SUFFICES ASSUME differ(1, n) PROVE FALSE
  OBVIOUS
<1>4. n + 1 \in D
  <2>1. n + 1 \in Nat /\ 1 \in 1..n + 1 /\ n \in 0..n /\ n < 1 + (n + 1)
    BY <1>1
  <2> HIDE DEF differ
  <2> QED
    BY <1>3, <2>1
<1> QED
  BY <1>2, <1>4

\* Sum16 is the sum of the bytes modulo 2^16, whatever halves it is made of.
LEMMA SumLemma ==
    ASSUME NEW bytes \in Seq(Byte)
    PROVE  Sum16(bytes) = Held(bytes, 1..Len(bytes)) % Word16
<1> DEFINE held == [part \in Parts(bytes) |-> Held(bytes, part[1]..part[2]) % Word16]
           sum == CHOOSE sum : Sums(bytes, sum)
<1>1. Sums(bytes, held)
  BY SumsExist
<1>2. Sums(bytes, sum)
  <2> HIDE DEF held
  <2> QED
    BY <1>1
<1>3. Sum16(bytes) = sum[<<1, Len(bytes)>>]
  BY DEF Sum16, Sums, SumOf, Parts
<1>4. sum[<<1, Len(bytes)>>] = held[<<1, Len(bytes)>>]
  <2> HIDE DEF held, sum
  <2> QED
    BY <1>1, <1>2, SumsUnique
<1>5. <<1, Len(bytes)>> \in Parts(bytes)
  BY DEF Parts
<1>6. held[<<1, Len(bytes)>>] = Held(bytes, 1..Len(bytes)) % Word16
  BY <1>5
<1> QED
  BY <1>3, <1>4, <1>6

\* The first n bytes of a packet and their sum.
LEMMA PrefixSum ==
    ASSUME NEW p \in Seq(Byte), NEW n \in 0..Len(p)
    PROVE  /\ SubSeq(p, 1, n) \in Seq(Byte) /\ Len(SubSeq(p, 1, n)) = n
           /\ \A i \in 1..n : SubSeq(p, 1, n)[i] = p[i]
           /\ Sum16(SubSeq(p, 1, n)) = Held(p, 1..n) % Word16
           /\ Sum16(SubSeq(p, 1, n)) \in Words
           /\ Held(p, 1..n) \in Nat
<1> DEFINE q == SubSeq(p, 1, n)
<1>1. q \in Seq(Byte) /\ Len(q) = n /\ \A i \in 1..n : q[i] = p[i]
  OBVIOUS
<1> HIDE DEF q
<1>2. Sum16(q) = Held(q, 1..n) % Word16
  BY <1>1, SumLemma
<1>3. Held(q, 1..n) = Held(p, 1..n)
  BY <1>1, HeldSame
<1>4. Held(p, 1..n) \in Nat
  <2>1. 1..n \subseteq 1..Len(p)
    OBVIOUS
  <2> QED
    BY <2>1, BytesPart, HeldTyped
<1>5. Held(p, 1..n) % Word16 \in Words
  <2>1. Held(p, 1..n) % Word16 \in Nat /\ Held(p, 1..n) % Word16 < Word16
    BY <1>4, Word16Arithmetic
  <2>2. \A w \in Nat : w < Word16 => w \in Words
    BY WordRange DEF Word16
  <2> QED
    BY <2>1, <2>2
<1> QED
  BY <1>1, <1>2, <1>3, <1>4, <1>5 DEF q

\* A checksum is a word.
LEMMA SumTyped ==
    ASSUME NEW bytes \in Seq(Byte)
    PROVE  calcChecksum(bytes) \in Words
<1>1. Len(bytes) \in 0..Len(bytes) /\ SubSeq(bytes, 1, Len(bytes)) = bytes
  OBVIOUS
<1>2. Sum16(SubSeq(bytes, 1, Len(bytes))) \in Words
  BY <1>1, PrefixSum, Zenon
<1>3. Sum16(bytes) \in Words
  BY <1>1, <1>2, Zenon
<1> QED
  BY <1>3, Twos DEF calcChecksum

\* Sums of numbers that are equal modulo 2^16.
LEMMA SumsEqual ==
    /\ \A a, b, c \in Nat : (a + c) % Word16 = (b + c) % Word16 => a % Word16 = b % Word16
    /\ \A a, b \in Nat : /\ a % Word16 = b % Word16
                         /\ a - b < Word16 /\ b - a < Word16
                         => a = b
<1>1. \A a, b, c \in Nat : (a + c) % 65536 = (b + c) % 65536 => a % 65536 = b % 65536
  OBVIOUS
<1>2. \A a, b \in Nat : a % 65536 = b % 65536 /\ a - b < 65536 /\ b - a < 65536 => a = b
  OBVIOUS
<1> QED
  BY <1>1, <1>2 DEF Word16

------------------------------------------------------------------------------
(* Packets: what they are made of, and what is read out of a buffer.        *)

\* u is s followed by t.
Joint(u, s, t) ==
    /\ u \in Seq(Byte) /\ Len(u) = Len(s) + Len(t)
    /\ \A i \in 1..Len(s) : u[i] = s[i]
    /\ \A i \in 1..Len(t) : u[Len(s) + i] = t[i]

\* What \o makes of two sequences of bytes.
LEMMA Joined ==
    ASSUME NEW s \in Seq(Byte), NEW t \in Seq(Byte)
    PROVE  Joint(s \o t, s, t)
<1>1. s \o t \in Seq(Byte) /\ Len(s \o t) = Len(s) + Len(t)
  BY ConcatProperties, Zenon
<1>2. \A i \in 1..Len(s) + Len(t) :
          (s \o t)[i] = IF i <= Len(s) THEN s[i] ELSE t[i - Len(s)]
  BY ConcatProperties, Zenon
<1>3. Len(s) \in Nat /\ Len(t) \in Nat
  OBVIOUS
<1>4. /\ \A i \in 1..Len(s) : i \in 1..Len(s) + Len(t)
      /\ \A i \in 1..Len(t) : /\ Len(s) + i \in 1..Len(s) + Len(t)
                              /\ ~(Len(s) + i <= Len(s)) /\ (Len(s) + i) - Len(s) = i
  BY <1>3
<1> QED
  BY <1>1, <1>2, <1>4 DEF Joint

\* What a packet is made of.
Formed(p, pid1, pid2, data) ==
    LET sum == calcChecksum(SubSeq(p, 1, Len(data) + 6))
    IN  /\ p \in Seq(Byte) /\ Len(p) = Len(data) + 8
        /\ p[1] = 245 /\ p[2] = 250 /\ p[3] = pid1 /\ p[4] = pid2
        /\ p[5] = msbyte(Len(data)) /\ p[6] = lsbyte(Len(data))
        /\ \A i \in 1..Len(data) : p[i + 6] = data[i]
        /\ sum \in Words
        /\ p[Len(data) + 7] = msbyte(sum) /\ p[Len(data) + 8] = lsbyte(sum)

\* Packet makes it so: the header, the data, and the checksum of both.
LEMMA PacketFormed ==
    ASSUME NEW pid1 \in Byte, NEW pid2 \in Byte, NEW data \in Seq(Byte)
    PROVE  Formed(Packet(pid1, pid2, data), pid1, pid2, data)
<1> DEFINE n == Len(data)
           fields == <<pid1, pid2, msbyte(Len(data)), lsbyte(Len(data))>>
           header == Sync \o fields
           body == header \o data
           sum == calcChecksum(body)
           last == <<msbyte(sum), lsbyte(sum)>>
           p == body \o last
<1>1. Packet(pid1, pid2, data) = p
  BY DEF Packet, WithChecksum
<1>2. n \in Nat /\ \A i \in 1..n : data[i] \in Byte
  OBVIOUS
<1>3. /\ fields \in Seq(Byte) /\ Len(fields) = 4
      /\ fields[1] = pid1 /\ fields[2] = pid2
      /\ fields[3] = msbyte(n) /\ fields[4] = lsbyte(n)
  <2>1. msbyte(n) \in Byte /\ lsbyte(n) \in Byte
    BY <1>2, ByteLemma
  <2> QED
    BY <2>1
<1>4. Sync \in Seq(Byte) /\ Len(Sync) = 2 /\ Sync[1] = 245 /\ Sync[2] = 250
  <2>1. 245 \in Byte /\ 250 \in Byte
    BY DEF Byte
  <2> QED
    BY <2>1 DEF Sync
<1> HIDE DEF fields, n
<1>5. /\ header \in Seq(Byte) /\ Len(header) = 6
      /\ header[1] = 245 /\ header[2] = 250
      /\ header[3] = pid1 /\ header[4] = pid2
      /\ header[5] = msbyte(n) /\ header[6] = lsbyte(n)
  <2>1. /\ header \in Seq(Byte) /\ Len(header) = 2 + 4
        /\ \A i \in 1..2 : header[i] = Sync[i]
        /\ \A i \in 1..4 : header[2 + i] = fields[i]
    <3>1. Joint(header, Sync, fields)
      BY <1>3, <1>4, Joined
    <3> HIDE DEF header
    <3> QED
      BY <1>3, <1>4, <3>1 DEF Joint
  <2> HIDE DEF header
  <2> QED
    BY <1>3, <1>4, <2>1
<1> HIDE DEF header
<1>6. /\ body \in Seq(Byte) /\ Len(body) = 6 + n
      /\ \A i \in 1..6 : body[i] = header[i]
      /\ \A i \in 1..n : body[6 + i] = data[i]
  <2>1. Joint(body, header, data)
    BY <1>5, Joined
  <2> HIDE DEF body
  <2> QED
    BY <1>5, <2>1 DEF n, Joint
<1> HIDE DEF body
<1>7. sum \in Words
  BY <1>6, SumTyped
<1>8. last \in Seq(Byte) /\ Len(last) = 2 /\ last[1] = msbyte(sum) /\ last[2] = lsbyte(sum)
  <2>1. msbyte(sum) \in Byte /\ lsbyte(sum) \in Byte
    BY <1>7, WordLemma
  <2> QED
    BY <2>1
<1> HIDE DEF sum, last
<1>9. /\ p \in Seq(Byte) /\ Len(p) = 6 + n + 2
      /\ \A i \in 1..6 + n : p[i] = body[i]
      /\ \A i \in 1..2 : p[6 + n + i] = last[i]
  <2>1. Joint(p, body, last)
    BY <1>6, <1>8, Joined
  <2> HIDE DEF p
  <2> QED
    BY <1>6, <1>8, <2>1 DEF Joint
<1> HIDE DEF p
<1>10. SubSeq(p, 1, n + 6) = body
  <2>1. \A i \in 1..n + 6 : p[i] = body[i]
    BY <1>2, <1>9
  <2>2. Len(body) = n + 6
    BY <1>2, <1>6
  <2>3. SubSeq(p, 1, n + 6) = [i \in 1..n + 6 |-> p[i]]
    BY <1>2, <1>9
  <2>4. body = [i \in 1..n + 6 |-> body[i]]
    BY <1>6, <2>2
  <2> QED
    BY <2>1, <2>3, <2>4
<1>11. /\ p[1] = 245 /\ p[2] = 250 /\ p[3] = pid1 /\ p[4] = pid2
       /\ p[5] = msbyte(n) /\ p[6] = lsbyte(n)
  <2>1. \A i \in 1..6 : p[i] = header[i]
    BY <1>2, <1>6, <1>9
  <2> QED
    BY <1>5, <2>1
<1>12. \A i \in 1..n : p[i + 6] = data[i]
  <2>1. \A i \in 1..n : 6 + i \in 1..6 + n /\ i + 6 = 6 + i
    BY <1>2
  <2> QED
    BY <1>6, <1>9, <2>1
<1>13. Len(p) = n + 8 /\ p[n + 7] = msbyte(sum) /\ p[n + 8] = lsbyte(sum)
  <2>1. 6 + n + 1 = n + 7 /\ 6 + n + 2 = n + 8
    BY <1>2
  <2> QED
    BY <1>8, <1>9, <2>1
<1> QED
  BY <1>1, <1>7, <1>9, <1>10, <1>11, <1>12, <1>13 DEF Formed, sum, n

\* What validateChecksum compares.
LEMMA ValidMeans ==
    ASSUME NEW p \in Seq(Byte), NEW m \in Nat, Len(p) = m + 2
    PROVE  Valid(p) <=> twosComplement(Sum16(SubSeq(p, 1, m))) = mergeBytes(p[m + 1], p[m + 2])
<1>1. Len(p) - 2 = m
  OBVIOUS
<1> QED
  BY <1>1 DEF Valid, calcChecksum

\* A packet passes the check of its receiver.
LEMMA FormedValid ==
    ASSUME NEW p, NEW pid1, NEW pid2, NEW data \in Seq(Byte), Formed(p, pid1, pid2, data)
    PROVE  Valid(p)
<1> DEFINE m == Len(data) + 6
           sum == calcChecksum(SubSeq(p, 1, m))
<1>1. m \in Nat /\ m + 1 = Len(data) + 7 /\ m + 2 = Len(data) + 8
  OBVIOUS
<1>2. /\ p \in Seq(Byte) /\ Len(p) = m + 2 /\ sum \in Words
      /\ p[m + 1] = msbyte(sum) /\ p[m + 2] = lsbyte(sum)
  BY <1>1 DEF Formed
<1>3. mergeBytes(p[m + 1], p[m + 2]) = sum
  BY <1>2, WordLemma
<1> HIDE DEF m
<1> QED
  BY <1>1, <1>2, <1>3, ValidMeans DEF calcChecksum

\* The data of a packet, whatever follows.
LEMMA DataOfLemma ==
    ASSUME NEW p \in Seq(Byte), NEW i \in Nat, i + 7 <= Len(p)
    PROVE  Raw(DataOf(p), i) = p[i + 7]
<1>1. SubSeq(p, 7, Len(p)) = [k \in 1..Len(p) - 6 |-> p[k + 6]]
  OBVIOUS
<1>2. i + 1 \in 1..Len(p) - 6 /\ (i + 1) + 6 = i + 7
  OBVIOUS
<1>3. SubSeq(p, 7, Len(p))[i + 1] = p[i + 7]
  BY <1>1, <1>2
<1>4. DATA + 1 = 7
  BY DEF DATA
<1> QED
  BY <1>3, <1>4 DEF DataOf, Raw

\* Part of the data of a packet.
LEMMA DataPart ==
    ASSUME NEW p \in Seq(Byte), NEW n \in Nat, NEW m \in Nat, n + m + 6 <= Len(p)
    PROVE  LET part == SubSeq(DataOf(p), n + 1, n + m)
           IN  /\ part \in Seq(Byte) /\ Len(part) = m
               /\ \A i \in 1..m : part[i] = p[n + i + 6]
<1> DEFINE data == DataOf(p)
           k == Len(p) - 6
           part == SubSeq(data, n + 1, n + m)
<1>1. k \in Nat /\ n + m <= k
  OBVIOUS
<1>2. data = [i \in 1..k |-> p[i + 6]]
  BY DEF DataOf, DATA
<1>3. \A i \in 1..k : p[i + 6] \in Byte
  OBVIOUS
<1> HIDE DEF data, k
<1>4. data \in Seq(Byte) /\ Len(data) = k
  BY <1>1, <1>2, <1>3
<1>5. part = [i \in 1..m |-> data[n + i]]
  BY <1>1, <1>4
<1> HIDE DEF part
<1>6. \A i \in 1..m : n + i \in 1..k
  BY <1>1
<1>7. \A i \in 1..m : data[n + i] = p[n + i + 6] /\ data[n + i] \in Byte
  BY <1>2, <1>3, <1>6
<1>8. part \in Seq(Byte) /\ Len(part) = m
  <2> DEFINE byte(i) == data[n + i]
  <2>1. \A i \in 1..m : byte(i) \in Byte
    BY <1>7
  <2>2. part = [i \in 1..m |-> byte(i)]
    BY <1>5
  <2> HIDE DEF byte
  <2> QED
    BY <2>1, <2>2
<1> QED
  BY <1>5, <1>7, <1>8 DEF data, part

\* What the simulator's packet keeps of its data, with zeros behind it.
Resized(p, pid2, data) ==
    /\ p \in Seq(Byte) /\ Len(p) = 2 * Len(data) + 8
    /\ p[4] = pid2
    /\ \A i \in 1..Len(data) : p[i + 6] = data[i]

\* ResizedPacket makes it so.
LEMMA ResizedFormed ==
    ASSUME NEW pid1 \in Byte, NEW pid2 \in Byte, NEW data \in Seq(Byte)
    PROVE  Resized(ResizedPacket(pid1, pid2, data), pid2, data)
<1> DEFINE n == Len(data)
           packet == Packet(pid1, pid2, data)
           rest == [i \in 1..n |-> 0]
           p == packet \o rest
<1>1. n \in Nat
  OBVIOUS
<1>2. rest \in Seq(Byte) /\ Len(rest) = n
  <2>1. 0 \in Byte
    BY DEF Byte
  <2> HIDE DEF n
  <2> QED
    BY <1>1, <2>1
<1>3. Formed(packet, pid1, pid2, data)
  BY PacketFormed
<1>4. /\ packet \in Seq(Byte) /\ Len(packet) = n + 8 /\ packet[4] = pid2
      /\ \A i \in 1..n : packet[i + 6] = data[i]
  BY <1>3 DEF Formed
<1> HIDE DEF packet, rest
<1>5. Joint(p, packet, rest)
  BY <1>2, <1>4, Joined
<1> HIDE DEF p
<1>6. /\ p \in Seq(Byte) /\ Len(p) = n + 8 + n
      /\ \A i \in 1..n + 8 : p[i] = packet[i]
  BY <1>2, <1>4, <1>5 DEF Joint
<1>7. p[4] = pid2
  BY <1>1, <1>4, <1>6
<1>8. \A i \in 1..n : p[i + 6] = data[i]
  <2>1. \A i \in 1..n : i + 6 \in 1..n + 8
    BY <1>1
  <2> QED
    BY <1>4, <1>6, <2>1
<1>9. n + 8 + n = 2 * n + 8
  BY <1>1
<1> QED
  BY <1>6, <1>7, <1>8, <1>9 DEF p, packet, rest, ResizedPacket, Resized

\* p is a packet with n bytes of data at the start of buf.
Took(p, buf, n) ==
    /\ ~Overruns(buf)
    /\ p = SubSeq(buf, 1, n + 8)
    /\ p \in Seq(Byte) /\ Len(p) = n + 8
    /\ \A i \in 1..n + 8 : p[i] = buf[i]

\* What is read out of a buffer that says it holds n bytes of data.
LEMMA Taken ==
    ASSUME NEW buf \in Seq(Byte), NEW n \in Nat, mergeBytes(buf[5], buf[6]) = n,
           n + 8 <= Len(buf)
    PROVE  Took(fromByteArray(buf), buf, n)
<1>1. LengthIn(buf) = n
  BY DEF LengthIn, At, LEN_MSB, LEN_LSB
<1>2. ~Overruns(buf) /\ fromByteArray(buf) = SubSeq(buf, 1, n + 8)
  BY <1>1 DEF Overruns, fromByteArray, MIN_PACKET_LEN
<1>3. n + 8 \in 0..Len(buf)
  OBVIOUS
<1> QED
  BY <1>2, <1>3, PrefixSum DEF Took

------------------------------------------------------------------------------
(* The bytes of a number, and numbers merged of a status's bytes.           *)

\* The bytes of a number, by division.
LEMMA LowOctet == \A v \in Nat : Octet(v, 0) = v % 256
<1>1. 256 ^ 0 = 1
  OBVIOUS
<1>2. \A v \in Nat : v \div 1 = v
  OBVIOUS
<1> QED
  BY <1>1, <1>2 DEF Octet

LEMMA HighOctets ==
    /\ \A v \in Nat : Octet(v, 1) = (v \div 256) % 256
    /\ \A v \in Nat : Octet(v, 2) = (v \div 65536) % 256
    /\ \A v \in Nat : Octet(v, 3) = (v \div 16777216) % 256
<1>1. 256 ^ 1 = 256 /\ 256 ^ 2 = 65536 /\ 256 ^ 3 = 16777216
  OBVIOUS
<1> QED
  BY <1>1 DEF Octet

\* They are bytes.
LEMMA OctetTyped ==
    ASSUME NEW v \in Nat, NEW k \in 0..3
    PROVE  Octet(v, k) \in Byte
<1>1. \A n \in Nat : n % 256 \in Byte
  BY ByteLemma DEF lsbyte
<1>2. v \div 256 \in Nat /\ v \div 65536 \in Nat /\ v \div 16777216 \in Nat
  OBVIOUS
<1>3. Octet(v, 0) \in Byte /\ Octet(v, 1) \in Byte /\ Octet(v, 2) \in Byte /\ Octet(v, 3) \in Byte
  <2>1. Octet(v, 0) \in Byte
    BY <1>1, LowOctet
  <2>2. Octet(v, 1) \in Byte
    BY <1>1, <1>2, HighOctets
  <2>3. Octet(v, 2) \in Byte
    BY <1>1, <1>2, HighOctets
  <2>4. Octet(v, 3) \in Byte
    BY <1>1, <1>2, HighOctets
  <2> QED
    BY <2>1, <2>2, <2>3, <2>4
<1>4. k = 0 \/ k = 1 \/ k = 2 \/ k = 3
  OBVIOUS
<1> QED
  BY <1>3, <1>4

\* The bytes of a number, put together again.
LEMMA OctetsMerged ==
    ASSUME NEW v \in Nat
    PROVE  256 * (256 * Octet(v, 2) + Octet(v, 1)) + Octet(v, 0) = v % 16777216
<1> DEFINE a == v \div 256
           b == v \div 65536
           c == v \div 16777216
<1>1. Octet(v, 0) = v % 256 /\ Octet(v, 1) = a % 256 /\ Octet(v, 2) = b % 256
  <2>1. Octet(v, 0) = v % 256
    BY LowOctet
  <2>2. Octet(v, 1) = a % 256
    BY HighOctets
  <2>3. Octet(v, 2) = b % 256
    BY HighOctets
  <2> QED
    BY <2>1, <2>2, <2>3
<1>2. \A n \in Nat : n % 256 = n - 256 * (n \div 256)
  OBVIOUS
<1>3. b = a \div 256 /\ c = b \div 256
  OBVIOUS
<1>4. a \in Nat /\ b \in Nat /\ c \in Nat
  OBVIOUS
<1>5. v % 16777216 = v - 16777216 * c
  OBVIOUS
<1>6. v % 256 = v - 256 * a /\ a % 256 = a - 256 * b /\ b % 256 = b - 256 * c
  BY <1>2, <1>3, <1>4
<1>7. Octet(v, 0) = v - 256 * a /\ Octet(v, 1) = a - 256 * b /\ Octet(v, 2) = b - 256 * c
  BY <1>1, <1>6
<1> HIDE DEF a, b, c
<1>8. 256 * (256 * (b - 256 * c) + (a - 256 * b)) + (v - 256 * a) = v - 16777216 * c
  BY <1>4, SMT
<1> QED
  BY <1>5, <1>7, <1>8

\* The two bytes of a word, put together again.
LEMMA WordMerged ==
    ASSUME NEW w \in Words
    PROVE  256 * Octet(w, 1) + Octet(w, 0) = w
<1> DEFINE a == w \div 256
<1>1. w \in Nat /\ w < 65536
  BY WordRange
<1>2. Octet(w, 0) = w % 256 /\ Octet(w, 1) = a % 256
  <2>1. Octet(w, 0) = w % 256
    BY <1>1, LowOctet
  <2>2. Octet(w, 1) = a % 256
    BY <1>1, HighOctets
  <2> QED
    BY <2>1, <2>2
<1>3. a \in Nat /\ a < 256 /\ w % 256 = w - 256 * a
  BY <1>1
<1> HIDE DEF a
<1>4. a % 256 = a
  BY <1>3
<1>5. Octet(w, 0) = w - 256 * a /\ Octet(w, 1) = a
  BY <1>2, <1>3, <1>4
<1>6. 256 * a + (w - 256 * a) = w
  BY <1>1, <1>3
<1> QED
  BY <1>5, <1>6

\* The four bytes of a number of 24 bits, as two words.
LEMMA WordsMerged ==
    ASSUME NEW v \in Nat, v < 16777216
    PROVE  (256 * Octet(v, 3) + Octet(v, 2)) * Word16 + (256 * Octet(v, 1) + Octet(v, 0)) = v
<1>1. 256 * (256 * Octet(v, 2) + Octet(v, 1)) + Octet(v, 0) = v
  <2>1. v % 16777216 = v
    BY SMT
  <2>2. 256 * (256 * Octet(v, 2) + Octet(v, 1)) + Octet(v, 0) = v % 16777216
    BY OctetsMerged
  <2> QED
    BY <2>1, <2>2, SMT
<1>2. Octet(v, 3) = 0
  <2>1. v \div 16777216 = 0
    OBVIOUS
  <2>2. Octet(v, 3) = (v \div 16777216) % 256
    BY HighOctets, SMT
  <2> QED
    BY <2>1, <2>2, SMT
<1>3. Octet(v, 0) \in Nat /\ Octet(v, 1) \in Nat /\ Octet(v, 2) \in Nat
  <2>1. \A k \in 0..3 : Octet(v, k) \in Nat
    BY OctetTyped, ByteLemma
  <2> QED
    BY <2>1
<1> QED
  BY <1>1, <1>2, <1>3 DEF Word16

\* The function that Merge takes the last value of.
Merging(raw, places, merge) ==
    merge = [k \in 0..Len(places) |->
              IF k = 0 THEN 0 ELSE 256 * merge[k - 1] + Raw(raw, places[k])]

\* Merge at three places, and at two.
Three(raw, a, b, c) ==
    Merge(raw, <<a, b, c>>) = 256 * (256 * Raw(raw, a) + Raw(raw, b)) + Raw(raw, c)

Two(raw, a, b) == Merge(raw, <<a, b>>) = 256 * Raw(raw, a) + Raw(raw, b)

\* Merge makes it so.
LEMMA ThreeMerged ==
    ASSUME NEW raw, NEW a, NEW b, NEW c, Raw(raw, a) \in Nat, Raw(raw, b) \in Nat
    PROVE  Three(raw, a, b, c)
<1> DEFINE m1 == 256 * 0 + Raw(raw, a)
           m2 == 256 * m1 + Raw(raw, b)
           m3 == 256 * m2 + Raw(raw, c)
           places == <<a, b, c>>
           whole == [k \in 0..3 |-> IF k = 0 THEN 0 ELSE IF k = 1 THEN m1
                                    ELSE IF k = 2 THEN m2 ELSE m3]
           merge == CHOOSE merge : Merging(raw, places, merge)
<1>1. Len(places) = 3 /\ places[1] = a /\ places[2] = b /\ places[3] = c
  OBVIOUS
<1>2. Merge(raw, places) = merge[3]
  BY DEF Merge, Merging
<1> HIDE DEF places
<1>3. whole[0] = 0 /\ whole[1] = m1 /\ whole[2] = m2 /\ whole[3] = m3
  OBVIOUS
<1>4. whole = [k \in 0..3 |-> whole[k]]
  OBVIOUS
<1>5. m1 = Raw(raw, a)
  OBVIOUS
<1> HIDE DEF m1, m2, m3, whole
<1>6. \A k \in 0..3 : whole[k] = IF k = 0 THEN 0 ELSE 256 * whole[k - 1] + Raw(raw, places[k])
  <2>1. \A k \in 0..3 : k = 0 \/ k = 1 \/ k = 2 \/ k = 3
    OBVIOUS
  <2> QED
    BY <1>1, <1>3, <2>1 DEF m1, m2, m3
<1>7. Merging(raw, places, whole)
  BY <1>1, <1>4, <1>6 DEF Merging
<1>8. Merging(raw, places, merge)
  BY <1>7
<1> HIDE DEF merge
<1>9. merge[0] = 0 /\ \A k \in 1..3 : merge[k] = 256 * merge[k - 1] + Raw(raw, places[k])
  BY <1>1, <1>8 DEF Merging
<1>10. merge[1] = m1 /\ merge[2] = m2 /\ merge[3] = m3
  BY <1>1, <1>9 DEF m1, m2, m3
<1> QED
  BY <1>2, <1>5, <1>10 DEF Three, places, m2, m3

\* Also of two.
LEMMA TwoMerged ==
    ASSUME NEW raw, NEW a, NEW b, Raw(raw, a) \in Nat
    PROVE  Two(raw, a, b)
<1> DEFINE m1 == 256 * 0 + Raw(raw, a)
           m2 == 256 * m1 + Raw(raw, b)
           places == <<a, b>>
           whole == [k \in 0..2 |-> IF k = 0 THEN 0 ELSE IF k = 1 THEN m1 ELSE m2]
           merge == CHOOSE merge : Merging(raw, places, merge)
<1>1. Len(places) = 2 /\ places[1] = a /\ places[2] = b
  OBVIOUS
<1>2. Merge(raw, places) = merge[2]
  BY DEF Merge, Merging
<1> HIDE DEF places
<1>3. whole[0] = 0 /\ whole[1] = m1 /\ whole[2] = m2
  OBVIOUS
<1>4. whole = [k \in 0..2 |-> whole[k]]
  OBVIOUS
<1>5. m1 = Raw(raw, a)
  OBVIOUS
<1> HIDE DEF m1, m2, whole
<1>6. \A k \in 0..2 : whole[k] = IF k = 0 THEN 0 ELSE 256 * whole[k - 1] + Raw(raw, places[k])
  <2>1. \A k \in 0..2 : k = 0 \/ k = 1 \/ k = 2
    OBVIOUS
  <2> QED
    BY <1>1, <1>3, <2>1 DEF m1, m2
<1>7. Merging(raw, places, whole)
  BY <1>1, <1>4, <1>6 DEF Merging
<1>8. Merging(raw, places, merge)
  BY <1>7
<1> HIDE DEF merge
<1>9. merge[0] = 0 /\ \A k \in 1..2 : merge[k] = 256 * merge[k - 1] + Raw(raw, places[k])
  BY <1>1, <1>8 DEF Merging
<1>10. merge[1] = m1 /\ merge[2] = m2
  BY <1>1, <1>9 DEF m1, m2
<1> QED
  BY <1>2, <1>5, <1>10 DEF Two, places, m2

\* What is merged depends on the bytes at its places.
LEMMA MergeSame ==
    ASSUME NEW raw, NEW other, NEW places, Len(places) \in Nat,
           \A k \in 1..Len(places) : Raw(raw, places[k]) = Raw(other, places[k])
    PROVE  Merge(raw, places) = Merge(other, places)
<1>1. \A merge : Merging(raw, places, merge) <=> Merging(other, places, merge)
  <2>1. Len(places) \in Nat /\ \A k \in 0..Len(places) : k # 0 => k \in 1..Len(places)
    OBVIOUS
  <2> SUFFICES ASSUME NEW merge
               PROVE  [k \in 0..Len(places) |->
                          IF k = 0 THEN 0 ELSE 256 * merge[k - 1] + Raw(raw, places[k])]
                      = [k \in 0..Len(places) |->
                          IF k = 0 THEN 0 ELSE 256 * merge[k - 1] + Raw(other, places[k])]
    BY DEF Merging
  <2> QED
    BY <2>1
<1>2. (CHOOSE merge : Merging(raw, places, merge))
        = (CHOOSE merge : Merging(other, places, merge))
  BY <1>1, Zenon
<1> QED
  BY <1>2 DEF Merge, Merging

------------------------------------------------------------------------------
(* The status of a detector, and what the getters read in it.               *)

\* A detector with any counts and times.
Detector == [counts : Words \X Words, ms : Nat, preset : Int, enabled : BOOLEAN]

\* Those of the model are such detectors.
LEMMA Chosen == Detectors \subseteq Detector
  BY DetectorsAssumption DEF Detector, Words

\* The byte of its flags.
Flags(d) == (IF d.preset > 0 /\ d.ms <= d.preset /\ ~d.enabled THEN 128 ELSE 0)
            + (IF d.enabled THEN 32 ELSE 0)

\* The bytes of the counts are those of their words.
LEMMA CountOctets ==
    ASSUME NEW counts \in Words \X Words
    PROVE  /\ CountOctet(counts, 0) = Octet(counts[2], 0)
           /\ CountOctet(counts, 1) = Octet(counts[2], 1)
           /\ CountOctet(counts, 2) = Octet(counts[1], 0)
           /\ CountOctet(counts, 3) = Octet(counts[1], 1)
           /\ \A k \in 0..3 : CountOctet(counts, k) \in Byte
<1>1. 0 % 2 = 0 /\ 1 % 2 = 1 /\ 2 % 2 = 0 /\ 3 % 2 = 1
  OBVIOUS
<1>2. /\ CountOctet(counts, 0) = Octet(counts[2], 0)
      /\ CountOctet(counts, 1) = Octet(counts[2], 1)
      /\ CountOctet(counts, 2) = Octet(counts[1], 0)
      /\ CountOctet(counts, 3) = Octet(counts[1], 1)
  BY <1>1 DEF CountOctet
<1>3. counts[1] \in Nat /\ counts[2] \in Nat
  BY WordRange
<1>4. /\ Octet(counts[2], 0) \in Byte /\ Octet(counts[2], 1) \in Byte
      /\ Octet(counts[1], 0) \in Byte /\ Octet(counts[1], 1) \in Byte
  BY <1>3, OctetTyped
<1>5. \A k \in 0..3 : k = 0 \/ k = 1 \/ k = 2 \/ k = 3
  OBVIOUS
<1> QED
  BY <1>2, <1>4, <1>5

\* The bytes of a status, at the places the detector puts them.
LEMMA StatusBytes ==
    ASSUME NEW d \in Detector, NEW less \in Less(d)
    PROVE  LET raw == Status(d, less)
               tenths == d.ms \div 100
           IN  /\ raw \in Seq(Byte) /\ Len(raw) = 64
               /\ \A i \in 0..3 : /\ Raw(raw, i) = CountOctet(d.counts, i)
                                  /\ Raw(raw, 4 + i) = CountOctet(d.counts, i)
               /\ Raw(raw, 12) = (d.ms % 100) - less
               /\ \A i \in 0..2 : Raw(raw, 13 + i) = Octet(tenths, i)
               /\ \A i \in 0..3 : Raw(raw, 20 + i) = Octet(tenths, i)
               /\ Raw(raw, 35) = Flags(d)
<1> DEFINE tenths == d.ms \div 100
           byte(i) ==
            CASE i \in 0..3 -> CountOctet(d.counts, i)
              [] i \in 4..7 -> CountOctet(d.counts, i - 4)
              [] i = 12 -> (d.ms % 100) - less
              [] i \in 13..15 -> Octet(tenths, i - 13)
              [] i \in 20..23 -> Octet(tenths, i - 20)
              [] i = 35 -> (IF d.preset > 0 /\ d.ms <= d.preset /\ ~d.enabled THEN 128 ELSE 0)
                           + (IF d.enabled THEN 32 ELSE 0)
              [] OTHER -> 0
           raw == Status(d, less)
<1>1. raw = [i \in 1..64 |-> byte(i - 1)]
  BY DEF Status, STATUS_SIZE
<1>2. d.counts \in Words \X Words /\ tenths \in Nat
  BY DEF Detector
<1>3. (d.ms % 100) - less \in Byte
  <2>1. d.ms \in Nat
    BY DEF Detector
  <2>2. \A n \in Nat : n % 100 \in 0..99
    OBVIOUS
  <2>3. less = 0 \/ (less = 1 /\ d.ms % 100 > 0)
    BY DEF Less
  <2> DEFINE rest == d.ms % 100
  <2>4. rest \in 0..99
    BY <2>1, <2>2
  <2> HIDE DEF rest
  <2>5. less = 0 \/ (less = 1 /\ rest > 0)
    BY <2>3 DEF rest
  <2>6. rest - less \in 0..255
    BY <2>4, <2>5
  <2> QED
    BY <2>6 DEF rest, Byte
<1>4. Flags(d) \in Byte
  BY DEF Flags, Byte
<1> HIDE DEF tenths
<1>5. \A i \in 0..3 : byte(i) = CountOctet(d.counts, i)
  OBVIOUS
<1>6. \A i \in 4..7 : byte(i) = CountOctet(d.counts, i - 4)
  OBVIOUS
<1>7. byte(12) = (d.ms % 100) - less
  OBVIOUS
<1>8. \A i \in 13..15 : byte(i) = Octet(tenths, i - 13)
  OBVIOUS
<1>9. \A i \in 20..23 : byte(i) = Octet(tenths, i - 20)
  OBVIOUS
<1>10. byte(35) = Flags(d)
  BY DEF Flags
<1>11. \A i \in 0..63 : \/ i \in 0..3 \/ i \in 4..7 \/ i = 12 \/ i \in 13..15 \/ i \in 20..23
                        \/ i = 35 \/ byte(i) = 0
  OBVIOUS
<1> HIDE DEF byte
<1>12. \A i \in 0..63 : byte(i) \in Byte
  <2>1. SUFFICES ASSUME NEW i \in 0..63 PROVE byte(i) \in Byte
    OBVIOUS
  <2>2. CASE i \in 0..3
    BY <1>2, <1>5, <2>2, CountOctets
  <2>3. CASE i \in 4..7
    <3>1. i - 4 \in 0..3
      BY <2>3
    <3> QED
      BY <1>2, <1>6, <2>3, <3>1, CountOctets
  <2>4. CASE i = 12
    BY <1>3, <1>7, <2>4
  <2>5. CASE i \in 13..15
    <3>1. i - 13 \in 0..3
      BY <2>5
    <3> QED
      BY <1>2, <1>8, <2>5, <3>1, OctetTyped
  <2>6. CASE i \in 20..23
    <3>1. i - 20 \in 0..3
      BY <2>6
    <3> QED
      BY <1>2, <1>9, <2>6, <3>1, OctetTyped
  <2>7. CASE i = 35
    BY <1>4, <1>10, <2>7
  <2>8. CASE byte(i) = 0
    BY <2>8 DEF Byte
  <2> QED
    BY <1>11, <2>2, <2>3, <2>4, <2>5, <2>6, <2>7, <2>8
<1>13. raw \in Seq(Byte) /\ Len(raw) = 64 /\ \A i \in 0..63 : Raw(raw, i) = byte(i)
  <2>1. \A i \in 1..64 : i - 1 \in 0..63
    OBVIOUS
  <2>2. \A i \in 1..64 : byte(i - 1) \in Byte
    BY <1>12, <2>1
  <2>3. \A i \in 0..63 : i + 1 \in 1..64 /\ (i + 1) - 1 = i
    OBVIOUS
  <2> HIDE DEF raw
  <2>4. \A i \in 0..63 : raw[i + 1] = byte(i)
    BY <1>1, <2>3
  <2>5. raw \in Seq(Byte) /\ Len(raw) = 64
    BY <1>1, <2>2
  <2> QED
    BY <2>4, <2>5 DEF Raw
<1> HIDE DEF raw
<1>14. \A i \in 0..3 : /\ Raw(raw, i) = CountOctet(d.counts, i)
                       /\ Raw(raw, 4 + i) = CountOctet(d.counts, i)
  <2>1. \A i \in 0..3 : i \in 0..63 /\ 4 + i \in 0..63 /\ 4 + i \in 4..7 /\ (4 + i) - 4 = i
    OBVIOUS
  <2> QED
    BY <1>5, <1>6, <1>13, <2>1
<1>15. \A i \in 0..2 : Raw(raw, 13 + i) = Octet(tenths, i)
  <2>1. \A i \in 0..2 : 13 + i \in 0..63 /\ 13 + i \in 13..15 /\ (13 + i) - 13 = i
    OBVIOUS
  <2> QED
    BY <1>8, <1>13, <2>1
<1>16. \A i \in 0..3 : Raw(raw, 20 + i) = Octet(tenths, i)
  <2>1. \A i \in 0..3 : 20 + i \in 0..63 /\ 20 + i \in 20..23 /\ (20 + i) - 20 = i
    OBVIOUS
  <2> QED
    BY <1>9, <1>13, <2>1
<1>17. Raw(raw, 12) = (d.ms % 100) - less /\ Raw(raw, 35) = Flags(d)
  BY <1>7, <1>10, <1>13
<1> QED
  BY <1>13, <1>14, <1>15, <1>16, <1>17 DEF raw, tenths

\* What the readings are of the status that a detector sent.
ReadAs(raw, d) ==
    /\ FastCount(raw) = CountsAsInt(d.counts) /\ SlowCount(raw) = CountsAsInt(d.counts)
    /\ DeadTime(raw)[1] = 0
    /\ AccTime(raw) \in {d.ms, d.ms - 1}
    /\ RealTime(raw)[1] * Word16 + RealTime(raw)[2] = d.ms \div 100
    /\ IsEnabled(raw) = d.enabled
    /\ IsPresetTimeReached(raw) = (d.preset > 0 /\ d.ms <= d.preset /\ ~d.enabled)

\* The same 64 bytes.
Copied(raw, sent) == \A i \in 0..63 : Raw(raw, i) = Raw(sent, i)

\* Counts are read with their sign, from wherever their four bytes are.
LEMMA CountsRead ==
    ASSUME NEW counts \in Words \X Words, NEW raw, NEW a, NEW b, NEW c, NEW d,
           Raw(raw, a) = CountOctet(counts, 3), Raw(raw, b) = CountOctet(counts, 2),
           Raw(raw, c) = CountOctet(counts, 1), Raw(raw, d) = CountOctet(counts, 0)
    PROVE  /\ ToInt(MergeWords(raw, a, b, c, d)) = CountsAsInt(counts)
           /\ CountsAsInt(counts) \in Int
<1>1. PICK high \in Words, low \in Words : counts = <<high, low>>
  OBVIOUS
<1>2. /\ Raw(raw, a) = Octet(high, 1) /\ Raw(raw, b) = Octet(high, 0)
      /\ Raw(raw, c) = Octet(low, 1) /\ Raw(raw, d) = Octet(low, 0)
  <2>1. counts[1] = high /\ counts[2] = low
    BY <1>1
  <2> QED
    BY <2>1, CountOctets
<1>3. high \in Nat /\ low \in Nat
  BY WordRange
<1>4. Octet(high, 1) \in Nat /\ Octet(low, 1) \in Nat
  <2>1. \A v \in Nat : Octet(v, 1) \in Byte
    BY OctetTyped
  <2> QED
    BY <1>3, <2>1, ByteLemma
<1>5. Two(raw, a, b) /\ Two(raw, c, d)
  BY <1>2, <1>4, TwoMerged
<1>6. MergeWords(raw, a, b, c, d) = <<high, low>>
  <2>1. 256 * Octet(high, 1) + Octet(high, 0) = high
    BY WordMerged
  <2>2. 256 * Octet(low, 1) + Octet(low, 0) = low
    BY WordMerged
  <2> QED
    BY <1>2, <1>5, <2>1, <2>2 DEF Two, MergeWords
<1>7. ToInt(<<high, low>>) = (IF high < 32768 THEN high ELSE high - 65536) * 65536 + low
  BY <1>3 DEF ToInt, signed_word16
<1>8. CountsAsInt(<<high, low>>) = (IF high < 32768 THEN high ELSE high - 65536) * 65536 + low
  <2>1. 2 ^ 15 = 32768
    OBVIOUS
  <2> QED
    BY <1>3, <2>1 DEF CountsAsInt, Word16
<1>9. (IF high < 32768 THEN high ELSE high - 65536) * 65536 + low \in Int
  BY <1>3
<1> QED
  BY <1>1, <1>6, <1>7, <1>8, <1>9

\* The flags in byte 35.
LEMMA FlagsRead ==
    ASSUME NEW d \in Detector, NEW raw, Raw(raw, 35) = Flags(d)
    PROVE  /\ IsEnabled(raw) = d.enabled
           /\ IsPresetTimeReached(raw) = (d.preset > 0 /\ d.ms <= d.preset /\ ~d.enabled)
<1> DEFINE below == d.preset > 0 /\ d.ms <= d.preset
<1>1. 2 ^ 5 = 32 /\ 2 ^ 7 = 128
  OBVIOUS
<1>2. /\ IsEnabled(raw) = ((Flags(d) \div 32) % 2 = 1)
      /\ IsPresetTimeReached(raw) = ((Flags(d) \div 128) % 2 = 1)
  BY <1>1 DEF IsEnabled, IsPresetTimeReached, Bit
<1>3. d.enabled \in BOOLEAN /\ below \in BOOLEAN
  BY DEF Detector
<1>4. /\ (32 \div 32) % 2 = 1 /\ (128 \div 32) % 2 = 0 /\ (0 \div 32) % 2 = 0
      /\ (32 \div 128) % 2 = 0 /\ (128 \div 128) % 2 = 1 /\ (0 \div 128) % 2 = 0
  OBVIOUS
<1>5. CASE d.enabled
  <2>1. Flags(d) = 32
    BY <1>5 DEF Flags
  <2>2. (Flags(d) \div 32) % 2 = 1 /\ (Flags(d) \div 128) % 2 # 1
    BY <1>4, <2>1
  <2>3. d.enabled = TRUE
    BY <1>3, <1>5
  <2>4. IsEnabled(raw) = TRUE /\ IsPresetTimeReached(raw) = FALSE
    BY <1>2, <2>2
  <2> QED
    BY <1>5, <2>3, <2>4
<1>6. CASE ~d.enabled /\ below
  <2>1. Flags(d) = 128
    BY <1>6 DEF Flags
  <2> QED
    BY <1>2, <1>3, <1>4, <1>6, <2>1
<1>7. CASE ~d.enabled /\ ~below
  <2>1. Flags(d) = 0
    BY <1>7 DEF Flags
  <2> QED
    BY <1>2, <1>3, <1>4, <1>7, <2>1
<1> QED
  BY <1>3, <1>5, <1>6, <1>7

\* What the getters read in the bytes that the detector sent.
LEMMA StatusRead ==
    ASSUME NEW d \in Detectors, NEW less \in Less(d), NEW raw, Copied(raw, Status(d, less))
    PROVE  ReadAs(raw, d)
<1> DEFINE tenths == d.ms \div 100
           sent == Status(d, less)
           counts == d.counts
<1>1. d \in Detector /\ counts \in Words \X Words /\ d.ms \in Nat /\ tenths \in Nat
  BY Chosen DEF Detector
<1>2. tenths < 16777216
  <2>1. 2 ^ 24 = 16777216
    OBVIOUS
  <2>2. d.ms < 100 * 16777216
    BY <2>1, FieldsAssumption
  <2> QED
    BY <1>1, <2>2
<1>3. /\ \A i \in 0..3 : /\ Raw(raw, i) = CountOctet(counts, i)
                         /\ Raw(raw, 4 + i) = CountOctet(counts, i)
      /\ Raw(raw, 12) = (d.ms % 100) - less
      /\ \A i \in 0..2 : Raw(raw, 13 + i) = Octet(tenths, i)
      /\ \A i \in 0..3 : Raw(raw, 20 + i) = Octet(tenths, i)
      /\ Raw(raw, 35) = Flags(d)
  <2>1. /\ \A i \in 0..3 : i \in 0..63 /\ 4 + i \in 0..63 /\ 20 + i \in 0..63
        /\ \A i \in 0..2 : 13 + i \in 0..63
        /\ 12 \in 0..63 /\ 35 \in 0..63
    OBVIOUS
  <2>2. /\ \A i \in 0..3 : /\ Raw(sent, i) = CountOctet(counts, i)
                           /\ Raw(sent, 4 + i) = CountOctet(counts, i)
        /\ Raw(sent, 12) = (d.ms % 100) - less
        /\ \A i \in 0..2 : Raw(sent, 13 + i) = Octet(tenths, i)
        /\ \A i \in 0..3 : Raw(sent, 20 + i) = Octet(tenths, i)
        /\ Raw(sent, 35) = Flags(d)
    BY <1>1, StatusBytes
  <2>3. \A i \in 0..63 : Raw(raw, i) = Raw(sent, i)
    BY DEF Copied
  <2> HIDE DEF sent, tenths, counts
  <2> QED
    BY <2>1, <2>2, <2>3
<1> HIDE DEF tenths, counts
<1>4. /\ Raw(raw, 0) = CountOctet(counts, 0) /\ Raw(raw, 1) = CountOctet(counts, 1)
      /\ Raw(raw, 2) = CountOctet(counts, 2) /\ Raw(raw, 3) = CountOctet(counts, 3)
      /\ Raw(raw, 4) = CountOctet(counts, 0) /\ Raw(raw, 5) = CountOctet(counts, 1)
      /\ Raw(raw, 6) = CountOctet(counts, 2) /\ Raw(raw, 7) = CountOctet(counts, 3)
  <2>1. /\ Raw(raw, 0) = CountOctet(counts, 0) /\ Raw(raw, 1) = CountOctet(counts, 1)
        /\ Raw(raw, 2) = CountOctet(counts, 2) /\ Raw(raw, 3) = CountOctet(counts, 3)
    BY <1>3
  <2>2. /\ Raw(raw, 4 + 0) = CountOctet(counts, 0) /\ Raw(raw, 4 + 1) = CountOctet(counts, 1)
        /\ Raw(raw, 4 + 2) = CountOctet(counts, 2) /\ Raw(raw, 4 + 3) = CountOctet(counts, 3)
    BY <1>3
  <2> QED
    BY <2>1, <2>2
<1>5. /\ Raw(raw, 13) = Octet(tenths, 0) /\ Raw(raw, 14) = Octet(tenths, 1)
      /\ Raw(raw, 15) = Octet(tenths, 2)
      /\ Raw(raw, 20) = Octet(tenths, 0) /\ Raw(raw, 21) = Octet(tenths, 1)
      /\ Raw(raw, 22) = Octet(tenths, 2) /\ Raw(raw, 23) = Octet(tenths, 3)
  <2>1. /\ Raw(raw, 13 + 0) = Octet(tenths, 0) /\ Raw(raw, 13 + 1) = Octet(tenths, 1)
        /\ Raw(raw, 13 + 2) = Octet(tenths, 2)
    BY <1>3
  <2>2. /\ Raw(raw, 20 + 0) = Octet(tenths, 0) /\ Raw(raw, 20 + 1) = Octet(tenths, 1)
        /\ Raw(raw, 20 + 2) = Octet(tenths, 2) /\ Raw(raw, 20 + 3) = Octet(tenths, 3)
    BY <1>3
  <2> QED
    BY <2>1, <2>2
<1>6. \A k \in 0..3 : Octet(tenths, k) \in Nat
  BY <1>1, OctetTyped, ByteLemma
<1>7. /\ FastCount(raw) = CountsAsInt(counts) /\ SlowCount(raw) = CountsAsInt(counts)
      /\ CountsAsInt(counts) \in Int
  <2>1. ToInt(MergeWords(raw, 3, 2, 1, 0)) = CountsAsInt(counts) /\ CountsAsInt(counts) \in Int
    BY <1>1, <1>4, CountsRead
  <2>2. ToInt(MergeWords(raw, 7, 6, 5, 4)) = CountsAsInt(counts)
    BY <1>1, <1>4, CountsRead
  <2> QED
    BY <2>1, <2>2 DEF FastCount, SlowCount
<1>8. DeadTime(raw)[1] = 0
  <2> DEFINE n == CountsAsInt(counts)
  <2> HIDE DEF n
  <2>1. FastCount(raw) = n /\ SlowCount(raw) = n /\ n \in Int
    BY <1>7 DEF n
  <2>2. CASE n = 0
    BY <2>1, <2>2 DEF DeadTime
  <2>3. CASE n # 0
    <3>1. DeadTime(raw) = <<n - n, n>>
      BY <2>1, <2>3 DEF DeadTime
    <3> QED
      BY <2>1, <3>1
  <2> QED
    BY <2>2, <2>3
<1>9. AccTime(raw) \in {d.ms, d.ms - 1}
  <2>1. 256 * (256 * Octet(tenths, 2) + Octet(tenths, 1)) + Octet(tenths, 0) = tenths % 16777216
    BY <1>1, OctetsMerged
  <2>2. tenths % 16777216 = tenths
    BY <1>1, <1>2
  <2>3. Merge(raw, <<15, 14, 13>>) = 256 * (256 * Raw(raw, 15) + Raw(raw, 14)) + Raw(raw, 13)
    <3>1. Raw(raw, 15) \in Nat /\ Raw(raw, 14) \in Nat
      BY <1>5, <1>6
    <3>2. Three(raw, 15, 14, 13)
      BY <3>1, ThreeMerged
    <3> QED
      BY <3>2 DEF Three
  <2>4. Merge(raw, <<15, 14, 13>>) = tenths
    BY <1>5, <2>1, <2>2, <2>3
  <2>5. AccTime(raw) = (d.ms % 100) - less + 100 * tenths
    BY <1>3, <2>4 DEF AccTime
  <2>6. less \in {0, 1}
    BY DEF Less
  <2>7. d.ms % 100 = d.ms - 100 * tenths
    BY <1>1 DEF tenths
  <2> QED
    BY <1>1, <2>5, <2>6, <2>7
<1>10. RealTime(raw)[1] * Word16 + RealTime(raw)[2] = tenths
  <2>1. Raw(raw, 23) \in Nat /\ Raw(raw, 21) \in Nat
    BY <1>5, <1>6
  <2>2. Two(raw, 23, 22) /\ Two(raw, 21, 20)
    BY <2>1, TwoMerged
  <2>3. RealTime(raw) = <<256 * Octet(tenths, 3) + Octet(tenths, 2),
                          256 * Octet(tenths, 1) + Octet(tenths, 0)>>
    BY <1>5, <2>2 DEF Two, RealTime, MergeWords
  <2>4. (256 * Octet(tenths, 3) + Octet(tenths, 2)) * Word16
          + (256 * Octet(tenths, 1) + Octet(tenths, 0)) = tenths
    BY <1>1, <1>2, WordsMerged
  <2> QED
    BY <2>3, <2>4
<1>11. /\ IsEnabled(raw) = d.enabled
       /\ IsPresetTimeReached(raw) = (d.preset > 0 /\ d.ms <= d.preset /\ ~d.enabled)
  BY <1>1, <1>3, FlagsRead
<1> QED
  BY <1>7, <1>8, <1>9, <1>10, <1>11 DEF ReadAs, counts, tenths

\* A response whose data starts with the status of a detector.
Tells(p, d, less) ==
    /\ p \in Seq(Byte) /\ 72 <= Len(p)
    /\ \A i \in 0..63 : p[i + 7] = Raw(Status(d, less), i)

\* Its getters read what the detector held.
LEMMA Told ==
    ASSUME NEW p, NEW d \in Detectors, NEW less \in Less(d), Tells(p, d, less)
    PROVE  p # <<>> /\ ReadAs(DataOf(p), d)
<1> DEFINE raw == DataOf(p)
<1>1. p \in Seq(Byte) /\ 72 <= Len(p)
  BY DEF Tells
<1>2. ASSUME NEW i \in 0..63 PROVE Raw(raw, i) = Raw(Status(d, less), i)
  <2>1. i \in Nat /\ i + 7 <= Len(p)
    BY <1>1
  <2>2. Raw(raw, i) = p[i + 7]
    BY <1>1, <2>1, DataOfLemma
  <2> QED
    BY <2>2 DEF Tells
<1> HIDE DEF raw
<1>3. Copied(raw, Status(d, less))
  BY <1>2 DEF Copied
<1>4. ReadAs(raw, d)
  BY <1>3, StatusRead
<1>5. p # <<>>
  BY <1>1
<1> QED
  BY <1>4, <1>5 DEF raw

\* data starts with raw.
Starts(data, raw) ==
    data \in Seq(Byte) /\ 64 <= Len(data) /\ \A i \in 1..64 : data[i] = raw[i]

\* A response of the simulator with a status for its data.
LEMMA DirectTells ==
    ASSUME NEW d \in Detectors, NEW less \in Less(d), NEW data, Starts(data, Status(d, less)),
           NEW p, p = ResizedPacket(STATUS_RESPONSE[1], STATUS_RESPONSE[2], data)
    PROVE  Tells(p, d, less)
<1> DEFINE m == Len(data)
<1>1. STATUS_RESPONSE[1] \in Byte /\ STATUS_RESPONSE[2] \in Byte
  BY DEF STATUS_RESPONSE, Byte
<1>2. data \in Seq(Byte) /\ m \in Nat /\ 64 <= m
  BY DEF Starts
<1>3. Resized(p, STATUS_RESPONSE[2], data)
  BY <1>1, <1>2, ResizedFormed
<1>4. /\ p \in Seq(Byte) /\ Len(p) = 2 * m + 8
      /\ \A i \in 1..m : p[i + 6] = data[i]
  BY <1>3 DEF Resized
<1> HIDE DEF m
<1>5. 72 <= Len(p)
  BY <1>2, <1>4
<1>6. ASSUME NEW i \in 0..63 PROVE p[i + 7] = Raw(Status(d, less), i)
  <2>1. i + 1 \in 1..64 /\ i + 1 \in 1..m /\ (i + 1) + 6 = i + 7
    BY <1>2
  <2> QED
    BY <1>4, <2>1 DEF Raw, Starts
<1> QED
  BY <1>4, <1>5, <1>6 DEF Tells

------------------------------------------------------------------------------
(* Requests and their arguments.                                            *)

\* The name of the request with a type.
Named(i, j) ==
    CASE i = 1 -> "STATUS"
      [] i = 2 -> (CASE j = 1 -> "SPECTRUM" [] j = 3 -> "SPECTRUM_AND_STATUS"
                     [] j = 5 -> "BUFFER" [] j = 6 -> "BUFFER_CLEAR"
                     [] OTHER -> "GET_BUFFER")
      [] i = 3 -> "LIST_DATA"
      [] i = 32 -> (IF j = 2 THEN "SET_CONFIG" ELSE "GET_CONFIG")
      [] i = 240 -> (CASE j = 1 -> "CLEAR_SPECTRUM" [] j = 2 -> "ENABLE"
                       [] j = 3 -> "DISABLE" [] j = 22 -> "CLEAR_LIST_TIMER"
                       [] j = 30 -> "RESTART_SEQ_BUFFERING"
                       [] j = 31 -> "CANCEL_SEQ_BUFFERING"
                       [] OTHER -> "KEEP_ALIVE_NO_SHARING")
      [] OTHER -> "COMMTEST_STREAM"

\* Types are pairs of bytes, and no two requests have the same.
LEMMA Ids ==
    /\ \A name \in DOMAIN RequestIds :
          /\ RequestIds[name][1] \in Byte /\ RequestIds[name][2] \in Byte
          /\ RequestIds[name] = <<RequestIds[name][1], RequestIds[name][2]>>
    /\ \A name, other \in DOMAIN RequestIds :
          RequestIds[name] = RequestIds[other] => name = other
<1>1. ASSUME NEW name \in DOMAIN RequestIds
      PROVE  /\ RequestIds[name] \in Byte \X Byte
             /\ Named(RequestIds[name][1], RequestIds[name][2]) = name
  <2>1. RequestIds[name] \in (0..255) \X (0..255)
    BY DEF RequestIds
  <2>2. Named(RequestIds[name][1], RequestIds[name][2]) = name
    BY DEF RequestIds, Named
  <2> QED
    BY <2>1, <2>2 DEF Byte
<1>2. ASSUME NEW name \in DOMAIN RequestIds
      PROVE  /\ RequestIds[name][1] \in Byte /\ RequestIds[name][2] \in Byte
             /\ RequestIds[name] = <<RequestIds[name][1], RequestIds[name][2]>>
             /\ Named(RequestIds[name][1], RequestIds[name][2]) = name
  <2> DEFINE id == RequestIds[name]
  <2>1. id \in Byte \X Byte
    BY <1>1
  <2> HIDE DEF id
  <2>2. id = <<id[1], id[2]>> /\ id[1] \in Byte /\ id[2] \in Byte
    BY <2>1
  <2> QED
    BY <1>1, <2>2 DEF id
<1> QED
  BY <1>2

\* The bytes of a request's arguments.
Paired(data, words) ==
    /\ data \in Seq(Byte) /\ Len(data) = 2 * Len(words)
    /\ \A k \in 1..Len(words) : /\ data[2 * k - 1] = msbyte(words[k])
                                /\ data[2 * k] = lsbyte(words[k])

\* A request is a packet of its name's type and its arguments.
LEMMA RequestFormed ==
    ASSUME NEW name \in DOMAIN RequestIds, NEW words \in Seq(Words)
    PROVE  \E data : /\ Paired(data, words)
                     /\ Formed(RequestWords(name, words), RequestIds[name][1],
                               RequestIds[name][2], data)
<1> DEFINE n == 2 * Len(words)
           byte(i) == IF i % 2 = 1 THEN msbyte(words[(i + 1) \div 2])
                      ELSE lsbyte(words[i \div 2])
           data == [i \in 1..n |-> byte(i)]
           pid1 == RequestIds[name][1]
           pid2 == RequestIds[name][2]
<1>1. RequestWords(name, words) = Packet(pid1, pid2, data)
  BY DEF RequestWords, Request
<1>2. Len(words) \in Nat /\ n \in Nat /\ \A j \in 1..Len(words) : words[j] \in Words
  OBVIOUS
<1>3. \A w \in Words : msbyte(w) \in Byte /\ lsbyte(w) \in Byte
  BY WordLemma
<1>4. \A i \in 1..n : byte(i) \in Byte
  <2>1. SUFFICES ASSUME NEW i \in 1..n PROVE byte(i) \in Byte
    OBVIOUS
  <2>2. CASE i % 2 = 1
    <3>1. (i + 1) \div 2 \in 1..Len(words)
      BY <1>2, <2>2
    <3> QED
      BY <1>2, <1>3, <2>2, <3>1
  <2>3. CASE i % 2 # 1
    <3>1. i \div 2 \in 1..Len(words)
      BY <1>2, <2>3
    <3> QED
      BY <1>2, <1>3, <2>3, <3>1
  <2> QED
    BY <2>2, <2>3
<1>5. ASSUME NEW k \in 1..Len(words)
      PROVE  data[2 * k - 1] = msbyte(words[k]) /\ data[2 * k] = lsbyte(words[k])
  <2>1. /\ (2 * k - 1) % 2 = 1 /\ (2 * k - 1 + 1) \div 2 = k
        /\ (2 * k) % 2 # 1 /\ (2 * k) \div 2 = k
    BY <1>2
  <2>2. byte(2 * k - 1) = msbyte(words[k]) /\ byte(2 * k) = lsbyte(words[k])
    BY <2>1
  <2>3. 2 * k - 1 \in 1..n /\ 2 * k \in 1..n
    BY <1>2
  <2> HIDE DEF byte, n
  <2> QED
    BY <2>2, <2>3
<1> HIDE DEF byte
<1>6. Paired(data, words)
  <2>1. data \in Seq(Byte) /\ Len(data) = n
    BY <1>2, <1>4
  <2> HIDE DEF data
  <2> QED
    BY <1>5, <2>1 DEF Paired
<1> HIDE DEF data, pid1, pid2
<1>7. pid1 \in Byte /\ pid2 \in Byte
  BY Ids DEF pid1, pid2
<1>8. Formed(Packet(pid1, pid2, data), pid1, pid2, data)
  BY <1>6, <1>7, PacketFormed DEF Paired
<1> QED
  BY <1>1, <1>6, <1>8 DEF pid1, pid2

\* What a receiver reads at the place of a request's k-th argument is that argument.
LEMMA ArgumentRead ==
    ASSUME NEW name \in DOMAIN RequestIds, NEW words \in Seq(Words), NEW k \in 1..Len(words)
    PROVE  mergeBytes(At(RequestWords(name, words), DATA + 2 * k - 2),
                      At(RequestWords(name, words), DATA + 2 * k - 1)) = words[k]
<1> DEFINE bytes == RequestWords(name, words)
           pid1 == RequestIds[name][1]
           pid2 == RequestIds[name][2]
<1>1. PICK data : Paired(data, words) /\ Formed(bytes, pid1, pid2, data)
  BY RequestFormed
<1> HIDE DEF bytes, pid1, pid2
<1>2. Len(words) \in Nat /\ words[k] \in Words
  OBVIOUS
<1>3. 2 * k - 1 \in 1..Len(data) /\ 2 * k \in 1..Len(data)
  BY <1>1, <1>2 DEF Paired
<1>4. /\ bytes[2 * k - 1 + 6] = data[2 * k - 1]
      /\ bytes[2 * k + 6] = data[2 * k]
  BY <1>1, <1>3 DEF Formed
<1>5. DATA + 2 * k - 2 + 1 = 2 * k - 1 + 6 /\ DATA + 2 * k - 1 + 1 = 2 * k + 6
  BY <1>2 DEF DATA
<1>6. /\ At(bytes, DATA + 2 * k - 2) = msbyte(words[k])
      /\ At(bytes, DATA + 2 * k - 1) = lsbyte(words[k])
  BY <1>1, <1>4, <1>5 DEF At, Paired
<1> QED
  BY <1>2, <1>6, WordLemma DEF bytes

\* A request with up to four arguments as its receiver finds it.
Readable(bytes, name, words) ==
    /\ Len(bytes) <= 520 /\ ~Overruns(bytes)
    /\ fromByteArray(bytes) = bytes /\ Valid(bytes)
    /\ \A other \in DOMAIN RequestIds :
          RequestIds[other] = <<At(bytes, PID1), At(bytes, PID2)>> <=> other = name
    /\ \A k \in DOMAIN words :
          words[k] = mergeBytes(At(bytes, DATA + 2 * k - 2), At(bytes, DATA + 2 * k - 1))

\* RequestWords makes it so.
LEMMA RequestRead ==
    ASSUME NEW name \in DOMAIN RequestIds, NEW words \in Seq(Words), Len(words) <= 4
    PROVE  Readable(RequestWords(name, words), name, words)
<1> DEFINE bytes == RequestWords(name, words)
           pid1 == RequestIds[name][1]
           pid2 == RequestIds[name][2]
<1>1. PICK data : Paired(data, words) /\ Formed(bytes, pid1, pid2, data)
  BY RequestFormed
<1>2. \A k \in DOMAIN words :
          words[k] = mergeBytes(At(bytes, DATA + 2 * k - 2), At(bytes, DATA + 2 * k - 1))
  <2>1. DOMAIN words = 1..Len(words)
    OBVIOUS
  <2> QED
    BY <2>1, ArgumentRead
<1> HIDE DEF bytes
<1>3. \A other \in DOMAIN RequestIds :
          RequestIds[other] = <<At(bytes, PID1), At(bytes, PID2)>> <=> other = name
  <2>1. bytes[3] = pid1 /\ bytes[4] = pid2
    BY <1>1 DEF Formed
  <2>2. At(bytes, PID1) = pid1 /\ At(bytes, PID2) = pid2
    BY <2>1 DEF At, PID1, PID2
  <2>3. <<At(bytes, PID1), At(bytes, PID2)>> = RequestIds[name]
    BY <2>2, Ids
  <2> QED
    BY <2>3, Ids
<1> HIDE DEF pid1, pid2
<1> DEFINE n == Len(data)
<1>4. n \in Nat /\ n <= 8
  BY <1>1 DEF Paired
<1>5. Valid(bytes) /\ bytes \in Seq(Byte) /\ Len(bytes) = n + 8
  <2>1. data \in Seq(Byte)
    BY <1>1 DEF Paired
  <2>2. Valid(bytes)
    BY <1>1, <2>1, FormedValid
  <2> QED
    BY <1>1, <2>2 DEF Formed
<1>6. mergeBytes(bytes[5], bytes[6]) = n
  <2>1. n \in Words
    BY <1>4, WordRange
  <2>2. bytes[5] = msbyte(n) /\ bytes[6] = lsbyte(n)
    BY <1>1 DEF Formed
  <2> QED
    BY <2>1, <2>2, WordLemma
<1> HIDE DEF n
<1>7. Took(fromByteArray(bytes), bytes, n)
  BY <1>4, <1>5, <1>6, Taken
<1>8. fromByteArray(bytes) = bytes
  <2>1. SubSeq(bytes, 1, Len(bytes)) = bytes
    BY <1>5
  <2> QED
    BY <1>5, <1>7, <2>1 DEF Took
<1>9. ~Overruns(bytes) /\ Len(bytes) <= 520
  BY <1>4, <1>5, <1>7 DEF Took
<1> QED
  BY <1>2, <1>3, <1>5, <1>8, <1>9 DEF Readable, bytes

------------------------------------------------------------------------------
(* The period of a test.                                                    *)

\* A quotient is the greatest number of times that y goes into x.
LEMMA Quotient ==
    ASSUME NEW x \in Nat, NEW y \in Nat \ {0}
    PROVE  x \div y \in Nat /\ (x \div y) * y <= x /\ x < (x \div y + 1) * y
OBVIOUS

\* The period of a rate, in ticks of the detector's clock, to within one of them.
LEMMA PeriodLemma ==
    ASSUME NEW clock \in {20, 80}, NEW rate \in Nat \ {0}, NEW ticks, ticks = clock * 1000000,
           ticks \div Word16 < rate, rate <= ticks \div 8
    PROVE  LET period == Period(clock, rate)
           IN  /\ period \in Words
               /\ period * rate <= ticks
               /\ ticks < (period + 1) * rate
<1> DEFINE p == ticks \div rate
<1>1. ticks \in Nat /\ (ticks = 20000000 \/ ticks = 80000000)
  OBVIOUS
<1>2. 8 * rate <= ticks
  BY <1>1
<1>3. Period(clock, rate) = p
  BY <1>1, <1>2 DEF Period
<1>4. p \in Nat /\ p * rate <= ticks /\ ticks < (p + 1) * rate
  BY <1>1, Quotient
<1>5. ticks < 65536 * rate
  BY <1>1 DEF Word16
<1> HIDE DEF p
<1>6. p < 65536
  <2>1. SUFFICES ASSUME p >= 65536 PROVE FALSE
    BY <1>4
  <2>2. p * rate >= 65536 * rate
    BY <1>4, <2>1
  <2> QED
    BY <1>1, <1>4, <1>5, <2>2
<1> QED
  BY <1>3, <1>4, <1>6, WordRange

\* The arguments of a test but the period, and what a conversion to 16 bits leaves alone.
LEMMA TestWords == {16, 8191, 1} \subseteq Words /\ \A w \in Words : w % Word16 = w
<1>1. 16 \in Words /\ 8191 \in Words /\ 1 \in Words
  BY WordRange
<1>2. \A n \in Nat : n < 65536 => n % 65536 = n
  OBVIOUS
<1>3. \A w \in Words : w % Word16 = w
  BY <1>2, WordRange DEF Word16
<1> QED
  BY <1>1, <1>3

\* What the receiver of a test reads as its period is what was sent.
LEMMA PeriodRead ==
    ASSUME NEW p \in Words, NEW bytes,
           bytes = RequestWords("COMMTEST_STREAM", <<16, 8191, 1, p % Word16>>)
    PROVE  mergeBytes(At(bytes, DATA + 6), At(bytes, DATA + 7)) = p
<1> DEFINE words == <<16, 8191, 1, p>>
<1>1. p % Word16 = p
  BY TestWords
<1>2. 16 \in Words /\ 8191 \in Words /\ 1 \in Words
  BY TestWords
<1>3. words \in Seq(Words) /\ Len(words) = 4 /\ words[4] = p
  BY <1>2
<1>4. "COMMTEST_STREAM" \in DOMAIN RequestIds
  BY DEF RequestIds
<1>5. bytes = RequestWords("COMMTEST_STREAM", words)
  BY <1>1
<1>6. 4 \in 1..Len(words) /\ DATA + 2 * 4 - 2 = DATA + 6 /\ DATA + 2 * 4 - 1 = DATA + 7
  BY <1>3 DEF DATA
<1> HIDE DEF words
<1>7. mergeBytes(At(bytes, DATA + 2 * 4 - 2), At(bytes, DATA + 2 * 4 - 1)) = words[4]
  BY <1>3, <1>4, <1>5, <1>6, ArgumentRead
<1> QED
  BY <1>3, <1>6, <1>7

------------------------------------------------------------------------------
(* Spectra.                                                                 *)

\* The bytes of a spectrum with the contents value, value + 1, ...
Spread(data, len, value) ==
    /\ data \in Seq(Byte) /\ Len(data) = 3 * len
    /\ \A c \in 0..len - 1 : /\ data[3 * c + 1] = Octet(value + c, 0)
                             /\ data[3 * c + 2] = Octet(value + c, 1)
                             /\ data[3 * c + 3] = Octet(value + c, 2)

\* SpectrumData spreads it so.
LEMMA SpectrumBytes ==
    ASSUME NEW len \in Nat, NEW value \in Nat
    PROVE  Spread(SpectrumData([i \in 0..len - 1 |-> value + i], len), len, value)
<1> DEFINE bins == [i \in 0..len - 1 |-> value + i]
           n == 3 * len
           byte(i) == Octet(bins[(i - 1) \div 3], (i - 1) % 3)
           data == [i \in 1..n |-> byte(i)]
<1>1. SpectrumData(bins, len) = data
  BY DEF SpectrumData
<1>2. n \in Nat
  OBVIOUS
<1>3. \A c \in 0..len - 1 : bins[c] = value + c /\ bins[c] \in Nat
  OBVIOUS
<1> HIDE DEF bins
<1>4. \A i \in 1..n : byte(i) \in Byte
  <2>1. \A i \in 1..n : (i - 1) \div 3 \in 0..len - 1 /\ (i - 1) % 3 \in 0..3
    OBVIOUS
  <2> QED
    BY <1>3, <2>1, OctetTyped
<1>5. ASSUME NEW c \in 0..len - 1
      PROVE  /\ data[3 * c + 1] = Octet(value + c, 0)
             /\ data[3 * c + 2] = Octet(value + c, 1)
             /\ data[3 * c + 3] = Octet(value + c, 2)
  <2>1. /\ (3 * c + 1 - 1) \div 3 = c /\ (3 * c + 1 - 1) % 3 = 0
        /\ (3 * c + 2 - 1) \div 3 = c /\ (3 * c + 2 - 1) % 3 = 1
        /\ (3 * c + 3 - 1) \div 3 = c /\ (3 * c + 3 - 1) % 3 = 2
    OBVIOUS
  <2>2. /\ byte(3 * c + 1) = Octet(bins[c], 0)
        /\ byte(3 * c + 2) = Octet(bins[c], 1)
        /\ byte(3 * c + 3) = Octet(bins[c], 2)
    BY <2>1
  <2>3. 3 * c + 1 \in 1..n /\ 3 * c + 2 \in 1..n /\ 3 * c + 3 \in 1..n
    OBVIOUS
  <2> HIDE DEF byte, n
  <2>4. /\ data[3 * c + 1] = byte(3 * c + 1) /\ data[3 * c + 2] = byte(3 * c + 2)
        /\ data[3 * c + 3] = byte(3 * c + 3)
    BY <2>3
  <2> QED
    BY <1>3, <2>2, <2>4
<1> HIDE DEF byte
<1>6. data \in Seq(Byte) /\ Len(data) = n
  BY <1>2, <1>4
<1> HIDE DEF data
<1> QED
  BY <1>1, <1>5, <1>6 DEF Spread, bins

\* A length and its PID2: what the caller takes the PID2 for is what was meant.
LEMMA Pid2Lemma ==
    ASSUME NEW len \in Nat, NEW status \in BOOLEAN
    PROVE  LET pid2 == SpectrumPid2(len, status)
           IN  /\ pid2 \in 0..12
               /\ pid2 \in 1..12 => /\ len \in Speclens /\ SpectrumLength(pid2) = len
                                    /\ WithStatus(pid2) = status
<1> DEFINE pid2 == SpectrumPid2(len, status)
<1>1. CASE len \notin Speclens
  <2>1. pid2 = 0
    BY <1>1 DEF SpectrumPid2, Speclens
  <2> QED
    BY <2>1
<1>2. ASSUME NEW k \in 0..5, NEW p, p = IF status THEN 2 * k + 2 ELSE 2 * k + 1
      PROVE  /\ p \in 1..12 /\ SpectrumLength(p) = 256 * 2 ^ k
             /\ WithStatus(p) = status
  <2>1. CASE status
    <3>1. p \in 1..12 /\ (p - 1) \div 2 = k /\ p % 2 = 0
      BY <1>2, <2>1
    <3> QED
      BY <2>1, <3>1 DEF SpectrumLength, WithStatus
  <2>2. CASE ~status
    <3>1. p \in 1..12 /\ (p - 1) \div 2 = k /\ p % 2 = 1
      BY <1>2, <2>2
    <3> QED
      BY <2>2, <3>1 DEF SpectrumLength, WithStatus
  <2> QED
    BY <2>1, <2>2
<1>3. CASE len \in Speclens
  <2>1. /\ len = 256 => pid2 = IF status THEN 2 * 0 + 2 ELSE 2 * 0 + 1
        /\ len = 512 => pid2 = IF status THEN 2 * 1 + 2 ELSE 2 * 1 + 1
        /\ len = 1024 => pid2 = IF status THEN 2 * 2 + 2 ELSE 2 * 2 + 1
        /\ len = 2048 => pid2 = IF status THEN 2 * 3 + 2 ELSE 2 * 3 + 1
        /\ len = 4096 => pid2 = IF status THEN 2 * 4 + 2 ELSE 2 * 4 + 1
        /\ len = 8192 => pid2 = IF status THEN 2 * 5 + 2 ELSE 2 * 5 + 1
    BY DEF SpectrumPid2
  <2>2. /\ 256 * 2 ^ 0 = 256 /\ 256 * 2 ^ 1 = 512 /\ 256 * 2 ^ 2 = 1024
        /\ 256 * 2 ^ 3 = 2048 /\ 256 * 2 ^ 4 = 4096 /\ 256 * 2 ^ 5 = 8192
    OBVIOUS
  <2>3. \/ len = 256 \/ len = 512 \/ len = 1024 \/ len = 2048 \/ len = 4096 \/ len = 8192
    BY <1>3 DEF Speclens
  <2> HIDE DEF pid2
  <2>4. CASE len = 256
    BY <1>2, <1>3, <2>1, <2>2, <2>4 DEF pid2
  <2>5. CASE len = 512
    BY <1>2, <1>3, <2>1, <2>2, <2>5 DEF pid2
  <2>6. CASE len = 1024
    BY <1>2, <1>3, <2>1, <2>2, <2>6 DEF pid2
  <2>7. CASE len = 2048
    BY <1>2, <1>3, <2>1, <2>2, <2>7 DEF pid2
  <2>8. CASE len = 4096
    BY <1>2, <1>3, <2>1, <2>2, <2>8 DEF pid2
  <2>9. CASE len = 8192
    BY <1>2, <1>3, <2>1, <2>2, <2>9 DEF pid2
  <2> QED
    BY <2>3, <2>4, <2>5, <2>6, <2>7, <2>8, <2>9
<1> QED
  BY <1>1, <1>3

\* What the packet of a spectrum, with something behind it, is read as.
Spectrum(packet, len, value, rest) ==
    /\ packet \in Seq(Byte) /\ Len(packet) >= 3 * len + Len(rest) + 8
    /\ Bins(DataOf(packet), len) = [i \in 0..len - 1 |-> (value + i) % 16777216]
    /\ \A i \in 1..Len(rest) : packet[3 * len + i + 6] = rest[i]

\* What is read of the packet that the simulator makes.
LEMMA SpectrumRead ==
    ASSUME NEW len \in Nat, NEW value \in Nat, NEW pid2 \in Byte, NEW rest \in Seq(Byte)
    PROVE  LET packet == ResizedPacket(SPECTRUM_RESPONSE, pid2,
                            SpectrumData([i \in 0..len - 1 |-> value + i], len) \o rest)
           IN  At(packet, PID2) = pid2 /\ Spectrum(packet, len, value, rest)
<1> DEFINE first == SpectrumData([i \in 0..len - 1 |-> value + i], len)
           data == first \o rest
           packet == ResizedPacket(SPECTRUM_RESPONSE, pid2, data)
           n == 3 * len
           raw == DataOf(packet)
<1>1. Spread(first, len, value) /\ n \in Nat
  <2>1. Spread(first, len, value)
    BY SpectrumBytes
  <2> QED
    BY <2>1
<1> HIDE DEF first
<1>2. first \in Seq(Byte) /\ Len(first) = n
  BY <1>1 DEF Spread
<1>3. Joint(data, first, rest)
  BY <1>2, Joined
<1> HIDE DEF data
<1>4. /\ data \in Seq(Byte) /\ Len(data) = n + Len(rest)
      /\ \A i \in 1..n : data[i] = first[i]
      /\ \A i \in 1..Len(rest) : data[n + i] = rest[i]
  BY <1>2, <1>3 DEF Joint
<1>5. SPECTRUM_RESPONSE \in Byte
  BY DEF SPECTRUM_RESPONSE, Byte
<1>6. /\ packet \in Seq(Byte) /\ Len(packet) = 2 * Len(data) + 8 /\ packet[4] = pid2
      /\ \A i \in 1..Len(data) : packet[i + 6] = data[i]
  <2>1. Resized(packet, pid2, data)
    BY <1>4, <1>5, ResizedFormed
  <2> HIDE DEF packet
  <2> QED
    BY <2>1 DEF Resized
<1> HIDE DEF packet
<1>7. Len(rest) \in Nat /\ Len(packet) >= n + Len(rest) + 8
  BY <1>1, <1>4, <1>6
<1>8. ASSUME NEW i \in Nat, i < n PROVE Raw(raw, i) = first[i + 1]
  <2>1. i + 7 <= Len(packet) /\ i + 1 \in 1..n /\ i + 1 \in 1..Len(data)
        /\ (i + 1) + 6 = i + 7
    BY <1>1, <1>4, <1>7, <1>8
  <2>2. Raw(raw, i) = packet[i + 7]
    BY <1>6, <2>1, DataOfLemma
  <2> QED
    BY <1>4, <1>6, <2>1, <2>2
<1> HIDE DEF raw, n
<1>9. ASSUME NEW c \in 0..len - 1
      PROVE  Merge(raw, <<3 * c + 2, 3 * c + 1, 3 * c>>) = (value + c) % 16777216
  <2>1. /\ 3 * c \in Nat /\ 3 * c + 1 \in Nat /\ 3 * c + 2 \in Nat
        /\ 3 * c < n /\ 3 * c + 1 < n /\ 3 * c + 2 < n
    BY DEF n
  <2>2. (3 * c + 1) + 1 = 3 * c + 2 /\ (3 * c + 2) + 1 = 3 * c + 3
    OBVIOUS
  <2>3. /\ Raw(raw, 3 * c) = first[3 * c + 1]
        /\ Raw(raw, 3 * c + 1) = first[3 * c + 2]
        /\ Raw(raw, 3 * c + 2) = first[3 * c + 3]
    BY <1>8, <2>1, <2>2
  <2>4. /\ Raw(raw, 3 * c) = Octet(value + c, 0)
        /\ Raw(raw, 3 * c + 1) = Octet(value + c, 1)
        /\ Raw(raw, 3 * c + 2) = Octet(value + c, 2)
    BY <1>1, <2>3 DEF Spread
  <2>5. value + c \in Nat
    OBVIOUS
  <2>6. /\ Octet(value + c, 0) \in Nat /\ Octet(value + c, 1) \in Nat
        /\ Octet(value + c, 2) \in Nat
    <3>1. \A k \in 0..3 : Octet(value + c, k) \in Byte
      BY <2>5, OctetTyped
    <3>2. \A k \in 0..3 : Octet(value + c, k) \in Nat
      BY <3>1, ByteLemma
    <3> QED
      BY <3>2
  <2>7. Three(raw, 3 * c + 2, 3 * c + 1, 3 * c)
    BY <2>4, <2>6, ThreeMerged
  <2>8. 256 * (256 * Octet(value + c, 2) + Octet(value + c, 1)) + Octet(value + c, 0)
            = (value + c) % 16777216
    BY <2>5, OctetsMerged
  <2> QED
    BY <2>4, <2>7, <2>8 DEF Three
<1>10. Bins(raw, len) = [i \in 0..len - 1 |-> (value + i) % 16777216]
  BY <1>9 DEF Bins
<1>11. At(packet, PID2) = pid2
  BY <1>6 DEF At, PID2
<1>12. \A i \in 1..Len(rest) : packet[n + i + 6] = rest[i]
  <2>1. \A i \in 1..Len(rest) : n + i \in 1..Len(data)
    BY <1>1, <1>4, <1>7
  <2> QED
    BY <1>4, <1>6, <2>1
<1> QED
  BY <1>6, <1>7, <1>10, <1>11, <1>12 DEF Spectrum, packet, data, first, n, raw

\* The answer to a request for the spectrum, made of packet and read.
Answered(packet, d, status, len, value) ==
    /\ Spectrum(packet, len, value, IF status THEN Status(d, 0) ELSE <<>>)
    /\ \/ came'.how = "unknown" /\ channels' = NoChannels
       \/ /\ came'.how \in {"direct", "spectrum"}
          /\ (came'.how = "direct") = status /\ len \in Speclens
          /\ channels' = [len |-> len, value |-> value,
                          read |-> Bins(DataOf(packet), len)]
    /\ came'.how = "direct" =>
          response' = ResizedPacket(STATUS_RESPONSE[1], STATUS_RESPONSE[2],
                          SubSeq(DataOf(packet), 3 * len + 1, 3 * len + STATUS_SIZE))

\* AnswerSpectrum makes it so.
LEMMA SpectrumAnswer ==
    ASSUME NEW d \in Detectors, NEW status \in BOOLEAN, NEW len \in Lengths,
           NEW value \in Values, AnswerSpectrum(d, status, len, value)
    PROVE  \E packet : Answered(packet, d, status, len, value)
<1> DEFINE rest == IF status THEN Status(d, 0) ELSE <<>>
           pid2 == SpectrumPid2(len, status)
           packet == ResizedPacket(SPECTRUM_RESPONSE, pid2,
                        SpectrumData([i \in 0..len - 1 |-> value + i], len) \o rest)
<1>1. len \in Nat /\ value \in Nat
  BY ValuesAssumption
<1>2. rest \in Seq(Byte)
  <2>1. d \in Detector /\ 0 \in Less(d)
    BY Chosen DEF Less
  <2>2. Status(d, 0) \in Seq(Byte)
    BY <2>1, StatusBytes
  <2>3. <<>> \in Seq(Byte)
    OBVIOUS
  <2> QED
    BY <2>2, <2>3
<1>3. /\ pid2 \in 0..12
      /\ pid2 \in 1..12 => /\ len \in Speclens /\ SpectrumLength(pid2) = len
                           /\ WithStatus(pid2) = status
  BY <1>1, Pid2Lemma
<1>4. /\ came'.how = IF At(packet, PID2) \notin 1..12 THEN "unknown"
                      ELSE IF WithStatus(At(packet, PID2)) THEN "direct" ELSE "spectrum"
      /\ channels' = IF At(packet, PID2) \in 1..12
                     THEN [len |-> len, value |-> value,
                           read |-> Bins(DataOf(packet), SpectrumLength(At(packet, PID2)))]
                     ELSE NoChannels
      /\ came'.how = "direct" =>
            response' = ResizedPacket(STATUS_RESPONSE[1], STATUS_RESPONSE[2],
                            SubSeq(DataOf(packet), 3 * SpectrumLength(At(packet, PID2)) + 1,
                                   3 * SpectrumLength(At(packet, PID2)) + STATUS_SIZE))
  BY DEF AnswerSpectrum
<1> HIDE DEF pid2
<1>5. At(packet, PID2) = pid2 /\ Spectrum(packet, len, value, rest)
  <2>1. pid2 \in Byte
    BY <1>3 DEF Byte
  <2> HIDE DEF rest
  <2> QED
    BY <1>1, <1>2, <2>1, SpectrumRead
<1> HIDE DEF packet
<1>6. CASE pid2 \in 1..12
  <2>1. SpectrumLength(pid2) = len /\ WithStatus(pid2) = status /\ len \in Speclens
    BY <1>3, <1>6
  <2>2. came'.how = IF status THEN "direct" ELSE "spectrum"
    BY <1>4, <1>5, <1>6, <2>1
  <2>3. /\ came'.how \in {"direct", "spectrum"} /\ (came'.how = "direct") = status
    BY <2>2
  <2>4. channels' = [len |-> len, value |-> value, read |-> Bins(DataOf(packet), len)]
    BY <1>4, <1>5, <1>6, <2>1
  <2>5. came'.how = "direct" =>
            response' = ResizedPacket(STATUS_RESPONSE[1], STATUS_RESPONSE[2],
                            SubSeq(DataOf(packet), 3 * len + 1, 3 * len + STATUS_SIZE))
    BY <1>4, <1>5, <2>1
  <2> QED
    BY <1>5, <2>1, <2>3, <2>4, <2>5 DEF Answered
<1>7. CASE pid2 \notin 1..12
  <2>1. came'.how = "unknown" /\ channels' = NoChannels
    BY <1>4, <1>5, <1>7
  <2>2. came'.how # "direct"
    BY <2>1
  <2> QED
    BY <1>5, <2>1, <2>2 DEF Answered
<1> QED
  BY <1>6, <1>7

------------------------------------------------------------------------------
(* The input buffer of the USB handler, and what is received from it.       *)

\* The first bytes of a buffer are overwritten.
Put(new, old, bytes) ==
    /\ new \in Seq(Byte) /\ Len(new) = BufferSize
    /\ \A i \in 1..Len(bytes) : new[i] = bytes[i]
    /\ \A i \in Len(bytes) + 1..BufferSize : new[i] = old[i]

\* Filled makes it so.
LEMMA FilledBuffer ==
    ASSUME buffer \in Seq(Byte), Len(buffer) = BufferSize,
           NEW bytes \in Seq(Byte), Len(bytes) <= BufferSize
    PROVE  Put(Filled(bytes), buffer, bytes)
<1> DEFINE n == BufferSize
           item(i) == IF i \in DOMAIN bytes THEN bytes[i] ELSE buffer[i]
<1>1. n \in Nat /\ Len(bytes) \in Nat /\ DOMAIN bytes = 1..Len(bytes)
  BY BufferAssumption
<1>2. \A i \in 1..Len(bytes) : item(i) = bytes[i] /\ bytes[i] \in Byte
  BY <1>1
<1>3. \A i \in Len(bytes) + 1..n : item(i) = buffer[i] /\ buffer[i] \in Byte
  BY <1>1
<1>4. /\ \A i \in 1..n : i \in 1..Len(bytes) \/ i \in Len(bytes) + 1..n
      /\ \A i \in 1..Len(bytes) : i \in 1..n
      /\ \A i \in Len(bytes) + 1..n : i \in 1..n
  BY <1>1
<1>5. Filled(bytes) = [i \in 1..n |-> item(i)]
  BY DEF Filled
<1> HIDE DEF item, n
<1>6. \A i \in 1..n : item(i) \in Byte
  BY <1>2, <1>3, <1>4
<1>7. [i \in 1..n |-> item(i)] \in Seq(Byte) /\ Len([i \in 1..n |-> item(i)]) = n
  BY <1>1, <1>6
<1>8. \A i \in 1..n : Filled(bytes)[i] = item(i)
  BY <1>5
<1> QED
  BY <1>2, <1>3, <1>4, <1>5, <1>7, <1>8 DEF n, Put

\* An answer: a valid packet with the 64 bytes of a status.
LEMMA AnswerShape ==
    ASSUME NEW d \in Detectors
    PROVE  /\ Formed(Answer(d), 128, 1, Status(d, 0))
           /\ Answer(d) \in Seq(Byte) /\ Len(Answer(d)) = 72
           /\ Answer(d)[5] = 0 /\ Answer(d)[6] = 64
           /\ Valid(Answer(d))
           /\ \A i \in 0..63 : Answer(d)[i + 7] = Raw(Status(d, 0), i)
<1>1. d \in Detector /\ 0 \in Less(d)
  BY Chosen DEF Less
<1>2. Status(d, 0) \in Seq(Byte) /\ Len(Status(d, 0)) = 64
  BY <1>1, StatusBytes
<1>3. 128 \in Byte /\ 1 \in Byte
  BY DEF Byte
<1>4. Formed(Answer(d), 128, 1, Status(d, 0))
  <2>1. Answer(d) = Packet(128, 1, Status(d, 0))
    BY DEF Answer, STATUS_RESPONSE
  <2> QED
    BY <1>2, <1>3, <2>1, PacketFormed
<1>5. msbyte(64) = 0 /\ lsbyte(64) = 64
  BY DEF msbyte, lsbyte
<1>6. /\ Answer(d) \in Seq(Byte) /\ Len(Answer(d)) = 72
      /\ Answer(d)[5] = 0 /\ Answer(d)[6] = 64
      /\ \A i \in 1..64 : Answer(d)[i + 6] = Status(d, 0)[i]
  <2> DEFINE raw == Status(d, 0)
             p == Answer(d)
  <2>1. Len(raw) = 64 /\ Formed(p, 128, 1, raw)
    BY <1>2, <1>4
  <2> HIDE DEF raw, p
  <2>2. /\ p \in Seq(Byte) /\ Len(p) = 64 + 8
        /\ p[5] = msbyte(64) /\ p[6] = lsbyte(64)
        /\ \A i \in 1..64 : p[i + 6] = raw[i]
    BY <2>1 DEF Formed
  <2> QED
    BY <1>5, <2>2 DEF raw, p
<1>7. \A i \in 0..63 : Answer(d)[i + 7] = Raw(Status(d, 0), i)
  <2>1. \A i \in 0..63 : i + 1 \in 1..64 /\ (i + 1) + 6 = i + 7
    OBVIOUS
  <2> QED
    BY <1>6, <2>1 DEF Raw
<1>8. Valid(Answer(d))
  BY <1>2, <1>4, FormedValid
<1> QED
  BY <1>4, <1>6, <1>7, <1>8

\* The first n bytes are the same.
Alike(p, q, n) == \A i \in 1..n : p[i] = q[i]

\* The first n bytes are the same, but for one.
AlikeBut(p, q, n, i) == \A j \in 1..n : j # i => p[j] = q[j]

\* Sequences with the same bytes are the same.
LEMMA SameBytes ==
    ASSUME NEW p \in Seq(Byte), NEW q \in Seq(Byte), NEW n \in Nat,
           Len(p) = n, Len(q) = n, Alike(p, q, n)
    PROVE  p = q
<1>1. p = [i \in 1..n |-> p[i]] /\ q = [i \in 1..n |-> q[i]]
  OBVIOUS
<1> QED
  BY <1>1 DEF Alike

\* So are their prefixes.
LEMMA SamePrefix ==
    ASSUME NEW p \in Seq(Byte), NEW q \in Seq(Byte), NEW n \in Nat,
           n <= Len(p), n <= Len(q), \A i \in 1..n : p[i] = q[i]
    PROVE  SubSeq(p, 1, n) = SubSeq(q, 1, n)
<1>1. SubSeq(p, 1, n) = [i \in 1..n |-> p[i]] /\ SubSeq(q, 1, n) = [i \in 1..n |-> q[i]]
  OBVIOUS
<1> QED
  BY <1>1

\* Two valid packets whose bytes are the same up to the checksum are the same.
LEMMA SameChecksum ==
    ASSUME NEW p \in Seq(Byte), NEW q \in Seq(Byte), NEW m \in Nat,
           Len(p) = m + 2, Len(q) = m + 2, \A i \in 1..m : p[i] = q[i],
           Valid(p), Valid(q)
    PROVE  p[m + 1] = q[m + 1] /\ p[m + 2] = q[m + 2]
<1>1. m <= Len(p) /\ m <= Len(q)
  OBVIOUS
<1>2. SubSeq(p, 1, m) = SubSeq(q, 1, m)
  BY <1>1, SamePrefix
<1>3. mergeBytes(p[m + 1], p[m + 2]) = mergeBytes(q[m + 1], q[m + 2])
  BY <1>2, ValidMeans
<1>4. /\ p[m + 1] \in Byte /\ q[m + 1] \in Byte /\ p[m + 2] \in Byte /\ q[m + 2] \in Byte
  OBVIOUS
<1>5. \A a, b, c, d \in Byte : mergeBytes(a, b) = mergeBytes(c, d) => a = c /\ b = d
  BY DEF mergeBytes, Byte
<1> QED
  BY <1>3, <1>4, <1>5

\* Two valid packets do not differ in one byte.
LEMMA OneByte ==
    ASSUME NEW p \in Seq(Byte), NEW q \in Seq(Byte), NEW m \in Nat, NEW i \in 1..m + 2,
           Len(p) = m + 2, Len(q) = m + 2, AlikeBut(p, q, m + 2, i), Valid(p), Valid(q)
    PROVE  p[i] = q[i]
<1>1. CASE i <= m
  <2>1. /\ i \in 1..m /\ m \in 0..Len(p) /\ m \in 0..Len(q)
        /\ m + 1 \in 1..m + 2 /\ m + 2 \in 1..m + 2 /\ m + 1 # i /\ m + 2 # i
        /\ 1..m \subseteq 1..Len(p) /\ 1..m \subseteq 1..Len(q)
        /\ \A j \in 1..m : j \in 1..m + 2
    BY <1>1
  <2>2. p[m + 1] = q[m + 1] /\ p[m + 2] = q[m + 2]
    BY <2>1 DEF AlikeBut
  <2>3. twosComplement(Sum16(SubSeq(p, 1, m))) = twosComplement(Sum16(SubSeq(q, 1, m)))
    BY <2>1, <2>2, ValidMeans
  <2>4. Sum16(SubSeq(p, 1, m)) = Sum16(SubSeq(q, 1, m))
    BY <2>1, <2>3, PrefixSum, Twos
  <2>5. Held(p, 1..m) % Word16 = Held(q, 1..m) % Word16
    BY <2>1, <2>4, PrefixSum
  <2>6. Part(p, 1..m) /\ Part(q, 1..m)
    BY <2>1, BytesPart
  <2>7. /\ Held(p, 1..m) \in Nat /\ Held(q, 1..m) \in Nat
        /\ Held(p, 1..m) - p[i] = Held(q, 1..m) - q[i]
    <3>1. \A j \in 1..m : j # i => p[j] = q[j]
      BY <2>1 DEF AlikeBut
    <3> DEFINE S == 1..m
    <3>2. Part(p, S) /\ Part(q, S) /\ i \in S /\ \A j \in S : j # i => p[j] = q[j]
      BY <2>1, <2>6, <3>1
    <3> HIDE DEF S
    <3>3. Held(p, S) \in Nat /\ Held(q, S) \in Nat /\ Held(p, S) - p[i] = Held(q, S) - q[i]
      BY <3>2, HeldChange
    <3> QED
      BY <3>3 DEF S
  <2> DEFINE held == Held(p, 1..m)
             other == Held(q, 1..m)
             byte == p[i]
             was == q[i]
  <2>8. byte \in Nat /\ byte < Word16 /\ was \in Nat /\ was < Word16
    <3>1. p[i] \in Byte /\ q[i] \in Byte
      BY <2>1
    <3> QED
      BY <3>1, ByteLemma
  <2>9. held \in Nat /\ other \in Nat /\ held - byte = other - was
    BY <2>7
  <2> HIDE DEF held, other, byte, was
  <2>10. held - other < Word16 /\ other - held < Word16
    BY <2>8, <2>9 DEF Word16
  <2>11. held = other
    <3>1. held % Word16 = other % Word16
      BY <2>5 DEF held, other
    <3> QED
      BY <2>9, <2>10, <3>1, SumsEqual
  <2>12. byte = was
    BY <2>8, <2>9, <2>11
  <2> QED
    BY <2>12 DEF byte, was
<1>2. CASE i = m + 1 \/ i = m + 2
  <2>1. \A j \in 1..m : j \in 1..m + 2 /\ j # i
    BY <1>2
  <2>2. \A j \in 1..m : p[j] = q[j]
    BY <2>1 DEF AlikeBut
  <2>3. p[m + 1] = q[m + 1] /\ p[m + 2] = q[m + 2]
    BY <2>2, SameChecksum
  <2> QED
    BY <1>2, <2>3
<1> QED
  BY <1>1, <1>2

\* The input buffer has its size, whatever it holds.
Buffered == buffer \in Seq(Byte) /\ Len(buffer) = BufferSize

\* What arrives overwrites the start of the buffer.
LEMMA Arriving ==
    ASSUME Buffered, NEW d, NEW bytes \in Seq(Byte), Len(bytes) <= BufferSize,
           NEW how, NEW place, Arrive(d, bytes, how, place)
    PROVE  Put(buffer', buffer, bytes)
<1>1. buffer' = Filled(bytes)
  BY DEF Arrive
<1> QED
  BY <1>1, FilledBuffer DEF Buffered

\* The buffer is long enough for the answer to a request for the status.
LEMMA BufferLong == BufferSize \in Nat /\ 72 <= BufferSize
BY BufferAssumption DEF STATUS_SIZE, MIN_PACKET_LEN

\* What is read out of a buffer that says it holds a status.
LEMMA Received ==
    ASSUME NEW buf \in Seq(Byte), 72 <= Len(buf), buf[5] = 0, buf[6] = 64
    PROVE  Took(fromByteArray(buf), buf, 64)
<1>1. mergeBytes(buf[5], buf[6]) = 64
  BY DEF mergeBytes
<1>2. 64 \in Nat /\ 64 + 8 <= Len(buf)
  OBVIOUS
<1> QED
  BY <1>1, <1>2, Taken

\* An answer that comes whole is received as it is.
LEMMA WholeReceived ==
    ASSUME Buffered, NEW d \in Detectors, ArriveWhole(d)
    PROVE  response' = Answer(d) /\ Buffered'
<1>1. PICK answer \in Seq(Byte) : answer = Answer(d) /\ Len(answer) = 72 /\ Valid(answer)
  BY AnswerShape
<1>2. answer[5] = 0 /\ answer[6] = 64
  BY <1>1, AnswerShape
<1>3. Arrive(d, answer, "whole", 0)
  BY <1>1 DEF ArriveWhole
<1>4. Put(buffer', buffer, answer) /\ 72 <= BufferSize
  <2>1. Len(answer) <= BufferSize /\ 72 <= BufferSize
    BY <1>1, BufferLong
  <2> QED
    BY <1>3, <2>1, Arriving
<1>5. PICK new \in Seq(Byte) : new = buffer' /\ 72 <= Len(new)
  BY <1>4 DEF Put
<1>6. \A i \in 1..72 : new[i] = answer[i]
  BY <1>1, <1>4, <1>5 DEF Put
<1>7. Took(fromByteArray(new), new, 64)
  <2>1. new[5] = answer[5] /\ new[6] = answer[6]
    BY <1>6
  <2>2. new[5] = 0 /\ new[6] = 64
    BY <1>2, <2>1
  <2> QED
    BY <1>5, <2>2, Received
<1>8. PICK p \in Seq(Byte) : p = fromByteArray(new)
  BY <1>7 DEF Took
<1>9. Len(p) = 72 /\ \A i \in 1..72 : p[i] = new[i]
  BY <1>7, <1>8 DEF Took
<1>10. p = answer
  <2> DEFINE n == 72
  <2>1. n \in Nat /\ Len(p) = n /\ Len(answer) = n /\ Alike(p, answer, n)
    BY <1>1, <1>6, <1>9 DEF Alike
  <2> HIDE DEF n
  <2> QED
    BY <2>1, SameBytes
<1>11. response' = answer
  BY <1>1, <1>3, <1>5, <1>7, <1>8, <1>10 DEF Arrive, Took
<1> QED
  BY <1>1, <1>4, <1>11 DEF Put, Buffered

\* A byte that something is added to is another one.
LEMMA AddedTo ==
    ASSUME NEW b \in Byte, NEW c \in Byte \ {0}
    PROVE  (b + c) % 256 \in Byte /\ (b + c) % 256 # b
<1>1. b \in Nat /\ b < 256 /\ c \in Nat /\ 0 < c /\ c < 256
  BY DEF Byte
<1>2. CASE b + c < 256
  <2>1. (b + c) % 256 = b + c
    BY <1>1, <1>2
  <2> QED
    BY <1>1, <1>2, <2>1 DEF Byte
<1>3. CASE b + c >= 256
  <2>1. (b + c) % 256 = b + c - 256
    BY <1>1, <1>3
  <2> QED
    BY <1>1, <1>3, <2>1 DEF Byte
<1> QED
  BY <1>1, <1>2, <1>3

\* A packet of which one byte is replaced.
LEMMA Changed ==
    ASSUME NEW p \in Seq(Byte), NEW k \in 1..Len(p), NEW b \in Byte
    PROVE  LET q == [p EXCEPT ![k] = b]
           IN  /\ q \in Seq(Byte) /\ Len(q) = Len(p) /\ q[k] = b
               /\ \A i \in 1..Len(p) : i # k => q[i] = p[i]
OBVIOUS

\* An answer of which a byte was changed is not received.
LEMMA DamagedReceived ==
    ASSUME Buffered, NEW d \in Detectors, NEW place \in 0..71, NEW damage \in Damages,
           ArriveDamaged(d, place, damage)
    PROVE  response' = <<>> /\ Buffered'
<1>1. PICK answer \in Seq(Byte) : answer = Answer(d) /\ Len(answer) = 72 /\ Valid(answer)
  BY AnswerShape
<1>2. answer[5] = 0 /\ answer[6] = 64
  BY <1>1, AnswerShape
<1>3. PICK k \in 1..Len(answer) : k = place + 1 /\ k \in 1..72 /\ k # 5 /\ k # 6
  BY <1>1 DEF ArriveDamaged, LEN_MSB, LEN_LSB
<1>4. PICK b \in Byte : b = (answer[k] + damage) % 256 /\ b # answer[k]
  <2>1. answer[k] \in Byte
    OBVIOUS
  <2>2. damage \in Byte \ {0}
    BY DamagesAssumption
  <2> QED
    BY <2>1, <2>2, AddedTo
<1>5. PICK bytes \in Seq(Byte) : bytes = [answer EXCEPT ![k] = b]
  BY Changed
<1>6. Len(bytes) = 72
  BY <1>1, <1>5, Changed
<1>7. bytes[k] = b /\ \A i \in 1..72 : i # k => bytes[i] = answer[i]
  BY <1>1, <1>5, Changed
<1>8. Arrive(d, bytes, "damaged", place)
  <2>1. [answer EXCEPT ![place + 1] = (@ + damage) % 256] = bytes
    BY <1>3, <1>4, <1>5
  <2> QED
    BY <1>1, <2>1 DEF ArriveDamaged
<1>9. Put(buffer', buffer, bytes) /\ 72 <= BufferSize
  <2>1. Len(bytes) <= BufferSize /\ 72 <= BufferSize
    BY <1>6, BufferLong
  <2> QED
    BY <1>8, <2>1, Arriving
<1>10. PICK new \in Seq(Byte) : new = buffer' /\ 72 <= Len(new) /\ Len(new) = BufferSize
  BY <1>9 DEF Put
<1>11. \A i \in 1..72 : new[i] = bytes[i]
  BY <1>6, <1>9, <1>10 DEF Put
<1>12. Took(fromByteArray(new), new, 64)
  <2>1. new[5] = bytes[5] /\ new[6] = bytes[6]
    BY <1>11
  <2>2. bytes[5] = answer[5] /\ bytes[6] = answer[6]
    BY <1>3, <1>7
  <2>3. new[5] = 0 /\ new[6] = 64
    BY <1>2, <2>1, <2>2
  <2> QED
    BY <1>10, <2>3, Received
<1>13. PICK p \in Seq(Byte) : p = fromByteArray(new)
  BY <1>12 DEF Took
<1>14. Len(p) = 72 /\ \A i \in 1..72 : p[i] = new[i]
  BY <1>12, <1>13 DEF Took
<1>15. ~Valid(p)
  <2>1. SUFFICES ASSUME Valid(p) PROVE FALSE
    OBVIOUS
  <2> DEFINE m == 70
  <2>2. m \in Nat /\ m + 2 = 72
    OBVIOUS
  <2> HIDE DEF m
  <2>3. /\ k \in 1..m + 2 /\ Len(p) = m + 2 /\ Len(answer) = m + 2
        /\ AlikeBut(p, answer, m + 2, k)
    BY <1>1, <1>3, <1>7, <1>11, <1>14, <2>2 DEF AlikeBut
  <2>4. Valid(answer)
    BY <1>1
  <2>5. p[k] = answer[k]
    <3>1. m \in Nat /\ Len(p) = m + 2 /\ Len(answer) = m + 2 /\ k \in 1..m + 2
      BY <2>2, <2>3
    <3>2. AlikeBut(p, answer, m + 2, k)
      BY <2>3
    <3> QED
      BY <2>1, <2>4, <3>1, <3>2, OneByte, SMTT(30)
  <2>6. p[k] = bytes[k] /\ bytes[k] = b
    BY <1>3, <1>7, <1>11, <1>14
  <2>7. b # answer[k]
    BY <1>4
  <2> QED
    BY <2>5, <2>6, <2>7
<1> QED
  BY <1>8, <1>10, <1>13, <1>15 DEF Arrive, Buffered

------------------------------------------------------------------------------
(* The places of the readings in a status.                                  *)

\* No bit is set, and bit k of place i is.
Blank(raw) == \A j \in 0..63 : Raw(raw, j) = 0

Single(raw, i, k) == \A j \in 0..63 : Raw(raw, j) = IF j = i THEN 2 ^ k ELSE 0

\* The reading that the bit belongs to, if any.
Owner(i, k) ==
    CASE i \in 0..3 -> "fast" [] i \in 4..7 -> "slow" [] i \in 8..11 -> "gp"
      [] i \in 12..15 -> "acc" [] i \in 20..23 -> "real"
      [] i = 24 -> (IF k < 4 THEN "minor" ELSE "firmware")
      [] i = 25 -> (IF k < 4 THEN "fpgaminor" ELSE "fpga")
      [] i \in 26..29 -> "serial" [] i \in 30..31 -> "hv" [] i \in 32..33 -> "chip"
      [] i = 34 -> "board"
      [] i = 35 -> (CASE k = 7 -> "timereached" [] k = 5 -> "enabled"
                      [] k = 4 -> "countreached" [] OTHER -> "gated")
      [] i = 36 -> "clock" [] i = 37 -> "build" [] i = 39 -> "device"
      [] i \in 40..41 -> "tec"
      [] i = 43 -> (IF k = 3 THEN "lmmo" ELSE "list")
      [] i = 46 -> (IF k = 1 THEN "running" ELSE "index")
      [] OTHER -> "index"

\* p is 2^k, said without an exponent.
Power(k, p) ==
    /\ (k = 0 => p = 1) /\ (k = 1 => p = 2) /\ (k = 2 => p = 4) /\ (k = 3 => p = 8)
    /\ (k = 4 => p = 16) /\ (k = 5 => p = 32) /\ (k = 6 => p = 64) /\ (k = 7 => p = 128)

\* It is.
LEMMA Powers == \A k \in 0..7 : Power(k, 2 ^ k)
<1> SUFFICES ASSUME NEW k \in 0..7 PROVE Power(k, 2 ^ k)
  OBVIOUS
<1> DEFINE p == 2 ^ k
<1>1. (k = 0 => p = 1) /\ (k = 1 => p = 2) /\ (k = 2 => p = 4) /\ (k = 3 => p = 8)
  <2>1. k = 0 => p = 1
    OBVIOUS
  <2>2. k = 1 => p = 2
    OBVIOUS
  <2>3. k = 2 => p = 4
    OBVIOUS
  <2>4. k = 3 => p = 8
    OBVIOUS
  <2> QED
    BY <2>1, <2>2, <2>3, <2>4
<1>2. (k = 4 => p = 16) /\ (k = 5 => p = 32) /\ (k = 6 => p = 64) /\ (k = 7 => p = 128)
  <2>1. k = 4 => p = 16
    OBVIOUS
  <2>2. k = 5 => p = 32
    OBVIOUS
  <2>3. k = 6 => p = 64
    OBVIOUS
  <2>4. k = 7 => p = 128
    OBVIOUS
  <2> QED
    BY <2>1, <2>2, <2>3, <2>4
<1> QED
  BY <1>1, <1>2 DEF Power

\* Bit k of a byte, which is p, seen through the masks of the getters.
Masked(k, p) ==
    /\ p \in Nat
    /\ k < 4 => p \div 16 = 0
    /\ k >= 4 => p % 16 = 0
    /\ k # 1 => (p \div 2) % 2 = 0
    /\ k # 3 => (p \div 8) % 2 = 0
    /\ k # 4 => (p \div 16) % 2 = 0
    /\ k # 5 => (p \div 32) % 2 = 0
    /\ k # 7 => (p \div 128) % 2 = 0
    /\ k = 3 => p % 4 = 0 /\ (p \div 4) % 2 = 0
    /\ k = 1 => (256 * p) % 512 = 0

\* A single bit is seen only by the masks it belongs to.
LEMMA Masks == ASSUME NEW k \in 0..7 PROVE Masked(k, 2 ^ k)
<1> DEFINE p == 2 ^ k
<1>1. Power(k, p)
  BY Powers
<1> HIDE DEF p
<1>2. p \in Nat
  BY <1>1 DEF Power
<1>3. k < 4 => p \div 16 = 0
  BY <1>1 DEF Power
<1>4. k >= 4 => p % 16 = 0
  BY <1>1 DEF Power
<1>5. (k # 1 => (p \div 2) % 2 = 0) /\ (k # 3 => (p \div 8) % 2 = 0)
  BY <1>1 DEF Power
<1>6. (k # 4 => (p \div 16) % 2 = 0) /\ (k # 5 => (p \div 32) % 2 = 0)
  BY <1>1 DEF Power
<1>7. k # 7 => (p \div 128) % 2 = 0
  BY <1>1 DEF Power
<1>8. k = 3 => p % 4 = 0 /\ (p \div 4) % 2 = 0
  BY <1>1 DEF Power
<1>9. k = 1 => (256 * p) % 512 = 0
  BY <1>1 DEF Power
<1> QED
  BY <1>2, <1>3, <1>4, <1>5, <1>6, <1>7, <1>8, <1>9 DEF p, Masked

\* Two statuses that differ at place i only.
Elsewhere(raw, other, i) == \A j \in 0..63 : j # i => Raw(raw, j) = Raw(other, j)

\* What is merged of two to four bytes is the same if none of them is at place i.
Kept4(raw, other, i, a, b, c, d) ==
    i \notin {a, b, c, d} =>
        /\ MergeWords(raw, a, b, c, d) = MergeWords(other, a, b, c, d)
        /\ Merge(raw, <<a, b, c>>) = Merge(other, <<a, b, c>>)
        /\ Merge(raw, <<a, b>>) = Merge(other, <<a, b>>)

\* They are the same there.
LEMMA MergeKept ==
    ASSUME NEW raw, NEW other, NEW i, Elsewhere(raw, other, i),
           NEW a \in 0..63, NEW b \in 0..63, NEW c \in 0..63, NEW d \in 0..63
    PROVE  Kept4(raw, other, i, a, b, c, d)
<1> SUFFICES ASSUME i \notin {a, b, c, d}
             PROVE  /\ MergeWords(raw, a, b, c, d) = MergeWords(other, a, b, c, d)
                    /\ Merge(raw, <<a, b, c>>) = Merge(other, <<a, b, c>>)
                    /\ Merge(raw, <<a, b>>) = Merge(other, <<a, b>>)
  BY DEF Kept4
<1>1. /\ Raw(raw, a) = Raw(other, a) /\ Raw(raw, b) = Raw(other, b)
      /\ Raw(raw, c) = Raw(other, c) /\ Raw(raw, d) = Raw(other, d)
  BY DEF Elsewhere
<1>2. Merge(raw, <<c, d>>) = Merge(other, <<c, d>>)
  <2> DEFINE places == <<c, d>>
  <2>1. Len(places) \in Nat /\ \A k \in 1..Len(places) : places[k] \in {c, d}
    OBVIOUS
  <2> HIDE DEF places
  <2>2. \A k \in 1..Len(places) : Raw(raw, places[k]) = Raw(other, places[k])
    BY <1>1, <2>1
  <2> QED
    BY <2>1, <2>2, MergeSame DEF places
<1>3. Merge(raw, <<a, b, c>>) = Merge(other, <<a, b, c>>)
  <2> DEFINE places == <<a, b, c>>
  <2>1. Len(places) \in Nat /\ \A k \in 1..Len(places) : places[k] \in {a, b, c}
    OBVIOUS
  <2> HIDE DEF places
  <2>2. \A k \in 1..Len(places) : Raw(raw, places[k]) = Raw(other, places[k])
    BY <1>1, <2>1
  <2> QED
    BY <2>1, <2>2, MergeSame DEF places
<1>4. Merge(raw, <<a, b>>) = Merge(other, <<a, b>>)
  <2> DEFINE places == <<a, b>>
  <2>1. Len(places) \in Nat /\ \A k \in 1..Len(places) : places[k] \in {a, b}
    OBVIOUS
  <2> HIDE DEF places
  <2>2. \A k \in 1..Len(places) : Raw(raw, places[k]) = Raw(other, places[k])
    BY <1>1, <2>1
  <2> QED
    BY <2>1, <2>2, MergeSame DEF places
<1> QED
  BY <1>2, <1>3, <1>4 DEF MergeWords

\* The readings of several bytes do not depend on the others.
LEMMA MergesKept ==
    ASSUME NEW raw, NEW other, NEW i \in 0..63, Elsewhere(raw, other, i)
    PROVE  /\ i \notin 0..3 => FastCount(raw) = FastCount(other)
           /\ i \notin 4..7 => SlowCount(raw) = SlowCount(other)
           /\ i \notin 8..11 => GpCount(raw) = GpCount(other)
           /\ i \notin 12..15 => AccTime(raw) = AccTime(other)
           /\ i \notin 20..23 => RealTime(raw) = RealTime(other)
           /\ i \notin 26..29 => SerialNb(raw) = SerialNb(other)
           /\ i \notin 30..31 => HighVoltage(raw) = HighVoltage(other)
           /\ i \notin 32..33 => DetectorTemp(raw) = DetectorTemp(other)
           /\ i \notin 40..41 => TecVoltage(raw) = TecVoltage(other)
           /\ i \notin 46..47 => SequentialBufferIndex(raw) = SequentialBufferIndex(other)
<1>1. \A a, b, c, d \in 0..63 : Kept4(raw, other, i, a, b, c, d)
  BY MergeKept
<1>2. /\ Kept4(raw, other, i, 3, 2, 1, 0) /\ Kept4(raw, other, i, 7, 6, 5, 4)
      /\ Kept4(raw, other, i, 11, 10, 9, 8)
      /\ Kept4(raw, other, i, 23, 22, 21, 20) /\ Kept4(raw, other, i, 29, 28, 27, 26)
      /\ Kept4(raw, other, i, 15, 14, 13, 13)
      /\ Kept4(raw, other, i, 30, 31, 30, 30) /\ Kept4(raw, other, i, 32, 33, 32, 32)
      /\ Kept4(raw, other, i, 40, 41, 40, 40) /\ Kept4(raw, other, i, 46, 47, 46, 46)
  <2>1. /\ 0 \in 0..63 /\ 1 \in 0..63 /\ 2 \in 0..63 /\ 3 \in 0..63 /\ 4 \in 0..63
        /\ 5 \in 0..63 /\ 6 \in 0..63 /\ 7 \in 0..63 /\ 8 \in 0..63 /\ 9 \in 0..63
        /\ 10 \in 0..63 /\ 11 \in 0..63
    OBVIOUS
  <2>2. /\ Kept4(raw, other, i, 3, 2, 1, 0)
        /\ Kept4(raw, other, i, 7, 6, 5, 4)
        /\ Kept4(raw, other, i, 11, 10, 9, 8)
    BY <1>1, <2>1, Zenon
  <2>3. /\ 13 \in 0..63 /\ 14 \in 0..63 /\ 15 \in 0..63 /\ 20 \in 0..63 /\ 21 \in 0..63
        /\ 22 \in 0..63 /\ 23 \in 0..63 /\ 26 \in 0..63 /\ 27 \in 0..63 /\ 28 \in 0..63
        /\ 29 \in 0..63
    OBVIOUS
  <2>4. /\ Kept4(raw, other, i, 23, 22, 21, 20)
        /\ Kept4(raw, other, i, 29, 28, 27, 26)
        /\ Kept4(raw, other, i, 15, 14, 13, 13)
    BY <1>1, <2>3, Zenon
  <2>5. /\ 30 \in 0..63 /\ 31 \in 0..63 /\ 32 \in 0..63 /\ 33 \in 0..63
    OBVIOUS
  <2>6. /\ Kept4(raw, other, i, 30, 31, 30, 30)
        /\ Kept4(raw, other, i, 32, 33, 32, 32)
    BY <1>1, <2>5, Zenon
  <2>7. /\ 40 \in 0..63 /\ 41 \in 0..63 /\ 46 \in 0..63 /\ 47 \in 0..63
    OBVIOUS
  <2>8. /\ Kept4(raw, other, i, 40, 41, 40, 40)
        /\ Kept4(raw, other, i, 46, 47, 46, 46)
    BY <1>1, <2>7, Zenon
  <2> QED
    BY <2>2, <2>4, <2>6, <2>8
<1>3. i \notin 12..15 => Raw(raw, 12) = Raw(other, 12)
  BY DEF Elsewhere
<1>4. /\ i \notin 0..3 => FastCount(raw) = FastCount(other)
      /\ i \notin 4..7 => SlowCount(raw) = SlowCount(other)
      /\ i \notin 8..11 => GpCount(raw) = GpCount(other)
  BY <1>2 DEF Kept4, FastCount, SlowCount, GpCount
<1>5. /\ i \notin 12..15 => AccTime(raw) = AccTime(other)
      /\ i \notin 20..23 => RealTime(raw) = RealTime(other)
      /\ i \notin 26..29 => SerialNb(raw) = SerialNb(other)
  BY <1>2, <1>3 DEF Kept4, AccTime, RealTime, SerialNb
<1>6. /\ i \notin 30..31 => HighVoltage(raw) = HighVoltage(other)
      /\ i \notin 32..33 => DetectorTemp(raw) = DetectorTemp(other)
      /\ i \notin 40..41 => TecVoltage(raw) = TecVoltage(other)
      /\ i \notin 46..47 => SequentialBufferIndex(raw) = SequentialBufferIndex(other)
  BY <1>2 DEF Kept4, HighVoltage, DetectorTemp, TecVoltage, SequentialBufferIndex
<1> QED
  BY <1>4, <1>5, <1>6

\* Nor do those of one byte.
LEMMA BytesKept ==
    ASSUME NEW raw, NEW other, NEW i \in 0..63, Elsewhere(raw, other, i)
    PROVE  /\ i # 34 => BoardTemp(raw) = BoardTemp(other)
           /\ i # 36 => FpgaClock(raw) = FpgaClock(other)
           /\ i # 37 => FirmwareBuild(raw) = FirmwareBuild(other)
           /\ i # 39 => DeviceType(raw) = DeviceType(other)
           /\ i # 24 => /\ FirmwareMajor(raw) = FirmwareMajor(other)
                        /\ FirmwareMinor(raw) = FirmwareMinor(other)
           /\ i # 25 => /\ FpgaMajor(raw) = FpgaMajor(other)
                        /\ FpgaMinor(raw) = FpgaMinor(other)
           /\ i # 35 => /\ IsPresetTimeReached(raw) = IsPresetTimeReached(other)
                        /\ IsEnabled(raw) = IsEnabled(other)
                        /\ IsPresetCountReached(raw) = IsPresetCountReached(other)
                        /\ IsGated(raw) = IsGated(other)
           /\ i # 43 => /\ ListModeLMMO(raw) = ListModeLMMO(other)
                        /\ ListModeSync(raw) = ListModeSync(other)
                        /\ ListModeClock(raw) = ListModeClock(other)
           /\ i # 46 => SequentialBufferRunning(raw) = SequentialBufferRunning(other)
<1>1. \A j \in {24, 25, 34, 35, 36, 37, 39, 43, 46} : i # j => Raw(raw, j) = Raw(other, j)
  BY DEF Elsewhere
<1>2. /\ i # 34 => BoardTemp(raw) = BoardTemp(other)
      /\ i # 37 => FirmwareBuild(raw) = FirmwareBuild(other)
      /\ i # 39 => DeviceType(raw) = DeviceType(other)
  BY <1>1 DEF BoardTemp, FirmwareBuild, DeviceType
<1>3. /\ i # 36 => FpgaClock(raw) = FpgaClock(other)
      /\ i # 46 => SequentialBufferRunning(raw) = SequentialBufferRunning(other)
  BY <1>1 DEF FpgaClock, SequentialBufferRunning, Bit
<1>4. /\ i # 24 => /\ FirmwareMajor(raw) = FirmwareMajor(other)
                   /\ FirmwareMinor(raw) = FirmwareMinor(other)
      /\ i # 25 => /\ FpgaMajor(raw) = FpgaMajor(other)
                   /\ FpgaMinor(raw) = FpgaMinor(other)
  BY <1>1 DEF FirmwareMajor, FirmwareMinor, FpgaMajor, FpgaMinor
<1>5. i # 35 => /\ IsPresetTimeReached(raw) = IsPresetTimeReached(other)
                /\ IsEnabled(raw) = IsEnabled(other)
                /\ IsPresetCountReached(raw) = IsPresetCountReached(other)
                /\ IsGated(raw) = IsGated(other)
  BY <1>1 DEF IsPresetTimeReached, IsEnabled, IsPresetCountReached, IsGated, Bit
<1>6. i # 43 => /\ ListModeLMMO(raw) = ListModeLMMO(other)
                /\ ListModeSync(raw) = ListModeSync(other)
                /\ ListModeClock(raw) = ListModeClock(other)
  BY <1>1 DEF ListModeLMMO, ListModeSync, ListModeClock, Bit
<1> QED
  BY <1>2, <1>3, <1>4, <1>5, <1>6

\* In a byte that several readings share, a bit belongs to one of them.
LEMMA BitsKept ==
    ASSUME NEW raw, NEW other, NEW i \in 0..63, NEW k \in 0..7,
           Single(raw, i, k), Blank(other)
    PROVE  /\ k < 4 => /\ FirmwareMajor(raw) = FirmwareMajor(other)
                       /\ FpgaMajor(raw) = FpgaMajor(other)
           /\ k >= 4 => /\ FirmwareMinor(raw) = FirmwareMinor(other)
                        /\ FpgaMinor(raw) = FpgaMinor(other)
           /\ k # 7 => IsPresetTimeReached(raw) = IsPresetTimeReached(other)
           /\ k # 5 => IsEnabled(raw) = IsEnabled(other)
           /\ k # 4 => IsPresetCountReached(raw) = IsPresetCountReached(other)
           /\ k # 3 => IsGated(raw) = IsGated(other)
           /\ k # 3 => ListModeLMMO(raw) = ListModeLMMO(other)
           /\ k = 3 => /\ ListModeSync(raw) = ListModeSync(other)
                       /\ ListModeClock(raw) = ListModeClock(other)
           /\ k # 1 => SequentialBufferRunning(raw) = SequentialBufferRunning(other)
           /\ k = 1 /\ i = 46 => SequentialBufferIndex(raw) = SequentialBufferIndex(other)
<1> DEFINE p == 2 ^ k
<1>1. Masked(k, p)
  BY Masks
<1> HIDE DEF p
<1>2. \A j \in 0..63 : (Raw(raw, j) = p \/ Raw(raw, j) = 0) /\ Raw(other, j) = 0
  BY DEF Single, Blank, p
<1>3. \A j \in {24, 25, 35, 43, 46} :
          (Raw(raw, j) = p \/ Raw(raw, j) = 0) /\ Raw(other, j) = 0
  BY <1>2
<1>4. /\ 0 \div 16 = 0 /\ 0 % 16 = 0 /\ (0 \div 2) % 2 = 0 /\ (0 \div 4) % 2 = 0
      /\ (0 \div 8) % 2 = 0 /\ (0 \div 16) % 2 = 0 /\ (0 \div 32) % 2 = 0
      /\ (0 \div 128) % 2 = 0 /\ 0 % 4 = 0
  OBVIOUS
<1>5. /\ k < 4 => /\ FirmwareMajor(raw) = FirmwareMajor(other)
                  /\ FpgaMajor(raw) = FpgaMajor(other)
      /\ k >= 4 => /\ FirmwareMinor(raw) = FirmwareMinor(other)
                   /\ FpgaMinor(raw) = FpgaMinor(other)
  BY <1>1, <1>3, <1>4 DEF Masked, FirmwareMajor, FpgaMajor, FirmwareMinor, FpgaMinor
<1>6. /\ k # 7 => IsPresetTimeReached(raw) = IsPresetTimeReached(other)
      /\ k # 5 => IsEnabled(raw) = IsEnabled(other)
  BY <1>1, <1>3, <1>4 DEF Masked, IsPresetTimeReached, IsEnabled, Bit
<1>7. /\ k # 4 => IsPresetCountReached(raw) = IsPresetCountReached(other)
      /\ k # 3 => IsGated(raw) = IsGated(other)
  BY <1>1, <1>3, <1>4 DEF Masked, IsPresetCountReached, IsGated, Bit
<1>8. /\ k # 3 => ListModeLMMO(raw) = ListModeLMMO(other)
      /\ k # 1 => SequentialBufferRunning(raw) = SequentialBufferRunning(other)
  BY <1>1, <1>3, <1>4 DEF Masked, ListModeLMMO, SequentialBufferRunning, Bit
<1>9. k = 3 => /\ ListModeSync(raw) = ListModeSync(other)
               /\ ListModeClock(raw) = ListModeClock(other)
  BY <1>1, <1>3, <1>4 DEF Masked, ListModeSync, ListModeClock, Bit
<1>10. k = 1 /\ i = 46 => SequentialBufferIndex(raw) = SequentialBufferIndex(other)
  <2>1. SUFFICES ASSUME k = 1, i = 46
                 PROVE  SequentialBufferIndex(raw) = SequentialBufferIndex(other)
    OBVIOUS
  <2>2. Raw(raw, 46) = p /\ Raw(raw, 47) = 0 /\ Raw(other, 46) = 0 /\ Raw(other, 47) = 0
    BY <2>1 DEF Single, Blank, p
  <2>3. Two(raw, 46, 47) /\ Two(other, 46, 47)
    BY <1>1, <2>2, TwoMerged DEF Masked
  <2>4. Merge(raw, <<46, 47>>) = 256 * p /\ Merge(other, <<46, 47>>) = 0
    BY <1>1, <2>2, <2>3 DEF Two, Masked
  <2>5. 0 % 512 = 0
    OBVIOUS
  <2> QED
    BY <1>1, <2>1, <2>4, <2>5 DEF Masked, SequentialBufferIndex
<1> QED
  BY <1>5, <1>6, <1>7, <1>8, <1>9, <1>10

\* The owner of a bit, place by place.
LEMMA Owners ==
    ASSUME NEW i \in 0..63, NEW k \in 0..7
    PROVE  /\ i \in 30..31 => Owner(i, k) = "hv"
           /\ i \in 32..33 => Owner(i, k) = "chip"
           /\ i \in 40..41 => Owner(i, k) = "tec"
           /\ i = 34 => Owner(i, k) = "board"
           /\ i = 36 => Owner(i, k) = "clock"
           /\ i = 37 => Owner(i, k) = "build"
           /\ i = 39 => Owner(i, k) = "device"
           /\ i = 24 => Owner(i, k) = IF k < 4 THEN "minor" ELSE "firmware"
           /\ i = 25 => Owner(i, k) = IF k < 4 THEN "fpgaminor" ELSE "fpga"
           /\ i = 35 => Owner(i, k) = CASE k = 7 -> "timereached" [] k = 5 -> "enabled"
                                        [] k = 4 -> "countreached" [] OTHER -> "gated"
           /\ i = 43 => Owner(i, k) = IF k = 3 THEN "lmmo" ELSE "list"
           /\ i = 46 => Owner(i, k) = IF k = 1 THEN "running" ELSE "index"
<1>1. i \in 30..31 => Owner(i, k) = "hv"
  BY DEF Owner
<1>2. i \in 32..33 => Owner(i, k) = "chip"
  BY DEF Owner
<1>3. i \in 40..41 => Owner(i, k) = "tec"
  BY DEF Owner
<1>4. i = 34 => Owner(i, k) = "board"
  BY DEF Owner
<1>5. i = 36 => Owner(i, k) = "clock"
  BY DEF Owner
<1>6. i = 37 => Owner(i, k) = "build"
  BY DEF Owner
<1>7. i = 39 => Owner(i, k) = "device"
  BY DEF Owner
<1>8. i = 24 => Owner(i, k) = IF k < 4 THEN "minor" ELSE "firmware"
  BY DEF Owner
<1>9. i = 25 => Owner(i, k) = IF k < 4 THEN "fpgaminor" ELSE "fpga"
  BY DEF Owner
<1>10. i = 35 => Owner(i, k) = CASE k = 7 -> "timereached" [] k = 5 -> "enabled"
                                 [] k = 4 -> "countreached" [] OTHER -> "gated"
  BY DEF Owner
<1>11. i = 43 => Owner(i, k) = IF k = 3 THEN "lmmo" ELSE "list"
  BY DEF Owner
<1>12. i = 46 => Owner(i, k) = IF k = 1 THEN "running" ELSE "index"
  BY DEF Owner
<1> QED
  BY <1>1, <1>2, <1>3, <1>4, <1>5, <1>6, <1>7, <1>8, <1>9, <1>10, <1>11, <1>12

\* All readings but the bit's owner are those of the status without the bit.
LEMMA OwnerOnly ==
    ASSUME NEW raw, NEW other, NEW i \in 0..63, NEW k \in 0..7,
           Single(raw, i, k), Blank(other),
           NEW f \in DOMAIN Readings(raw), f # Owner(i, k)
    PROVE  Readings(raw)[f] = Readings(other)[f]
<1> DEFINE now == Readings(raw)
           before == Readings(other)
           same(name) == now[name] = before[name]
<1>1. Elsewhere(raw, other, i)
  BY DEF Elsewhere, Single, Blank
<1>2. /\ "fast" # Owner(i, k) => FastCount(raw) = FastCount(other)
      /\ "slow" # Owner(i, k) => SlowCount(raw) = SlowCount(other)
      /\ "gp" # Owner(i, k) => GpCount(raw) = GpCount(other)
      /\ "acc" # Owner(i, k) => AccTime(raw) = AccTime(other)
      /\ "real" # Owner(i, k) => RealTime(raw) = RealTime(other)
      /\ "serial" # Owner(i, k) => SerialNb(raw) = SerialNb(other)
  BY <1>1, MergesKept DEF Owner
<1>3. /\ "hv" # Owner(i, k) => HighVoltage(raw) = HighVoltage(other)
      /\ "chip" # Owner(i, k) => DetectorTemp(raw) = DetectorTemp(other)
      /\ "tec" # Owner(i, k) => TecVoltage(raw) = TecVoltage(other)
  BY <1>1, MergesKept, Owners
<1>4. "index" # Owner(i, k) => SequentialBufferIndex(raw) = SequentialBufferIndex(other)
  <2>1. CASE i = 46 /\ k = 1
    BY <2>1, BitsKept
  <2>2. CASE i \notin 46..47
    BY <1>1, <2>2, MergesKept
  <2>3. CASE i = 47 \/ (i = 46 /\ k # 1)
    BY <2>3 DEF Owner
  <2> QED
    BY <2>1, <2>2, <2>3
<1>5. /\ "board" # Owner(i, k) => BoardTemp(raw) = BoardTemp(other)
      /\ "clock" # Owner(i, k) => FpgaClock(raw) = FpgaClock(other)
      /\ "build" # Owner(i, k) => FirmwareBuild(raw) = FirmwareBuild(other)
      /\ "device" # Owner(i, k) => DeviceType(raw) = DeviceType(other)
  BY <1>1, BytesKept, Owners
<1>6. /\ "firmware" # Owner(i, k) => FirmwareMajor(raw) = FirmwareMajor(other)
      /\ "minor" # Owner(i, k) => FirmwareMinor(raw) = FirmwareMinor(other)
  BY <1>1, BytesKept, BitsKept, Owners
<1>7. /\ "fpga" # Owner(i, k) => FpgaMajor(raw) = FpgaMajor(other)
      /\ "fpgaminor" # Owner(i, k) => FpgaMinor(raw) = FpgaMinor(other)
  BY <1>1, BytesKept, BitsKept, Owners
<1>8. /\ "timereached" # Owner(i, k) => IsPresetTimeReached(raw) = IsPresetTimeReached(other)
      /\ "enabled" # Owner(i, k) => IsEnabled(raw) = IsEnabled(other)
  BY <1>1, BytesKept, BitsKept, Owners
<1>9. /\ "countreached" # Owner(i, k) => IsPresetCountReached(raw) = IsPresetCountReached(other)
      /\ "gated" # Owner(i, k) => IsGated(raw) = IsGated(other)
  BY <1>1, BytesKept, BitsKept, Owners
<1>10. /\ "lmmo" # Owner(i, k) => ListModeLMMO(raw) = ListModeLMMO(other)
       /\ "list" # Owner(i, k) => /\ ListModeSync(raw) = ListModeSync(other)
                                  /\ ListModeClock(raw) = ListModeClock(other)
  BY <1>1, BytesKept, BitsKept, Owners
<1>11. "running" # Owner(i, k) => SequentialBufferRunning(raw) = SequentialBufferRunning(other)
  BY <1>1, BytesKept, BitsKept, Owners
<1>12. f \in {"fast", "slow", "gp", "acc", "real", "serial", "firmware", "minor", "build",
              "fpga", "fpgaminor", "hv", "chip", "board", "tec", "timereached", "enabled",
              "countreached", "gated", "clock", "device", "lmmo", "list", "running", "index"}
  BY DEF Readings
<1>13. CASE f \in {"fast", "slow", "gp", "acc", "real", "serial"}
  BY <1>2, <1>13 DEF Readings
<1>14. CASE f \in {"hv", "chip", "tec", "index"}
  BY <1>3, <1>4, <1>14 DEF Readings
<1>15. CASE f \in {"board", "clock", "build", "device"}
  BY <1>5, <1>15 DEF Readings
<1>16. CASE f \in {"firmware", "minor", "fpga", "fpgaminor"}
  BY <1>6, <1>7, <1>16 DEF Readings
<1>17. CASE f \in {"timereached", "enabled", "countreached", "gated"}
  BY <1>8, <1>9, <1>17 DEF Readings
<1>18. CASE f \in {"lmmo", "list", "running"}
  BY <1>10, <1>11, <1>18 DEF Readings
<1> QED
  BY <1>12, <1>13, <1>14, <1>15, <1>16, <1>17, <1>18

\* The status of the detector that nothing was asked of yet.
LEMMA BlankStatus ==
    ASSUME NEW d, d = [counts |-> <<0, 0>>, ms |-> 0, preset |-> 0, enabled |-> FALSE]
    PROVE  /\ Blank(Status(d, 0)) /\ Len(Status(d, 0)) = 64
           /\ Status(d, 0) = [j \in 1..64 |-> 0]
<1> DEFINE n == 64
           zeros == [j \in 1..n |-> 0]
<1>1. /\ d \in Detector /\ 0 \in Less(d)
      /\ d.counts = <<0, 0>> /\ d.ms = 0 /\ d.preset = 0 /\ d.enabled = FALSE
  <2>1. 0 \in Words
    BY WordRange
  <2> QED
    BY <2>1 DEF Detector, Less
<1>2. \A k \in 0..3 : Octet(0, k) = 0
  <2>1. /\ Octet(0, 0) = 0 /\ Octet(0, 1) = 0 /\ Octet(0, 2) = 0 /\ Octet(0, 3) = 0
    <3>1. Octet(0, 0) = 0 % 256
      BY LowOctet
    <3>2. Octet(0, 1) = (0 \div 256) % 256
      BY HighOctets
    <3>3. Octet(0, 2) = (0 \div 65536) % 256
      BY HighOctets
    <3>4. Octet(0, 3) = (0 \div 16777216) % 256
      BY HighOctets
    <3> QED
      BY <3>1, <3>2, <3>3, <3>4
  <2>2. \A k \in 0..3 : k = 0 \/ k = 1 \/ k = 2 \/ k = 3
    OBVIOUS
  <2> QED
    BY <2>1, <2>2
<1>10. \A k \in 0..3 : CountOctet(d.counts, k) = 0
  <2>1. d.counts \in Words \X Words /\ d.counts[1] = 0 /\ d.counts[2] = 0
    BY <1>1 DEF Detector
  <2>2. Octet(0, 0) = 0 /\ Octet(0, 1) = 0
    BY <1>2
  <2>3. \A k \in 0..3 : k = 0 \/ k = 1 \/ k = 2 \/ k = 3
    OBVIOUS
  <2> QED
    BY <2>1, <2>2, <2>3, CountOctets
<1>3. 0 % 100 = 0 /\ 0 \div 100 = 0
  OBVIOUS
<1> DEFINE byte(i) ==
            CASE i \in 0..3 -> CountOctet(d.counts, i)
              [] i \in 4..7 -> CountOctet(d.counts, i - 4)
              [] i = 12 -> (d.ms % 100) - 0
              [] i \in 13..15 -> Octet(d.ms \div 100, i - 13)
              [] i \in 20..23 -> Octet(d.ms \div 100, i - 20)
              [] i = 35 -> (IF d.preset > 0 /\ d.ms <= d.preset /\ ~d.enabled THEN 128 ELSE 0)
                           + (IF d.enabled THEN 32 ELSE 0)
              [] OTHER -> 0
<1>4. Status(d, 0) = [i \in 1..64 |-> byte(i - 1)]
  BY DEF Status, STATUS_SIZE
<1>5. \A i \in 0..63 : byte(i) = 0
  <2>1. SUFFICES ASSUME NEW i \in 0..63 PROVE byte(i) = 0
    OBVIOUS
  <2>2. CASE i \in 4..7
    <3>1. i - 4 \in 0..3
      BY <2>2
    <3> QED
      BY <1>10, <2>2, <3>1
  <2>3. CASE i \in 13..15
    <3>1. i - 13 \in 0..3
      BY <2>3
    <3> QED
      BY <1>1, <1>2, <1>3, <2>3, <3>1
  <2>4. CASE i \in 20..23
    <3>1. i - 20 \in 0..3
      BY <2>4
    <3> QED
      BY <1>1, <1>2, <1>3, <2>4, <3>1
  <2>5. CASE i \in 0..3
    BY <1>10, <2>5
  <2>6. CASE i \notin (0..3) \cup (4..7) \cup (13..15) \cup (20..23)
    BY <1>1, <1>3, <2>6
  <2> QED
    BY <2>2, <2>3, <2>4, <2>5, <2>6
<1> HIDE DEF byte
<1>6. \A j \in 1..64 : j - 1 \in 0..63
  OBVIOUS
<1>7. Status(d, 0) = [j \in 1..64 |-> 0]
  BY <1>4, <1>5, <1>6
<1>8. Blank(Status(d, 0))
  <2>1. \A j \in 0..63 : j + 1 \in 1..64
    OBVIOUS
  <2> QED
    BY <1>7, <2>1 DEF Blank, Raw
<1>9. Len(Status(d, 0)) = 64
  BY <1>1, StatusBytes
<1> QED
  BY <1>7, <1>8, <1>9

------------------------------------------------------------------------------
(* Requests: what is asked, at which rate, and what the receiver reads.     *)

\* The request of a test carries the period of the rate it was asked for at.
Rated ==
    request.test # <<>> =>
        \E clock \in {20, 80}, rate \in Rates :
            /\ request.test = <<clock, rate>>
            /\ request.bytes = RequestWords("COMMTEST_STREAM",
                                    <<16, 8191, 1, Period(clock, rate) % Word16>>)

\* Ask and StartCommtest make it so.
LEMMA RatedRequests == Spec => []Rated
<1>1. Init => Rated
  BY DEF Init, NoRequest, Rated
<1>2. Rated /\ [Next]_vars => Rated'
  <2> SUFFICES ASSUME Rated, [Next]_vars PROVE Rated'
    OBVIOUS
  <2>1. CASE request' = NoRequest
    BY <2>1 DEF NoRequest, Rated
  <2>2. CASE UNCHANGED request
    BY <2>2 DEF Rated
  <2>3. ASSUME NEW call \in Calls, Ask(call[1], call[2]) PROVE Rated'
    BY <2>3 DEF Ask, Makes, Rated
  <2>4. ASSUME NEW clock \in {20, 80}, NEW rate \in Rates, StartCommtest(clock, rate)
        PROVE  Rated'
    BY <2>4 DEF StartCommtest, Makes, Rated
  <2>5. ASSUME NEW d \in Detectors, NEW status \in BOOLEAN, NEW len \in Lengths,
               NEW value \in Values, AnswerSpectrum(d, status, len, value)
        PROVE  Rated'
    BY <2>2, <2>5 DEF AnswerSpectrum
  <2>6. ASSUME NEW d \in Detectors, NEW less \in Less(d), AnswerStatus(d, less)
        PROVE  Rated'
    BY <2>1, <2>6 DEF AnswerStatus, NoOther
  <2>7. ASSUME NEW d, NEW bytes, NEW how, NEW place, Arrive(d, bytes, how, place)
        PROVE  Rated'
    BY <2>1, <2>7 DEF Arrive, NoOther
  <2>8. ASSUME NEW i \in 0..STATUS_SIZE - 1, NEW k \in 0..7, AnswerOther(i, k) PROVE Rated'
    BY <2>1, <2>8 DEF AnswerOther, NoOther
  <2>9. CASE UNCHANGED vars
    BY <2>2, <2>9 DEF vars
  <2> QED
    BY <2>3, <2>4, <2>5, <2>6, <2>7, <2>8, <2>9
       DEF Next, Done, ArriveWhole, ArriveDamaged, ArriveOther
<1> QED
  BY <1>1, <1>2, PTL DEF Spec

\* StartCommTest... computes a period in ticks of the detector's clock; the request it
\* sends asks for the rate that was meant, at every rate whose period has 16 bits.
THEOREM RateIsKept == Spec => []RateKept
<1>1. Rated => RateKept
  <2> SUFFICES ASSUME Rated, request.test # <<>> PROVE RateKept
    BY DEF RateKept
  <2>1. PICK clock \in {20, 80}, rate \in Rates :
            /\ request.test = <<clock, rate>>
            /\ request.bytes = RequestWords("COMMTEST_STREAM",
                                    <<16, 8191, 1, Period(clock, rate) % Word16>>)
    BY DEF Rated
  <2> DEFINE ticks == clock * 1000000
             period == Period(clock, rate)
  <2>2. rate \in Nat \ {0}
    BY RatesAssumption
  <2>3. SUFFICES ASSUME ticks \div Word16 < rate, rate <= ticks \div 8
                 PROVE  LET read == mergeBytes(At(request.bytes, DATA + 6),
                                               At(request.bytes, DATA + 7))
                        IN  read * rate <= ticks /\ ticks < (read + 1) * rate
    BY <2>1 DEF RateKept
  <2>4. period \in Words /\ period * rate <= ticks /\ ticks < (period + 1) * rate
    BY <2>2, <2>3, PeriodLemma
  <2>5. mergeBytes(At(request.bytes, DATA + 6), At(request.bytes, DATA + 7)) = period
    BY <2>1, <2>4, PeriodRead
  <2> QED
    BY <2>4, <2>5
<1> QED
  BY <1>1, RatedRequests, PTL

\* A request is made of a name and up to four arguments.
Asked ==
    request # NoRequest =>
        \E name \in DOMAIN RequestIds, words \in Seq(Words) :
            /\ Len(words) <= 4
            /\ request.call = <<name, words>> /\ request.bytes = RequestWords(name, words)

\* Ask and StartCommtest make it so.
LEMMA AskedRequests == Spec => []Asked
<1>1. Init => Asked
  BY DEF Init, Asked
<1>2. Asked /\ [Next]_vars => Asked'
  <2> SUFFICES ASSUME Asked, [Next]_vars PROVE Asked'
    OBVIOUS
  <2>1. CASE request' = NoRequest
    BY <2>1 DEF Asked
  <2>2. CASE UNCHANGED request
    BY <2>2 DEF Asked
  <2>3. ASSUME NEW name \in DOMAIN RequestIds, NEW words \in Seq(Words), Len(words) <= 4,
               NEW test, Makes(name, words, test)
        PROVE  Asked'
    BY <2>3 DEF Makes, Asked
  <2>4. ASSUME NEW call \in Calls, Ask(call[1], call[2]) PROVE Asked'
    BY <2>3, <2>4, CallsAssumption DEF Ask, Words
  <2>5. ASSUME NEW clock \in {20, 80}, NEW rate \in Rates, StartCommtest(clock, rate)
        PROVE  Asked'
    <3> DEFINE period == Period(clock, rate)
               words == <<16, 8191, 1, period % Word16>>
    <3>1. period \in Nat
      <4>1. rate \in Nat \ {0}
        BY RatesAssumption
      <4>2. clock * 1000000 \in Nat
        OBVIOUS
      <4>3. (clock * 1000000) \div rate \in Nat
        BY <4>1, <4>2, Quotient
      <4> QED
        BY <4>3 DEF Period
    <3> HIDE DEF period
    <3>2. period % Word16 \in Words
      <4>1. period % Word16 \in Nat /\ period % Word16 < 65536
        BY <3>1, Word16Arithmetic DEF Word16
      <4> QED
        BY <4>1, WordRange
    <3>3. 16 \in Words /\ 8191 \in Words /\ 1 \in Words
      BY TestWords
    <3>4. words \in Seq(Words) /\ Len(words) <= 4
      BY <3>2, <3>3
    <3>5. "COMMTEST_STREAM" \in DOMAIN RequestIds
      BY DEF RequestIds
    <3>6. Makes("COMMTEST_STREAM", words, <<clock, rate>>)
      BY <2>5 DEF StartCommtest, period
    <3> HIDE DEF words
    <3> QED
      BY <2>3, <3>4, <3>5, <3>6
  <2>6. ASSUME NEW d \in Detectors, NEW status \in BOOLEAN, NEW len \in Lengths,
               NEW value \in Values, AnswerSpectrum(d, status, len, value)
        PROVE  Asked'
    BY <2>2, <2>6 DEF AnswerSpectrum
  <2>7. ASSUME NEW d \in Detectors, NEW less \in Less(d), AnswerStatus(d, less)
        PROVE  Asked'
    BY <2>1, <2>7 DEF AnswerStatus, NoOther
  <2>8. ASSUME NEW d, NEW bytes, NEW how, NEW place, Arrive(d, bytes, how, place)
        PROVE  Asked'
    BY <2>1, <2>8 DEF Arrive, NoOther
  <2>9. ASSUME NEW i \in 0..STATUS_SIZE - 1, NEW k \in 0..7, AnswerOther(i, k) PROVE Asked'
    BY <2>1, <2>9 DEF AnswerOther, NoOther
  <2>10. CASE UNCHANGED vars
    BY <2>2, <2>10 DEF vars
  <2> QED
    BY <2>4, <2>5, <2>6, <2>7, <2>8, <2>9, <2>10
       DEF Next, Done, ArriveWhole, ArriveDamaged, ArriveOther
<1> QED
  BY <1>1, <1>2, PTL DEF Spec

\* Every request of the program with any 16-bit arguments has the length that LEN
\* says, a valid checksum, the type of its name and of no other, and its arguments
\* at their places, and fits the USB endpoint.
THEOREM RequestsAreRead == Spec => []RequestReadsBack
<1>1. Asked => RequestReadsBack
  <2> SUFFICES ASSUME Asked, request # NoRequest PROVE RequestReadsBack
    BY DEF RequestReadsBack
  <2>1. PICK name \in DOMAIN RequestIds, words \in Seq(Words) :
            /\ Len(words) <= 4
            /\ request.call = <<name, words>> /\ request.bytes = RequestWords(name, words)
    BY DEF Asked
  <2>2. Readable(request.bytes, name, words)
    BY <2>1, RequestRead
  <2>3. request.call[1] = name /\ request.call[2] = words
    BY <2>1
  <2> QED
    BY <2>2, <2>3 DEF Readable, RequestReadsBack
<1> QED
  BY <1>1, AskedRequests, PTL

------------------------------------------------------------------------------
(* Spectra are read as they were sent.                                      *)

\* The spectrum that the simulator packs into three bytes per channel is what the
\* caller unpacks, modulo 2^24, for every length that has a PID2; for no other is a
\* spectrum read.
THEOREM SpectraAreRead == Spec => []SpectrumReadsBack
<1>1. Init => SpectrumReadsBack
  BY DEF Init, SpectrumReadsBack
<1>2. SpectrumReadsBack /\ [Next]_vars => SpectrumReadsBack'
  <2> SUFFICES ASSUME SpectrumReadsBack, [Next]_vars PROVE SpectrumReadsBack'
    OBVIOUS
  <2>1. CASE channels' = NoChannels
    BY <2>1 DEF SpectrumReadsBack
  <2>2. CASE UNCHANGED channels
    BY <2>2 DEF SpectrumReadsBack
  <2>3. ASSUME NEW d \in Detectors, NEW status \in BOOLEAN, NEW len \in Lengths,
               NEW value \in Values, AnswerSpectrum(d, status, len, value)
        PROVE  SpectrumReadsBack'
    <3>1. PICK packet : Answered(packet, d, status, len, value)
      BY <2>3, SpectrumAnswer
    <3>2. CASE channels' # NoChannels
      <4>1. Bins(DataOf(packet), len) = [i \in 0..len - 1 |-> (value + i) % 2 ^ 24]
        BY <3>1 DEF Answered, Spectrum
      <4>2. /\ channels'.len = len /\ channels'.value = value /\ len \in Speclens
            /\ channels'.read = Bins(DataOf(packet), len)
        BY <3>1, <3>2 DEF Answered
      <4> QED
        BY <4>1, <4>2 DEF SpectrumReadsBack
    <3> QED
      BY <2>1, <3>2
  <2>4. ASSUME NEW name, NEW words, NEW test, Makes(name, words, test)
        PROVE  SpectrumReadsBack'
    BY <2>2, <2>4 DEF Makes
  <2>5. ASSUME NEW d \in Detectors, NEW less \in Less(d), AnswerStatus(d, less)
        PROVE  SpectrumReadsBack'
    BY <2>1, <2>5 DEF AnswerStatus, NoOther
  <2>6. ASSUME NEW d, NEW bytes, NEW how, NEW place, Arrive(d, bytes, how, place)
        PROVE  SpectrumReadsBack'
    BY <2>1, <2>6 DEF Arrive, NoOther
  <2>7. ASSUME NEW i \in 0..STATUS_SIZE - 1, NEW k \in 0..7, AnswerOther(i, k)
        PROVE  SpectrumReadsBack'
    BY <2>1, <2>7 DEF AnswerOther, NoOther
  <2>8. ASSUME NEW call \in Calls, Ask(call[1], call[2]) PROVE SpectrumReadsBack'
    BY <2>4, <2>8 DEF Ask
  <2>9. ASSUME NEW clock \in {20, 80}, NEW rate \in Rates, StartCommtest(clock, rate)
        PROVE  SpectrumReadsBack'
    BY <2>4, <2>9 DEF StartCommtest
  <2>10. CASE UNCHANGED vars
    BY <2>2, <2>10 DEF vars
  <2> QED
    BY <2>3, <2>5, <2>6, <2>7, <2>8, <2>9, <2>10
       DEF Next, Done, ArriveWhole, ArriveDamaged, ArriveOther
<1> QED
  BY <1>1, <1>2, PTL DEF Spec

------------------------------------------------------------------------------
(* The input buffer: what comes damaged.                                    *)

\* A buffer starts with its size, and keeps it.
LEMMA BufferInvariant == Spec => []Buffered
<1>1. Init => Buffered
  <2> SUFFICES ASSUME Init PROVE Buffered
    OBVIOUS
  <2> DEFINE n == BufferSize
             zeros == [i \in 1..n |-> 0]
  <2>1. n \in Nat
    BY BufferLong
  <2>2. buffer = zeros
    BY DEF Init
  <2> HIDE DEF n
  <2>3. 0 \in Byte
    BY DEF Byte
  <2>4. zeros \in Seq(Byte) /\ Len(zeros) = n
    BY <2>1, <2>3
  <2> QED
    BY <2>2, <2>4 DEF Buffered, n
<1>2. Buffered /\ [Next]_vars => Buffered'
  <2> SUFFICES ASSUME Buffered, [Next]_vars PROVE Buffered'
    OBVIOUS
  <2>1. CASE UNCHANGED buffer
    BY <2>1 DEF Buffered
  <2>2. ASSUME NEW d \in Detectors, ArriveWhole(d) PROVE Buffered'
    BY <2>2, WholeReceived
  <2>3. ASSUME NEW d \in Detectors, NEW place \in 0..71, NEW damage \in Damages,
               ArriveDamaged(d, place, damage)
        PROVE  Buffered'
    BY <2>3, DamagedReceived
  <2>4. ASSUME NEW bytes \in Others, ArriveOther(bytes) PROVE Buffered'
    <3>1. bytes \in Seq(Byte) /\ Len(bytes) <= BufferSize
      BY OthersAssumption
    <3>2. Put(buffer', buffer, bytes)
      BY <2>4, <3>1, Arriving DEF ArriveOther
    <3> QED
      BY <3>2 DEF Put, Buffered
  <2>5. ASSUME NEW d \in Detectors, NEW less \in Less(d), AnswerStatus(d, less)
        PROVE  Buffered'
    BY <2>1, <2>5 DEF AnswerStatus
  <2>6. ASSUME NEW d \in Detectors, NEW status \in BOOLEAN, NEW len \in Lengths,
               NEW value \in Values, AnswerSpectrum(d, status, len, value)
        PROVE  Buffered'
    BY <2>1, <2>6 DEF AnswerSpectrum
  <2>7. ASSUME NEW i \in 0..STATUS_SIZE - 1, NEW k \in 0..7, AnswerOther(i, k) PROVE Buffered'
    BY <2>1, <2>7 DEF AnswerOther
  <2>8. ASSUME NEW call \in Calls, Ask(call[1], call[2]) PROVE Buffered'
    BY <2>1, <2>8 DEF Ask, Makes
  <2>9. ASSUME NEW clock \in {20, 80}, NEW rate \in Rates, StartCommtest(clock, rate)
        PROVE  Buffered'
    BY <2>1, <2>9 DEF StartCommtest, Makes
  <2>10. CASE UNCHANGED vars
    BY <2>1, <2>10 DEF vars
  <2> QED
    BY <2>2, <2>3, <2>4, <2>5, <2>6, <2>7, <2>8, <2>9, <2>10 DEF Next, Done
<1> QED
  BY <1>1, <1>2, PTL DEF Spec

\* validateChecksum throws for every packet of which one byte, whatever it became, was
\* changed on its way, but for LEN: of sums with one other byte, no two are the same.
THEOREM DamageIsNoticed == Spec => []DamageNoticed
<1>1. Init => DamageNoticed
  BY DEF Init, NoCame, DamageNoticed
<1>2. DamageNoticed /\ Buffered /\ [Next]_vars => DamageNoticed'
  <2> SUFFICES ASSUME DamageNoticed, Buffered, [Next]_vars PROVE DamageNoticed'
    OBVIOUS
  <2>1. CASE came'.how # "damaged"
    BY <2>1 DEF DamageNoticed
  <2>2. CASE UNCHANGED <<response, came>>
    BY <2>2 DEF DamageNoticed
  <2>3. ASSUME NEW d \in Detectors, NEW place \in 0..71, NEW damage \in Damages,
               ArriveDamaged(d, place, damage)
        PROVE  DamageNoticed'
    BY <2>3, DamagedReceived DEF DamageNoticed
  <2>4. ASSUME NEW d \in Detectors, ArriveWhole(d) PROVE DamageNoticed'
    BY <2>1, <2>4 DEF ArriveWhole, Arrive
  <2>5. ASSUME NEW bytes \in Others, ArriveOther(bytes) PROVE DamageNoticed'
    BY <2>1, <2>5 DEF ArriveOther, Arrive
  <2>6. ASSUME NEW d \in Detectors, NEW less \in Less(d), AnswerStatus(d, less)
        PROVE  DamageNoticed'
    BY <2>1, <2>6 DEF AnswerStatus
  <2>7. ASSUME NEW d \in Detectors, NEW status \in BOOLEAN, NEW len \in Lengths,
               NEW value \in Values, AnswerSpectrum(d, status, len, value)
        PROVE  DamageNoticed'
    <3>1. came'.how \in {"unknown", "direct", "spectrum"}
      BY <2>7 DEF AnswerSpectrum
    <3> QED
      BY <2>1, <3>1
  <2>8. ASSUME NEW i \in 0..STATUS_SIZE - 1, NEW k \in 0..7, AnswerOther(i, k)
        PROVE  DamageNoticed'
    BY <2>1, <2>8 DEF AnswerOther
  <2>9. ASSUME NEW call \in Calls, Ask(call[1], call[2]) PROVE DamageNoticed'
    BY <2>2, <2>9 DEF Ask, Makes
  <2>10. ASSUME NEW clock \in {20, 80}, NEW rate \in Rates, StartCommtest(clock, rate)
         PROVE  DamageNoticed'
    BY <2>2, <2>10 DEF StartCommtest, Makes
  <2>11. CASE UNCHANGED vars
    BY <2>2, <2>11 DEF vars
  <2> QED
    BY <2>3, <2>4, <2>5, <2>6, <2>7, <2>8, <2>9, <2>10, <2>11 DEF Next, Done
<1> QED
  BY <1>1, <1>2, BufferInvariant, PTL DEF Spec

------------------------------------------------------------------------------
(* Statuses are read as they were sent.                                     *)

\* What arrived tells the status of the detector that the caller asked, exactly or
\* with the millisecond that a floating-point conversion lost.
ArrivedTold ==
    Arrived => /\ detector \in Detectors
               /\ \E less \in Less(detector) : Tells(response, detector, less)

\* By itself, behind a spectrum, or through the USB handler's buffer.
LEMMA StatusArrives ==
    ASSUME NEW d \in Detectors, NEW less \in Less(d), AnswerStatus(d, less)
    PROVE  ArrivedTold'
<1>1. /\ detector' = d
      /\ response' = ResizedPacket(STATUS_RESPONSE[1], STATUS_RESPONSE[2], Status(d, less))
  BY DEF AnswerStatus
<1>2. Status(d, less) \in Seq(Byte) /\ Len(Status(d, less)) = 64
  BY StatusBytes, Chosen
<1>3. Starts(Status(d, less), Status(d, less))
  BY <1>2 DEF Starts
<1>4. Tells(response', d, less)
  BY <1>1, <1>3, DirectTells
<1> QED
  BY <1>1, <1>4 DEF ArrivedTold

LEMMA SpectrumArrives ==
    ASSUME NEW d \in Detectors, NEW status \in BOOLEAN, NEW len \in Lengths,
           NEW value \in Values, AnswerSpectrum(d, status, len, value)
    PROVE  ArrivedTold'
<1> DEFINE raw == Status(d, 0)
<1>1. SUFFICES ASSUME came'.how = "direct" PROVE ArrivedTold'
  <2>1. PICK packet : Answered(packet, d, status, len, value)
    BY SpectrumAnswer
  <2>2. came'.how \in {"unknown", "direct", "spectrum"}
    BY <2>1 DEF Answered
  <2>3. Arrived' => came'.how = "direct"
    BY <2>2 DEF Arrived
  <2> QED
    BY <2>3 DEF ArrivedTold
<1>2. PICK packet : Answered(packet, d, status, len, value)
  BY SpectrumAnswer
<1>3. /\ Spectrum(packet, len, value, raw)
      /\ response' = ResizedPacket(STATUS_RESPONSE[1], STATUS_RESPONSE[2],
                        SubSeq(DataOf(packet), 3 * len + 1, 3 * len + STATUS_SIZE))
  BY <1>1, <1>2 DEF Answered
<1>4. 0 \in Less(d) /\ detector' = d
  BY DEF Less, AnswerSpectrum
<1>5. raw \in Seq(Byte) /\ Len(raw) = 64
  BY <1>4, StatusBytes, Chosen
<1> HIDE DEF raw
<1> DEFINE n == 3 * len
           data == SubSeq(DataOf(packet), n + 1, n + 64)
<1>6. n \in Nat
  BY ValuesAssumption
<1>7. /\ packet \in Seq(Byte) /\ n + 72 <= Len(packet)
      /\ \A i \in 1..64 : packet[n + i + 6] = raw[i]
  <2>1. /\ packet \in Seq(Byte) /\ Len(packet) >= n + Len(raw) + 8
        /\ \A i \in 1..Len(raw) : packet[n + i + 6] = raw[i]
    BY <1>3 DEF Spectrum
  <2> HIDE DEF n
  <2> QED
    BY <1>5, <1>6, <2>1
<1>8. data \in Seq(Byte) /\ Len(data) = 64 /\ \A i \in 1..64 : data[i] = packet[n + i + 6]
  <2> DEFINE m == 64
  <2> HIDE DEF n
  <2>1. m \in Nat /\ n + m + 6 <= Len(packet)
    <3> DEFINE l == Len(packet)
    <3>1. l \in Nat /\ n + 72 <= l
      BY <1>7
    <3> HIDE DEF l
    <3>2. n + 64 + 6 <= l
      BY <1>6, <3>1
    <3> QED
      BY <3>2 DEF l
  <2> HIDE DEF m
  <2>2. LET part == SubSeq(DataOf(packet), n + 1, n + m)
        IN  /\ part \in Seq(Byte) /\ Len(part) = m
            /\ \A i \in 1..m : part[i] = packet[n + i + 6]
    BY <1>6, <1>7, <2>1, DataPart
  <2> QED
    BY <2>2 DEF m
<1>9. Tells(response', d, 0)
  <2>1. response' = ResizedPacket(STATUS_RESPONSE[1], STATUS_RESPONSE[2], data)
    BY <1>3 DEF n, STATUS_SIZE
  <2> HIDE DEF data
  <2>2. data \in Seq(Byte) /\ 64 <= Len(data)
    BY <1>8
  <2> HIDE DEF n
  <2>3. \A i \in 1..64 : data[i] = raw[i]
    BY <1>7, <1>8
  <2>4. Starts(data, Status(d, 0))
    BY <2>2, <2>3 DEF raw, Starts
  <2> QED
    BY <1>4, <2>1, <2>4, DirectTells
<1> QED
  BY <1>4, <1>9 DEF ArrivedTold

LEMMA WholeArrives ==
    ASSUME Buffered, NEW d \in Detectors, ArriveWhole(d)
    PROVE  ArrivedTold'
<1>1. response' = Answer(d)
  BY WholeReceived
<1>2. detector' = d /\ 0 \in Less(d)
  BY DEF ArriveWhole, Arrive, Less
<1>3. Tells(Answer(d), d, 0)
  <2>1. /\ Answer(d) \in Seq(Byte) /\ Len(Answer(d)) = 72
        /\ \A i \in 0..63 : Answer(d)[i + 7] = Raw(Status(d, 0), i)
    BY AnswerShape
  <2>2. 72 <= Len(Answer(d))
    BY <2>1
  <2> QED
    BY <2>1, <2>2 DEF Tells
<1> QED
  BY <1>1, <1>2, <1>3 DEF ArrivedTold

\* The getters of AmptekStatus read what the detector held, whether the status came
\* from the simulator, behind a spectrum or through the USB handler's buffer.
THEOREM StatusesAreRead == Spec => []ReadsBack
<1>1. Init => ArrivedTold
  BY DEF Init, NoCame, Arrived, ArrivedTold
<1>2. ArrivedTold /\ Buffered /\ [Next]_vars => ArrivedTold'
  <2> SUFFICES ASSUME ArrivedTold, Buffered, [Next]_vars PROVE ArrivedTold'
    OBVIOUS
  <2>1. CASE ~Arrived'
    BY <2>1 DEF ArrivedTold
  <2>2. CASE UNCHANGED <<detector, response, came>>
    BY <2>2 DEF ArrivedTold, Arrived
  <2>3. ASSUME NEW d \in Detectors, NEW place \in 0..71, NEW damage \in Damages,
               ArriveDamaged(d, place, damage)
        PROVE  ArrivedTold'
    BY <2>1, <2>3 DEF ArriveDamaged, Arrive, Arrived
  <2>4. ASSUME NEW bytes \in Others, ArriveOther(bytes) PROVE ArrivedTold'
    BY <2>1, <2>4 DEF ArriveOther, Arrive, Arrived
  <2>5. ASSUME NEW i \in 0..STATUS_SIZE - 1, NEW k \in 0..7, AnswerOther(i, k)
        PROVE  ArrivedTold'
    BY <2>1, <2>5 DEF AnswerOther, Arrived
  <2>6. ASSUME NEW call \in Calls, Ask(call[1], call[2]) PROVE ArrivedTold'
    BY <2>2, <2>6 DEF Ask, Makes
  <2>7. ASSUME NEW clock \in {20, 80}, NEW rate \in Rates, StartCommtest(clock, rate)
        PROVE  ArrivedTold'
    BY <2>2, <2>7 DEF StartCommtest, Makes
  <2>8. CASE UNCHANGED vars
    BY <2>2, <2>8 DEF vars
  <2> QED
    BY <2>3, <2>4, <2>5, <2>6, <2>7, <2>8, StatusArrives, SpectrumArrives, WholeArrives
       DEF Next, Done
<1>3. ArrivedTold => ReadsBack
  <2> SUFFICES ASSUME ArrivedTold, Arrived PROVE ReadsBack
    BY DEF ReadsBack
  <2>1. PICK less \in Less(detector) : Tells(response, detector, less)
    BY DEF ArrivedTold
  <2>2. detector \in Detectors
    BY DEF ArrivedTold
  <2> QED
    BY <2>1, <2>2, Told DEF ReadsBack, Report, ReadAs
<1> QED
  BY <1>1, <1>2, <1>3, BufferInvariant, PTL DEF Spec

------------------------------------------------------------------------------
(* No two getters read the same bit.                                        *)

\* A detector that nothing was asked of.
NoCounts == [counts |-> <<0, 0>>, ms |-> 0, preset |-> 0, enabled |-> FALSE]

\* Nothing was asked of the detector yet; and a status with one bit is what it is.
OtherTold ==
    /\ came = NoCame => detector = NoCounts
    /\ came.how = "other" =>
          /\ detector = NoCounts
          /\ \E i \in 0..63, k \in 0..7 : Single(Report, i, k)

\* AnswerOther changes nothing but the response.
LEMMA OtherArrives ==
    ASSUME OtherTold, NEW i \in 0..63, NEW k \in 0..7, AnswerOther(i, k)
    PROVE  OtherTold'
<1> DEFINE raw == Status(detector, 0)
           p == 2 ^ k
           sent == [raw EXCEPT ![i + 1] = @ + p]
<1>1. detector = NoCounts /\ detector' = detector /\ came'.how = "other"
  BY DEF OtherTold, AnswerOther
<1>2. raw = [j \in 1..64 |-> 0]
  BY <1>1, BlankStatus DEF NoCounts
<1>3. p \in Byte /\ Masked(k, p)
  <2>1. Power(k, p)
    BY Powers
  <2>2. Masked(k, p)
    BY Masks
  <2> HIDE DEF p
  <2>3. k = 0 \/ k = 1 \/ k = 2 \/ k = 3 \/ k = 4 \/ k = 5 \/ k = 6 \/ k = 7
    OBVIOUS
  <2>4. p \in 1..128
    BY <2>1, <2>3 DEF Power
  <2> QED
    BY <2>2, <2>4 DEF Byte
<1>4. response' = ResizedPacket(STATUS_RESPONSE[1], STATUS_RESPONSE[2], sent)
  <2>1. ~Bit(raw, i, k)
    <3>1. Raw(raw, i) = 0
      BY <1>2 DEF Raw
    <3>2. p \in Nat \ {0}
      <4>1. Power(k, p)
        BY Powers
      <4> HIDE DEF p
      <4> QED
        BY <4>1 DEF Power
    <3> HIDE DEF p, raw
    <3>3. 0 \div p = 0
      BY <3>2
    <3>4. (0 \div p) % 2 = 0
      BY <3>3
    <3> QED
      BY <3>1, <3>4 DEF Bit, p
  <2> QED
    BY <2>1 DEF AnswerOther
<1> HIDE DEF p
<1>5. /\ sent \in Seq(Byte) /\ Len(sent) = 64
      /\ \A j \in 1..64 : sent[j] = IF j = i + 1 THEN p ELSE 0
  <2>1. i + 1 \in 1..64 /\ 0 \in Byte /\ 0 + p = p
    BY <1>3 DEF Byte
  <2>2. sent = [j \in 1..64 |-> IF j = i + 1 THEN p ELSE 0]
    BY <1>2, <2>1
  <2> HIDE DEF sent
  <2> QED
    BY <1>3, <2>1, <2>2
<1> HIDE DEF sent, raw
<1>6. Resized(response', STATUS_RESPONSE[2], sent)
  <2>1. STATUS_RESPONSE[1] \in Byte /\ STATUS_RESPONSE[2] \in Byte
    BY DEF STATUS_RESPONSE, Byte
  <2> QED
    BY <1>4, <1>5, <2>1, ResizedFormed
<1>7. PICK q \in Seq(Byte) : /\ q = response' /\ Len(q) = 136
                             /\ \A j \in 1..64 : q[j + 6] = sent[j]
  <2>1. /\ response' \in Seq(Byte) /\ Len(response') = 136
        /\ \A j \in 1..64 : response'[j + 6] = sent[j]
    BY <1>5, <1>6 DEF Resized
  <2> QED
    BY <2>1
<1>8. Single(DataOf(q), i, k)
  <2> SUFFICES ASSUME NEW j \in 0..63
               PROVE  Raw(DataOf(q), j) = IF j = i THEN p ELSE 0
    BY DEF Single, p
  <2>1. /\ j \in Nat /\ j + 7 <= Len(q) /\ j + 1 \in 1..64 /\ (j + 1) + 6 = j + 7
        /\ (j + 1 = i + 1 <=> j = i)
    <3>1. Len(q) = 136
      BY <1>7
    <3> QED
      BY <3>1
  <2>2. Raw(DataOf(q), j) = q[j + 7]
    BY <2>1, DataOfLemma
  <2>3. q[(j + 1) + 6] = sent[j + 1]
    BY <1>7, <2>1
  <2>4. sent[j + 1] = IF j + 1 = i + 1 THEN p ELSE 0
    BY <1>5, <2>1
  <2> QED
    BY <2>1, <2>2, <2>3, <2>4
<1>9. came' # NoCame
  BY <1>1 DEF NoCame
<1> QED
  BY <1>1, <1>7, <1>8, <1>9 DEF OtherTold, Report

\* The masks and places of the getters do not overlap: a single bit of the status
\* changes one reading at most.
THEOREM ReadingsAreDisjoint == Spec => []ReadingsDisjoint
<1>1. Init => OtherTold
  BY DEF Init, NoCame, OtherTold, NoCounts
<1>2. OtherTold /\ [Next]_vars => OtherTold'
  <2> SUFFICES ASSUME OtherTold, [Next]_vars PROVE OtherTold'
    OBVIOUS
  <2>1. CASE came'.how \notin {"none", "other"}
    BY <2>1 DEF OtherTold, NoCame
  <2>2. CASE UNCHANGED <<detector, response, came>>
    BY <2>2 DEF OtherTold, Report
  <2>3. ASSUME NEW d \in Detectors, NEW less \in Less(d), AnswerStatus(d, less)
        PROVE  OtherTold'
    BY <2>1, <2>3 DEF AnswerStatus
  <2>4. ASSUME NEW d \in Detectors, NEW status \in BOOLEAN, NEW len \in Lengths,
               NEW value \in Values, AnswerSpectrum(d, status, len, value)
        PROVE  OtherTold'
    <3>1. came'.how \in {"unknown", "direct", "spectrum"}
      BY <2>4 DEF AnswerSpectrum
    <3> QED
      BY <2>1, <3>1
  <2>5. ASSUME NEW d \in Detectors, ArriveWhole(d) PROVE OtherTold'
    BY <2>1, <2>5 DEF ArriveWhole, Arrive
  <2>6. ASSUME NEW d \in Detectors, NEW place \in 0..71, NEW damage \in Damages,
               ArriveDamaged(d, place, damage)
        PROVE  OtherTold'
    BY <2>1, <2>6 DEF ArriveDamaged, Arrive
  <2>7. ASSUME NEW bytes \in Others, ArriveOther(bytes) PROVE OtherTold'
    BY <2>1, <2>7 DEF ArriveOther, Arrive
  <2>8. ASSUME NEW i \in 0..STATUS_SIZE - 1, NEW k \in 0..7, AnswerOther(i, k)
        PROVE  OtherTold'
    BY <2>8, OtherArrives DEF STATUS_SIZE
  <2>9. ASSUME NEW call \in Calls, Ask(call[1], call[2]) PROVE OtherTold'
    BY <2>2, <2>9 DEF Ask, Makes
  <2>10. ASSUME NEW clock \in {20, 80}, NEW rate \in Rates, StartCommtest(clock, rate)
         PROVE  OtherTold'
    BY <2>2, <2>10 DEF StartCommtest, Makes
  <2>11. CASE UNCHANGED vars
    BY <2>2, <2>11 DEF vars
  <2> QED
    BY <2>3, <2>4, <2>5, <2>6, <2>7, <2>8, <2>9, <2>10, <2>11 DEF Next, Done
<1>3. OtherTold => ReadingsDisjoint
  <2> SUFFICES ASSUME OtherTold, came.how = "other"
               PROVE  LET now == Readings(Report)
                          before == Readings(Status(detector, 0))
                      IN  Cardinality({f \in DOMAIN now : now[f] # before[f]}) <= 1
    BY DEF ReadingsDisjoint
  <2> DEFINE now == Readings(Report)
             before == Readings(Status(detector, 0))
             changed == {f \in DOMAIN now : now[f] # before[f]}
  <2>1. PICK i \in 0..63, k \in 0..7 : Single(Report, i, k)
    BY DEF OtherTold
  <2>2. Blank(Status(detector, 0))
    BY BlankStatus DEF OtherTold, NoCounts
  <2>3. changed \subseteq {Owner(i, k)}
    BY <2>1, <2>2, OwnerOnly
  <2> HIDE DEF changed
  <2>4. changed = {} \/ changed = {Owner(i, k)}
    BY <2>3
  <2>5. Cardinality(changed) \in {0, 1}
    BY <2>4, FS_EmptySet, FS_Singleton
  <2> QED
    BY <2>5 DEF changed
<1> QED
  BY <1>1, <1>2, <1>3, PTL DEF Spec
==============================================================================
