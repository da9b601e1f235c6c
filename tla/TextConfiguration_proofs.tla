---------------------- MODULE TextConfiguration_proofs ----------------------
(* Proofs about TextConfiguration, for any packet size and any commands. *)
EXTENDS TextConfiguration, TLAPS, SequenceTheorems

-----------------------------------------------------------------------------
(* Lists of commands and intervals of their indices.                       *)

\* A list of commands is a sequence of sizes, each of which fits in a packet.
LEMMA ListLemma ==
    ASSUME NEW cs \in CommandLists
    PROVE  /\ cs \in Seq(Sizes) /\ Len(cs) \in Nat
           /\ cs = <<>> <=> Len(cs) = 0
           /\ \A k \in 1..Len(cs) : cs[k] \in Nat /\ cs[k] <= MaxPacket - 1
<1>1. PICK n \in 0..MaxCommands : cs \in [1..n -> Sizes]
  BY DEF CommandLists
<1>2. n \in Nat
  BY CommandsAssumption
<1>3. cs \in Seq(Sizes) /\ Len(cs) \in Nat /\ DOMAIN cs = 1..Len(cs)
  BY <1>1, <1>2, LenProperties
<1>4. \A k \in 1..Len(cs) : cs[k] \in Nat /\ cs[k] <= MaxPacket - 1
  <2>1. \A k \in 1..Len(cs) : cs[k] \in 0..MaxPacket - 1
    BY <1>3, SizesAssumption, ElementOfSeq
  <2> QED
    BY <2>1, PacketAssumption
<1>5. cs = <<>> <=> Len(cs) = 0
  BY <1>3, EmptySeq
<1> QED
  BY <1>3, <1>4, <1>5

\* An interval holds its indices in order.
LEMMA IntervalLemma ==
    ASSUME NEW n \in Nat, NEW a \in 1..n + 1, NEW b \in a - 1..n
    PROVE  /\ Interval(a, b) \in Seq(1..n)
           /\ Len(Interval(a, b)) = b - a + 1
           /\ \A k \in 1..b - a + 1 : Interval(a, b)[k] = a + k - 1
<1>1. b - a + 1 \in Nat
  OBVIOUS
<1>2. Interval(a, b) \in [1..b - a + 1 -> 1..n]
  BY DEF Interval
<1>3. Interval(a, b) \in Seq(1..n)
  BY <1>1, <1>2
<1>4. DOMAIN Interval(a, b) = 1..b - a + 1
  BY DEF Interval
<1>5. Len(Interval(a, b)) = b - a + 1
  BY <1>1, <1>3, <1>4, LenProperties
<1> QED
  BY <1>3, <1>5 DEF Interval

\* The interval from 1 holds each index at its own place.
LEMMA PrefixLemma ==
    ASSUME NEW n \in Nat, NEW b \in 0..n
    PROVE  /\ Interval(1, b) \in Seq(1..n)
           /\ Len(Interval(1, b)) = b
           /\ \A k \in 1..b : Interval(1, b)[k] = k
<1>1. b - 1 + 1 = b /\ 1 \in 1..n + 1 /\ b \in 1 - 1..n
  OBVIOUS
<1>2. /\ Interval(1, b) \in Seq(1..n)
      /\ Len(Interval(1, b)) = b - 1 + 1
      /\ \A k \in 1..b - 1 + 1 : Interval(1, b)[k] = 1 + k - 1
  BY <1>1, IntervalLemma
<1> QED
  BY <1>1, <1>2

\* The interval behind another one goes on where that ends.
LEMMA IntervalsJoin ==
    ASSUME NEW n \in Nat, NEW a \in 1..n + 1, NEW b \in a - 1..n
    PROVE  Interval(1, a - 1) \o Interval(a, b) = Interval(1, b)
<1> DEFINE s == Interval(1, a - 1)
           t == Interval(a, b)
           u == Interval(1, b)
<1>1. s \in Seq(1..n) /\ Len(s) = a - 1 /\ \A k \in 1..a - 1 : s[k] = k
  BY PrefixLemma, a - 1 \in 0..n
<1>2. t \in Seq(1..n) /\ Len(t) = b - a + 1 /\ \A k \in 1..b - a + 1 : t[k] = a + k - 1
  BY IntervalLemma
<1>3. u \in Seq(1..n) /\ Len(u) = b /\ \A k \in 1..b : u[k] = k
  BY PrefixLemma, b \in 0..n
<1> HIDE DEF s, t, u
<1>4. s \o t \in Seq(1..n) /\ Len(s \o t) = b
  <2>1. s \o t \in Seq(1..n) /\ Len(s \o t) = Len(s) + Len(t)
    BY <1>1, <1>2, ConcatProperties
  <2>2. (a - 1) + (b - a + 1) = b
    OBVIOUS
  <2> QED
    BY <1>1, <1>2, <2>1, <2>2
<1>5. ASSUME NEW k \in 1..b PROVE (s \o t)[k] = u[k]
  <2>1. (s \o t)[k] = IF k <= Len(s) THEN s[k] ELSE t[k - Len(s)]
    BY <1>1, <1>2, ConcatProperties
  <2>2. CASE k <= a - 1
    <3>1. k \in 1..a - 1
      BY <2>2
    <3>2. (s \o t)[k] = s[k]
      BY <1>1, <2>1, <2>2
    <3>3. s[k] = k /\ u[k] = k
      BY <1>1, <1>3, <3>1
    <3> QED
      BY <3>2, <3>3
  <2>3. CASE k > a - 1
    <3>1. k - (a - 1) \in 1..b - a + 1
      BY <2>3
    <3>2. (s \o t)[k] = t[k - (a - 1)]
      BY <1>1, <2>1, <2>3
    <3>3. t[k - (a - 1)] = a + (k - (a - 1)) - 1
      BY <1>2, <3>1
    <3>4. a + (k - (a - 1)) - 1 = k
      OBVIOUS
    <3>5. u[k] = k
      BY <1>3
    <3> QED
      BY <3>2, <3>3, <3>4, <3>5
  <2>4. k <= a - 1 \/ k > a - 1
    OBVIOUS
  <2> QED
    BY <2>2, <2>3, <2>4
<1>6. s \o t = u
  BY <1>3, <1>4, <1>5, SeqEqual
<1> QED
  BY <1>6 DEF s, t, u

\* What is appended to a sequence is its end.
LEMMA EndLemma ==
    ASSUME NEW n \in Nat, NEW s \in Seq(1..n), NEW t \in Seq(1..n)
    PROVE  /\ s \o t \in Seq(1..n)
           /\ Len(s \o t) >= Len(t)
           /\ SubSeq(s \o t, Len(s \o t) - Len(t) + 1, Len(s \o t)) = t
<1>1. s \o t \in Seq(1..n) /\ Len(s \o t) = Len(s) + Len(t)
  BY ConcatProperties
<1>2. Len(s) \in Nat /\ Len(t) \in Nat
  BY LenProperties
<1>3. Len(s) + Len(t) - Len(t) + 1 = Len(s) + 1
  BY <1>2
<1>4. SubSeq(s \o t, Len(s) + 1, Len(s \o t)) = t
  <2>1. CASE t = <<>>
    BY <1>1, <1>2, <2>1
  <2>2. CASE t /= <<>>
    <3>1. Len(t) > 0
      BY <2>2, EmptySeq
    <3>2. /\ Len(s) + 1 \in Len(s) + 1..Len(s) + Len(t)
          /\ Len(s) + Len(t) \in Len(s) + 1..Len(s) + Len(t)
          /\ Len(s) + 1 - Len(s) = 1
          /\ Len(s) + Len(t) - Len(s) = Len(t)
      BY <1>2, <3>1
    <3>3. SubSeq(s \o t, Len(s) + 1, Len(s) + Len(t)) = SubSeq(t, 1, Len(t))
      BY <3>2, SubSeqOfConcat2
    <3> QED
      BY <1>1, <3>3, SubSeqFull
  <2> QED
    BY <2>1, <2>2
<1> QED
  BY <1>1, <1>2, <1>3, <1>4

-----------------------------------------------------------------------------
(* The inductive invariant.                                                *)

\* Which operation is at which place, and how far it has come there.
Place ==
    /\ pc \in {"set", "append", "last"} => op = "set"
    /\ pc \in {"get", "ask", "undefined"} => op = "get"
    /\ pc /= "idle" => commands /= <<>> /\ result = "none" /\ first <= i + 1
    /\ pc \in {"set", "append", "get"} => i < Len(commands)
    /\ pc = "last" => i = Len(commands)

\* The stream of SetTextConfiguration holds no more than is counted, for the
\* count is never reset, and what it holds fits.
Room ==
    /\ op = "set" /\ pc /= "idle" => bytes <= streamsize /\ bytes <= MaxPacket
    /\ pc = "append" => bytes = 0

\* What has been carried out ends where the stream begins.
Order ==
    /\ op = "set" /\ pc /= "idle" => applied = Interval(1, first - 1)
    /\ op = "get" => applied = <<>> /\ first = 1

\* A list that one request holds is asked for when all of it is appended.
AtOnce ==
    op = "get" /\ Len(commands) <= MaxPerRequest + 1 /\ pc /= "idle" =>
        /\ configs = <<>>
        /\ pc = "ask" => i = Len(commands)

IInv ==
    /\ TypeOK /\ Place /\ Room /\ Order /\ AtOnce
    /\ RequestsFit /\ AppliedInOrder /\ AnswersComplete

-----------------------------------------------------------------------------
(* What the operations have in common.                                     *)

\* While a call is in progress its commands and the stream's are indices of its
\* list, which is not empty.
LEMMA InProgress ==
    ASSUME IInv, pc /= "idle"
    PROVE  /\ Len(commands) \in Nat /\ Len(commands) >= 1
           /\ i \in 0..Len(commands)
           /\ first \in 1..Len(commands) + 1 /\ first \in Nat /\ first <= i + 1
           /\ i \in first - 1..Len(commands)
           /\ bytes \in Nat /\ streamsize \in Nat
           /\ \A k \in 1..Len(commands) : commands[k] \in Nat /\ commands[k] <= MaxPacket - 1
           /\ Interval(first, i) \in Seq(1..Len(commands))
           /\ result = "none"
<1>1. commands \in CommandLists /\ commands /= <<>> /\ first <= i + 1 /\ result = "none"
  BY DEF IInv, TypeOK, Place
<1>2. /\ Len(commands) \in Nat /\ Len(commands) /= 0
      /\ \A k \in 1..Len(commands) : commands[k] \in Nat /\ commands[k] <= MaxPacket - 1
  BY <1>1, ListLemma
<1>3. i \in 0..Len(commands) /\ first \in 1..Len(commands) /\ bytes \in Nat /\ streamsize \in Nat
  BY <1>1 DEF IInv, TypeOK
<1>4. Len(commands) >= 1 /\ first \in 1..Len(commands) + 1 /\ first \in Nat
      /\ i \in first - 1..Len(commands)
  BY <1>1, <1>2, <1>3
<1>5. Interval(first, i) \in Seq(1..Len(commands))
  BY <1>2, <1>4, IntervalLemma
<1> QED
  BY <1>1, <1>2, <1>3, <1>4, <1>5

\* A request sent is the stream, and is one more request; what the detector has
\* carried out then ends where the stream ends, or as before.
LEMMA SendLemma ==
    ASSUME IInv, pc /= "idle", NEW taken_up \in BOOLEAN, Send(taken_up)
    PROVE  /\ requests' \in Seq([first : Nat, last : Nat, bytes : Nat])
           /\ applied' \in Seq(1..Len(commands))
           /\ op = "set" => \A k \in DOMAIN requests' : requests'[k].bytes <= MaxPacket
           /\ op = "set" /\ taken_up => applied' = Interval(1, i)
           /\ op = "get" \/ ~taken_up => applied' = applied
<1> DEFINE request == [first |-> first, last |-> i, bytes |-> bytes]
<1>1. request \in [first : Nat, last : Nat, bytes : Nat] /\ request.bytes = bytes
  BY InProgress
<1>2. requests \in Seq([first : Nat, last : Nat, bytes : Nat])
  BY DEF IInv, TypeOK
<1>3. requests' = Append(requests, request)
  BY DEF Send
<1> HIDE DEF request
<1>4. requests' \in Seq([first : Nat, last : Nat, bytes : Nat])
  BY <1>1, <1>2, <1>3, AppendProperties
<1>5. ASSUME op = "set", NEW k \in DOMAIN requests' PROVE requests'[k].bytes <= MaxPacket
  <2>1. /\ DOMAIN requests = 1..Len(requests)
        /\ DOMAIN requests' = 1..Len(requests) + 1
        /\ Len(requests) \in Nat
        /\ \A j \in 1..Len(requests) : requests'[j] = requests[j]
        /\ requests'[Len(requests) + 1] = request
    BY <1>1, <1>2, <1>3, <1>4, AppendProperties, LenProperties
  <2>2. CASE k = Len(requests) + 1
    BY <1>1, <1>5, <2>1, <2>2 DEF IInv, Room
  <2>3. CASE k \in 1..Len(requests)
    BY <1>5, <2>1, <2>3 DEF IInv, RequestsFit
  <2> QED
    BY <2>1, <2>2, <2>3
<1>6. ASSUME op = "set", taken_up PROVE applied' = Interval(1, i)
  <2>1. applied' = Interval(1, first - 1) \o Interval(first, i)
    BY <1>6 DEF Send, IInv, Order
  <2> QED
    BY <2>1, InProgress, IntervalsJoin
<1>7. ASSUME op = "get" \/ ~taken_up PROVE applied' = applied
  BY <1>7 DEF Send
<1>8. applied' \in Seq(1..Len(commands))
  <2>1. CASE op = "set" /\ taken_up
    BY <1>6, <2>1, InProgress, PrefixLemma
  <2>2. CASE ~(op = "set" /\ taken_up)
    <3>1. applied' = applied
      BY <2>2 DEF Send
    <3> QED
      BY <3>1 DEF IInv, TypeOK
  <2> QED
    BY <2>1, <2>2
<1> QED
  BY <1>4, <1>5, <1>6, <1>7, <1>8

\* What has been carried out in the order of the indices is as long as its last.
LEMMA PrefixInOrder ==
    ASSUME NEW n \in Nat, NEW b \in 0..n, NEW s, s = Interval(1, b)
    PROVE  s = Interval(1, Len(s)) /\ Len(s) = b
BY PrefixLemma

-----------------------------------------------------------------------------
(* Every step preserves the invariant.                                     *)

\* It holds when the program starts.
LEMMA Initially == Init => IInv
<1> SUFFICES ASSUME Init PROVE IInv
  OBVIOUS
<1> USE DEF Init
<1>1. commands \in CommandLists /\ Len(commands) = 0
  <2>1. <<>> \in [1..0 -> Sizes]
    OBVIOUS
  <2>2. 0 \in 0..MaxCommands
    BY CommandsAssumption
  <2> QED
    BY <2>1, <2>2 DEF CommandLists
<1>2. TypeOK
  <2>1. /\ requests \in Seq([first : Nat, last : Nat, bytes : Nat])
        /\ {applied, configs} \subseteq Seq(1..Len(commands))
    BY EmptySeq
  <2>2. {bytes, streamsize} \subseteq Nat /\ i \in 0..Len(commands)
    BY <1>1
  <2>3. /\ op \in {"set", "get"} /\ error \in BOOLEAN
        /\ pc \in {"idle", "set", "append", "last", "get", "ask", "undefined"}
        /\ result \in {"none", "true", "false", "thrown"}
    OBVIOUS
  <2>4. commands \in CommandLists /\ commands = <<>>
    BY <1>1
  <2> QED
    BY <2>1, <2>2, <2>3, <2>4 DEF TypeOK
<1>3. AppliedInOrder
  BY <1>1 DEF AppliedInOrder, Interval
<1> QED
  BY <1>2, <1>3 DEF IInv, Place, Room, Order, AtOnce, RequestsFit, AnswersComplete

\* A call begins with nothing sent and nothing carried out.
LEMMA BeginKeeps ==
    ASSUME IInv, NEW o \in {"set", "get"}, NEW cs \in CommandLists, Begin(o, cs)
    PROVE  IInv'
<1> USE DEF Begin
<1>1. /\ Len(cs) \in Nat
      /\ cs = <<>> <=> Len(cs) = 0
  BY ListLemma
<1>2. TypeOK'
  <2>1. first' \in 1..Len(commands') \/ commands' = <<>>
    BY <1>1
  <2>2. /\ requests' \in Seq([first : Nat, last : Nat, bytes : Nat])
        /\ {applied', configs'} \subseteq Seq(1..Len(commands'))
    BY EmptySeq
  <2>3. error' \in BOOLEAN
    BY DEF IInv, TypeOK
  <2>4. op' \in {"set", "get"} /\ pc' \in {"idle", "set", "append", "last", "get", "ask", "undefined"}
    OBVIOUS
  <2>5. commands' \in CommandLists /\ i' \in 0..Len(commands')
    BY <1>1
  <2>6. {bytes', streamsize'} \subseteq Nat /\ result' \in {"none", "true", "false", "thrown"}
    OBVIOUS
  <2> QED
    BY <2>1, <2>2, <2>3, <2>4, <2>5, <2>6 DEF TypeOK
<1>3. Place'
  BY <1>1 DEF Place
<1>4. Room'
  BY PacketAssumption DEF Room
<1>5. <<>> = Interval(1, 0)
  BY DEF Interval
<1>6. Order'
  BY <1>5 DEF Order
<1>7. RequestsFit'
  BY DEF RequestsFit
<1>8. AppliedInOrder'
  BY <1>1, <1>5 DEF AppliedInOrder
<1>9. AnswersComplete'
  <2>1. SUFFICES ASSUME result' = "true"
                 PROVE  /\ configs' = Interval(1, Len(commands'))
                        /\ Len(configs') >= Len(commands')
                        /\ SubSeq(configs', Len(configs') - Len(commands') + 1, Len(configs'))
                               = Interval(1, Len(commands'))
    BY DEF AnswersComplete, Interval
  <2>2. commands' = <<>> /\ configs' = <<>>
    BY <2>1
  <2>3. Len(<<>>) = 0 /\ SubSeq(<<>>, 0 - 0 + 1, 0) = <<>>
    OBVIOUS
  <2>4. Len(configs') = 0 /\ Len(commands') = 0
    BY <2>2, <2>3
  <2>5. SubSeq(configs', 0 - 0 + 1, 0) = Interval(1, 0)
    BY <2>2, <2>3, <1>5
  <2>6. 0 >= 0
    OBVIOUS
  <2>7. configs' = Interval(1, 0)
    BY <2>2, <1>5
  <2> QED
    BY <2>4, <2>5, <2>6, <2>7, Zenon
<1>10. AtOnce'
  BY DEF AtOnce
<1> QED
  BY <1>2, <1>3, <1>4, <1>6, <1>7, <1>8, <1>9, <1>10 DEF IInv

\* A request sent because the next command would not fit: the stream begins
\* again behind it.
LEMMA FlushKeeps == ASSUME IInv, Flush PROVE IInv'
<1> USE DEF Flush
<1>1. pc = "set" /\ op = "set" /\ i < Len(commands) /\ commands /= <<>>
  BY DEF IInv, Place
<1>2. Send(TRUE)
  OBVIOUS
<1>3. /\ requests' \in Seq([first : Nat, last : Nat, bytes : Nat])
      /\ applied' \in Seq(1..Len(commands)) /\ applied' = Interval(1, i)
      /\ \A k \in DOMAIN requests' : requests'[k].bytes <= MaxPacket
  BY <1>1, <1>2, SendLemma
<1>4. i \in 0..Len(commands) /\ Len(commands) \in Nat /\ i + 1 - 1 = i /\ result = "none"
  BY <1>1, InProgress
<1>5. TypeOK'
  BY <1>1, <1>3, <1>4 DEF IInv, TypeOK, argument
<1>6. Place'
  BY <1>1, <1>4 DEF Place, argument
<1>7. Room'
  BY <1>1, PacketAssumption DEF Room, IInv, TypeOK, argument
<1>8. Order'
  BY <1>1, <1>3, <1>4 DEF Order, argument
<1>9. RequestsFit'
  BY <1>3 DEF RequestsFit
<1>10. AppliedInOrder'
  BY <1>3, <1>4, PrefixInOrder DEF AppliedInOrder
<1>11. AnswersComplete' /\ AtOnce'
  BY <1>1 DEF AnswersComplete, AtOnce, argument
<1> QED
  BY <1>5, <1>6, <1>7, <1>8, <1>9, <1>10, <1>11 DEF IInv

\* The command appended fits, as was checked or as every command does alone.
LEMMA AddKeeps == ASSUME IInv, Add PROVE IInv'
<1> USE DEF Add, Adds
<1>1. /\ pc \in {"set", "append"} /\ op = "set" /\ i < Len(commands) /\ commands /= <<>>
      /\ result = "none" /\ first <= i + 1
  BY DEF IInv, Place
<1>2. /\ i \in 0..Len(commands) /\ Len(commands) \in Nat
      /\ bytes \in Nat /\ streamsize \in Nat /\ first \in Nat
      /\ \A k \in 1..Len(commands) : commands[k] \in Nat /\ commands[k] <= MaxPacket - 1
  BY <1>1, InProgress
<1>3. i + 1 \in 1..Len(commands) /\ commands[i + 1] \in Nat /\ commands[i + 1] <= MaxPacket - 1
  BY <1>1, <1>2
<1>4. TypeOK'
  <2>1. commands' = commands /\ op' = op
    BY DEF argument
  <2>2. /\ i' \in 0..Len(commands') /\ {bytes', streamsize'} \subseteq Nat
        /\ first' \in 1..Len(commands') \/ commands' = <<>>
    <3>1. streamsize + (commands[i + 1] + 1) \in Nat /\ bytes + commands[i + 1] + 1 \in Nat
      BY <1>2, <1>3
    <3>2. streamsize' \in Nat /\ bytes' \in Nat
      BY <3>1
    <3>3. i' \in 0..Len(commands')
      BY <1>3, <2>1
    <3>4. first' \in 1..Len(commands')
      BY <1>1, <2>1 DEF IInv, TypeOK
    <3> QED
      BY <3>2, <3>3, <3>4
  <2>3. pc' \in {"idle", "set", "append", "last", "get", "ask", "undefined"}
    OBVIOUS
  <2>4. /\ op' \in {"set", "get"} /\ commands' \in CommandLists
        /\ result' \in {"none", "true", "false", "thrown"} /\ error' \in BOOLEAN
    BY <2>1 DEF IInv, TypeOK
  <2>5. /\ requests' \in Seq([first : Nat, last : Nat, bytes : Nat])
        /\ {applied', configs'} \subseteq Seq(1..Len(commands'))
    BY <2>1 DEF IInv, TypeOK
  <2> QED
    BY <2>2, <2>3, <2>4, <2>5 DEF TypeOK
<1>5. Place'
  BY <1>1, <1>2, <1>3 DEF Place, argument
<1>6. Room'
  <2>1. bytes <= streamsize
    BY <1>1 DEF IInv, Room
  <2>2. bytes' <= streamsize'
    BY <1>2, <1>3, <2>1
  <2>3. bytes' <= MaxPacket
    <3>1. CASE pc = "append"
      BY <1>2, <1>3, <3>1, PacketAssumption DEF IInv, Room
    <3>2. CASE pc = "set" /\ streamsize + commands[i + 1] <= MaxPacket - 1
      BY <1>2, <1>3, <2>1, <3>2, PacketAssumption
    <3> QED
      BY <3>1, <3>2
  <2> QED
    BY <2>2, <2>3 DEF Room
<1>7. Order'
  BY <1>1 DEF IInv, Order, argument
<1>8. RequestsFit' /\ AppliedInOrder' /\ AnswersComplete' /\ AtOnce'
  BY <1>1 DEF IInv, RequestsFit, AppliedInOrder, AnswersComplete, AtOnce, argument
<1> QED
  BY <1>4, <1>5, <1>6, <1>7, <1>8 DEF IInv

\* With the last request every command has been carried out.
LEMMA SendLastKeeps == ASSUME IInv, SendLast PROVE IInv'
<1> USE DEF SendLast, Returns
<1>1. pc = "last" /\ op = "set" /\ i = Len(commands) /\ commands /= <<>>
  BY DEF IInv, Place
<1>2. Send(TRUE)
  OBVIOUS
<1>3. /\ requests' \in Seq([first : Nat, last : Nat, bytes : Nat])
      /\ applied' \in Seq(1..Len(commands)) /\ applied' = Interval(1, i)
      /\ \A k \in DOMAIN requests' : requests'[k].bytes <= MaxPacket
  BY <1>1, <1>2, SendLemma
<1>4. i \in 0..Len(commands) /\ Len(commands) \in Nat
  BY <1>1, InProgress
<1>5. TypeOK'
  BY <1>1, <1>3, <1>4 DEF IInv, TypeOK, argument, stream
<1>6. Place' /\ Room' /\ Order'
  BY <1>1 DEF Place, Room, Order, argument
<1>7. RequestsFit'
  BY <1>3 DEF RequestsFit
<1>8. AppliedInOrder'
  BY <1>1, <1>3, <1>4, PrefixInOrder DEF AppliedInOrder, argument
<1>9. AnswersComplete' /\ AtOnce'
  BY <1>1 DEF AnswersComplete, AtOnce, argument
<1> QED
  BY <1>5, <1>6, <1>7, <1>8, <1>9 DEF IInv

\* A request that fails ends the call, carried out or not.
LEMMA FailKeeps == ASSUME IInv, NEW taken_up \in BOOLEAN, Fail(taken_up) PROVE IInv'
<1> USE DEF Fail, Returns
<1>1. pc \in {"set", "last"} /\ op = "set" /\ commands /= <<>>
  BY DEF IInv, Place
<1>2. Send(taken_up)
  OBVIOUS
<1>3. /\ requests' \in Seq([first : Nat, last : Nat, bytes : Nat])
      /\ applied' \in Seq(1..Len(commands))
      /\ \A k \in DOMAIN requests' : requests'[k].bytes <= MaxPacket
      /\ taken_up => applied' = Interval(1, i)
      /\ ~taken_up => applied' = applied
  BY <1>1, <1>2, SendLemma
<1>4. i \in 0..Len(commands) /\ Len(commands) \in Nat
  BY <1>1, InProgress
<1>5. TypeOK'
  BY <1>1, <1>3, <1>4 DEF IInv, TypeOK, argument, stream
<1>6. Place' /\ Room' /\ Order'
  BY <1>1 DEF Place, Room, Order, argument
<1>7. RequestsFit'
  BY <1>3 DEF RequestsFit
<1>8. AppliedInOrder'
  <2>1. CASE taken_up
    BY <1>3, <1>4, <2>1, PrefixInOrder DEF AppliedInOrder
  <2>2. CASE ~taken_up
    BY <1>3, <2>2 DEF IInv, AppliedInOrder
  <2> QED
    BY <2>1, <2>2
<1>9. AnswersComplete' /\ AtOnce'
  BY <1>1 DEF AnswersComplete, AtOnce, argument
<1> QED
  BY <1>5, <1>6, <1>7, <1>8, <1>9 DEF IInv

\* A number up to m that m divides is 0 or m.
LEMMA SmallRest ==
    ASSUME NEW m \in Nat \ {0}, NEW k \in 0..m, k % m = 0, k > 0
    PROVE  k = m
<1>1. CASE k < m
  <2>1. k \in 0..m - 1
    BY <1>1
  <2>2. k % m = k
    BY <2>1
  <2> QED
    BY <2>2
<1> QED
  BY <1>1

\* A command appended to the request of GetTextConfiguration.
LEMMA CollectKeeps == ASSUME IInv, Collect PROVE IInv'
<1> USE DEF Collect
<1>1. op = "get" /\ i < Len(commands) /\ commands /= <<>> /\ result = "none" /\ first <= i + 1
  BY DEF IInv, Place
<1>2. /\ i \in 0..Len(commands) /\ Len(commands) \in Nat /\ first \in Nat /\ bytes \in Nat
      /\ \A k \in 1..Len(commands) : commands[k] \in Nat
  BY <1>1, InProgress
<1>3. i + 1 \in 1..Len(commands) /\ commands[i + 1] \in Nat
  BY <1>1, <1>2
<1>4. TypeOK'
  <2>1. commands' = commands /\ op' = op
    BY DEF argument
  <2>2. /\ i' \in 0..Len(commands') /\ {bytes', streamsize'} \subseteq Nat
        /\ first' \in 1..Len(commands') \/ commands' = <<>>
    BY <1>1, <1>2, <1>3, <2>1 DEF IInv, TypeOK
  <2>3. pc' \in {"idle", "set", "append", "last", "get", "ask", "undefined"}
    OBVIOUS
  <2>4. /\ op' \in {"set", "get"} /\ commands' \in CommandLists
        /\ result' \in {"none", "true", "false", "thrown"} /\ error' \in BOOLEAN
    BY <2>1 DEF IInv, TypeOK
  <2>5. /\ requests' \in Seq([first : Nat, last : Nat, bytes : Nat])
        /\ {applied', configs'} \subseteq Seq(1..Len(commands'))
    BY <2>1 DEF IInv, TypeOK
  <2> QED
    BY <2>2, <2>3, <2>4, <2>5 DEF TypeOK
<1>5. Place'
  BY <1>1, <1>2, <1>3 DEF Place, argument
<1>6. Room' /\ Order'
  BY <1>1 DEF IInv, Room, Order, argument
<1>7. RequestsFit' /\ AppliedInOrder' /\ AnswersComplete'
  BY <1>1 DEF IInv, RequestsFit, AppliedInOrder, AnswersComplete, argument
<1>8. AtOnce'
  <2>1. SUFFICES ASSUME Len(commands) <= MaxPerRequest + 1, pc' = "ask"
                 PROVE  i + 1 = Len(commands)
    BY <1>1 DEF IInv, AtOnce, argument
  <2>2. CASE Full
    <3>1. i > 0 /\ i % MaxPerRequest = 0 /\ i \in 0..MaxPerRequest
      BY <1>1, <1>2, <2>1, <2>2, PacketAssumption DEF Full
    <3>2. i = MaxPerRequest
      BY <3>1, SmallRest, PacketAssumption
    <3> QED
      BY <1>1, <1>2, <2>1, <3>2, PacketAssumption
  <2>3. CASE i + 1 = Len(commands)
    BY <2>3
  <2> QED
    BY <2>1, <2>2, <2>3
<1> QED
  BY <1>4, <1>5, <1>6, <1>7, <1>8 DEF IInv

\* A request asks for all commands up to the one appended last, and with the
\* last command for all there are: its answers are the end of the answers.
LEMMA AskKeeps == ASSUME IInv, NEW size \in AnswerSizes, Ask(size) PROVE IInv'
<1> USE DEF Ask, Returns
<1>1. op = "get" /\ commands /= <<>> /\ result = "none" /\ first <= i + 1 /\ first = 1
      /\ applied = <<>>
  BY DEF IInv, Place, Order
<1>2. Send(TRUE)
  OBVIOUS
<1>3. /\ requests' \in Seq([first : Nat, last : Nat, bytes : Nat])
      /\ applied' = applied
  BY <1>1, <1>2, SendLemma
<1>4. i \in 0..Len(commands) /\ Len(commands) \in Nat
  BY <1>1, InProgress
<1>5. /\ Interval(1, i) \in Seq(1..Len(commands)) /\ Len(Interval(1, i)) = i
      /\ configs \in Seq(1..Len(commands))
  BY <1>4, PrefixLemma DEF IInv, TypeOK
<1>6. configs' = configs \o Interval(1, i)
  BY <1>1
<1>7. /\ configs' \in Seq(1..Len(commands))
      /\ Len(configs') >= i
      /\ SubSeq(configs', Len(configs') - i + 1, Len(configs')) = Interval(1, i)
  BY <1>4, <1>5, <1>6, EndLemma
<1>8. TypeOK'
  <2>1. commands' = commands /\ op' = op /\ i' = i /\ first' = first
        /\ bytes' = bytes /\ streamsize' = streamsize
    BY DEF argument, stream
  <2>2. pc' \in {"idle", "get"} /\ result' \in {"none", "true"}
    BY <1>1
  <2> QED
    BY <1>3, <1>7, <2>1, <2>2 DEF IInv, TypeOK
<1>9. Place'
  BY <1>1, <1>4 DEF Place, argument, stream
<1>10. Room' /\ Order'
  BY <1>1, <1>3 DEF Room, Order, argument, stream
<1>11. RequestsFit'
  BY <1>1 DEF RequestsFit, argument
<1>12. AppliedInOrder'
  BY <1>1, <1>3 DEF IInv, AppliedInOrder, argument
<1>13. AnswersComplete'
  <2>1. CASE i = Len(commands)
    <3>1. ASSUME Len(commands) <= MaxPerRequest + 1
          PROVE  configs' = Interval(1, Len(commands))
      <4>1. configs = <<>>
        BY <1>1, <3>1 DEF IInv, AtOnce
      <4> QED
        BY <1>5, <1>6, <2>1, <4>1, ConcatEmptySeq
    <3> QED
      BY <1>7, <2>1, <3>1 DEF AnswersComplete, argument
  <2>2. CASE i /= Len(commands)
    BY <1>1, <2>2 DEF AnswersComplete, argument
  <2> QED
    BY <2>1, <2>2
<1>14. AtOnce'
  <2>1. SUFFICES ASSUME Len(commands) <= MaxPerRequest + 1, pc' /= "idle" PROVE FALSE
    BY DEF AtOnce, argument
  <2>2. i = Len(commands)
    BY <1>1, <2>1 DEF IInv, AtOnce
  <2> QED
    BY <2>1, <2>2
<1> QED
  BY <1>8, <1>9, <1>10, <1>11, <1>12, <1>13, <1>14 DEF IInv

\* Of a call that overruns its buffer nothing is said.
LEMMA OverrunKeeps == ASSUME IInv, NEW size \in AnswerSizes, Overrun(size) PROVE IInv'
<1> USE DEF Overrun
<1>1. /\ op = "get" /\ commands /= <<>> /\ applied = <<>> /\ first = 1
      /\ result = "none" /\ first <= i + 1
  BY DEF IInv, Place, Order
<1>2. Send(TRUE)
  OBVIOUS
<1>3. /\ requests' \in Seq([first : Nat, last : Nat, bytes : Nat])
      /\ applied' = applied
  BY <1>1, <1>2, SendLemma
<1>4. TypeOK'
  BY <1>3 DEF IInv, TypeOK, argument, stream
<1>5. Place' /\ Room' /\ Order' /\ AtOnce'
  BY <1>1, <1>3 DEF IInv, Place, Room, Order, AtOnce, argument, stream
<1>6. RequestsFit' /\ AppliedInOrder' /\ AnswersComplete'
  BY <1>1, <1>3 DEF IInv, RequestsFit, AppliedInOrder, AnswersComplete, argument
<1> QED
  BY <1>4, <1>5, <1>6 DEF IInv

\* A request that is not answered ends the call with an exception.
LEMMA AskFailsKeeps == ASSUME IInv, AskFails PROVE IInv'
<1> USE DEF AskFails, Returns
<1>1. op = "get" /\ commands /= <<>> /\ applied = <<>> /\ first = 1
  BY DEF IInv, Place, Order
<1>2. Send(FALSE)
  OBVIOUS
<1>3. /\ requests' \in Seq([first : Nat, last : Nat, bytes : Nat])
      /\ applied' = applied
  BY <1>1, <1>2, SendLemma
<1>4. TypeOK'
  BY <1>3 DEF IInv, TypeOK, argument, stream
<1>5. Place' /\ Room' /\ Order' /\ AtOnce'
  BY <1>1, <1>3 DEF Place, Room, Order, AtOnce, argument, stream
<1>6. RequestsFit' /\ AppliedInOrder' /\ AnswersComplete'
  BY <1>1, <1>3 DEF IInv, RequestsFit, AppliedInOrder, AnswersComplete, argument
<1> QED
  BY <1>4, <1>5, <1>6 DEF IInv

\* The invariant is inductive.
LEMMA Inductive == IInv /\ [Next]_vars => IInv'
<1> SUFFICES ASSUME IInv, [Next]_vars PROVE IInv'
  OBVIOUS
<1>1. ASSUME NEW o \in {"set", "get"}, NEW cs \in CommandLists, Begin(o, cs) PROVE IInv'
  BY <1>1, BeginKeeps
<1>2. CASE Flush
  BY <1>2, FlushKeeps
<1>3. CASE Add
  BY <1>3, AddKeeps
<1>4. CASE SendLast
  BY <1>4, SendLastKeeps
<1>5. ASSUME NEW taken_up \in BOOLEAN, Fail(taken_up) PROVE IInv'
  BY <1>5, FailKeeps
<1>6. CASE Collect
  BY <1>6, CollectKeeps
<1>7. ASSUME NEW size \in AnswerSizes, Ask(size) \/ Overrun(size) PROVE IInv'
  BY <1>7, AskKeeps, OverrunKeeps
<1>8. CASE AskFails
  BY <1>8, AskFailsKeeps
<1>9. CASE UNCHANGED vars
  <2>1. /\ TypeOK' = TypeOK /\ Place' = Place /\ Room' = Room /\ Order' = Order
        /\ RequestsFit' = RequestsFit /\ AppliedInOrder' = AppliedInOrder
        /\ AnswersComplete' = AnswersComplete /\ AtOnce' = AtOnce
    BY <1>9 DEF vars, argument, stream, TypeOK, Place, Room, Order, AtOnce, RequestsFit,
                AppliedInOrder, AnswersComplete
  <2> QED
    BY <2>1 DEF IInv
<1> QED
  BY <1>1, <1>2, <1>3, <1>4, <1>5, <1>6, <1>7, <1>8, <1>9 DEF Next

\* The invariant holds in every state the program reaches.
LEMMA Invariant == Spec => []IInv
BY Initially, Inductive, PTL DEF Spec

-----------------------------------------------------------------------------
(* The theorems.                                                           *)

\* The variables hold values of their types, whatever the commands are.
THEOREM TypeCorrect == Spec => []TypeOK
<1>1. IInv => TypeOK
  BY DEF IInv
<1> QED
  BY <1>1, Invariant, PTL

\* No request of SetTextConfiguration is larger than a packet, for any packet
\* size and any commands of which each fits alone.
THEOREM RequestsAlwaysFit == Spec => []RequestsFit
<1>1. IInv => RequestsFit
  BY DEF IInv
<1> QED
  BY <1>1, Invariant, PTL

\* The detector carries the commands out in their order and each once, however
\* they are split into requests; a call that returns true has all of them done.
THEOREM CarriedOutInOrder == Spec => []AppliedInOrder
<1>1. IInv => AppliedInOrder
  BY DEF IInv
<1> QED
  BY <1>1, Invariant, PTL

\* A list of up to max_commands_per_request + 1 commands that is read back without
\* overrunning the buffer gets one answer for each command, in their order; of a longer
\* one the last answers are these, behind those that its first requests got already.
THEOREM AllAnswersRead == Spec => []AnswersComplete
<1>1. IInv => AnswersComplete
  BY DEF IInv
<1> QED
  BY <1>1, Invariant, PTL
=============================================================================
