--------------------- MODULE UdpConnectionHandler_proofs ---------------------
(* Proofs about UdpConnectionHandler, for any set of threads and any bound. *)
EXTENDS UdpConnectionHandler, TLAPS, SequenceTheorems

\* A receive takes the first datagram and leaves the others in order.
LEMMA TakeLemma ==
    ASSUME NEW S, inbound \in Seq(S), Take
    PROVE  /\ Head(inbound) \in S
           /\ inbound' \in Seq(S)
           /\ Len(inbound) > 0
           /\ Len(inbound') = Len(inbound) - 1
           /\ \A i \in 1..Len(inbound') : inbound'[i] = inbound[i + 1]
           /\ Head(inbound) = inbound[1]
           /\ outbound' = outbound /\ reply' = reply
BY HeadTailProperties, EmptySeq DEF Take

\* sem_post as a call returns: mu goes from 0 to 1, all else keeps its type.
LEMMA LeaveLemma ==
    ASSUME TypeOK, SemaphoreConserved, NEW t \in Threads, pc[t] \in Holding,
           NEW r \in Nat \cup {Junk}, Leave(t, r)
    PROVE  /\ mu = 0 /\ mu' = 1
           /\ pc' \in [Threads -> {"idle"} \cup Waiting \cup Holding]
           /\ packet' \in [Threads -> PacketType]
           /\ answer' \in [Threads -> Nat \cup {Junk}]
<1>1. mu = 0 /\ mu' = 1
  BY DEF TypeOK, SemaphoreConserved, Leave
<1>2. pc' \in [Threads -> {"idle"} \cup Waiting \cup Holding]
  BY DEF TypeOK, Leave
<1>3. NoPacket \in PacketType
  BY DEF NoPacket, PacketType
<1>4. packet' \in [Threads -> PacketType]
  BY <1>3 DEF TypeOK, Leave
<1> QED
  BY <1>1, <1>2, <1>4 DEF TypeOK, Leave

\* Reading on changes nothing but what the thread reassembles.
LEMMA GatherLemma ==
    ASSUME TypeOK, NEW t \in Threads, NEW p \in PacketType, Gather(t, p)
    PROVE  /\ pc' \in [Threads -> {"idle"} \cup Waiting \cup Holding]
           /\ packet' \in [Threads -> PacketType]
           /\ UNCHANGED <<mu, answer, last, upset>>
<1>1. "gather" \in Holding
  BY DEF Holding
<1> QED
  BY <1>1 DEF TypeOK, Gather

\* Every step keeps the types; sem_post needs that mu was 0 before it.
LEMMA TypeInvariant == TypeOK /\ SemaphoreConserved /\ [Next]_vars => TypeOK'
<1> SUFFICES ASSUME TypeOK, SemaphoreConserved, [Next]_vars PROVE TypeOK'
  OBVIOUS
<1> USE DEF linkVars, callVars, netVars
<1>0. NoAnswer \in Nat \cup {Junk} /\ Junk \in Nat \cup {Junk}
  BY DEF NoAnswer, Junk
<1>1. ASSUME NEW host \in Hosts, NEW timeout \in Timeouts, Connect(host, timeout)
      PROVE  TypeOK'
  BY <1>1, TimeoutsAssumption DEF Connect, TypeOK
<1>2. ASSUME NEW t \in Threads, Enter(t) \/ EnterClear(t) PROVE TypeOK'
  <2>1. "wait" \in Waiting /\ "drainwait" \in Waiting
    BY DEF Waiting
  <2> QED
    BY <1>0, <1>2, <2>1 DEF Enter, EnterClear, TypeOK
<1>3. ASSUME NEW t \in Threads, Acquire(t) PROVE TypeOK'
  <2>1. "send" \in Holding /\ "drain" \in Holding
    BY DEF Holding
  <2> QED
    BY <1>3, <2>1 DEF Acquire, TypeOK
<1>4. ASSUME NEW t \in Threads, Proceed(t) PROVE TypeOK'
  <2>0. {"send", "recv", "gather", "drain"} \subseteq Holding
    BY DEF Holding
  <2>1. CASE SendRequest(t)
    BY <2>0, <2>1 DEF SendRequest, TypeOK
  <2>2. CASE SendFails(t)
    BY <1>0, <2>0, <2>2, LeaveLemma DEF SendFails, TypeOK
  <2>3. CASE RecvWhole(t)
    <3>0. Head(inbound) \in DatagramType /\ inbound' \in Seq(DatagramType)
      BY <2>3, TakeLemma DEF RecvWhole, TypeOK
    <3>1. Head(inbound).turn \in Nat /\ inbound' \in Seq(DatagramType)
      BY <3>0 DEF DatagramType
    <3> QED
      BY <2>0, <2>3, <3>1, LeaveLemma DEF RecvWhole, ReturnAnswer, TypeOK, Take
  <2>4. CASE RecvFirst(t)
    <3> DEFINE p == [turn |-> Head(inbound).turn, got |-> 1,
                     of |-> Head(inbound).of]
    <3>0. Head(inbound) \in DatagramType /\ inbound' \in Seq(DatagramType)
      BY <2>4, TakeLemma DEF RecvFirst, TypeOK
    <3>1. p \in PacketType
      BY <3>0 DEF DatagramType, PacketType
    <3>2. Gather(t, p)
      BY <2>4 DEF RecvFirst
    <3> QED
      BY <2>4, <3>0, <3>1, <3>2, GatherLemma DEF RecvFirst, TypeOK, Take
  <2>5. CASE RecvStray(t)
    <3> DEFINE p == [turn |-> 0, got |-> 1, of |-> 1]
    <3>1. p \in PacketType /\ inbound' \in Seq(DatagramType)
      BY <2>5, TakeLemma DEF RecvStray, TypeOK, PacketType
    <3>2. CASE ReturnMixed(t) /\ UNCHANGED crashed
      BY <1>0, <2>0, <2>5, <3>1, <3>2, LeaveLemma
         DEF RecvStray, ReturnMixed, TypeOK, Take
    <3>3. CASE Gather(t, p) /\ UNCHANGED crashed
      BY <2>5, <3>1, <3>3, GatherLemma DEF RecvStray, TypeOK, Take
    <3>4. CASE crashed' = TRUE /\ UNCHANGED <<callVars, last, upset>>
      BY <2>5, <3>1, <3>4 DEF RecvStray, TypeOK, Take
    <3> QED
      BY <2>5, <3>2, <3>3, <3>4 DEF RecvStray
  <2>6. CASE GatherNext(t)
    <3> DEFINE p == [packet[t] EXCEPT !.got = @ + 1]
    <3>0. packet[t] \in PacketType /\ inbound' \in Seq(DatagramType)
      BY <2>6, TakeLemma DEF GatherNext, TypeOK
    <3>1. p \in PacketType
      BY <3>0 DEF PacketType
    <3>2. Gather(t, p)
      BY <2>6 DEF GatherNext
    <3> QED
      BY <2>6, <3>0, <3>1, <3>2, GatherLemma DEF GatherNext, TypeOK, Take
  <2>7. CASE GatherLast(t)
    <3>1. packet[t].turn \in Nat /\ inbound' \in Seq(DatagramType)
      BY <2>7, TakeLemma DEF GatherLast, TypeOK, PacketType
    <3> QED
      BY <2>0, <2>7, <3>1, LeaveLemma DEF GatherLast, ReturnAnswer, TypeOK, Take
  <2>8. CASE GatherForeign(t)
    <3> DEFINE p == [turn |-> 0, got |-> packet[t].got + 1, of |-> packet[t].of]
    <3>0. packet[t] \in PacketType /\ inbound' \in Seq(DatagramType)
      BY <2>8, TakeLemma DEF GatherForeign, TypeOK
    <3>1. p \in PacketType
      BY <3>0 DEF PacketType
    <3>2. CASE Gather(t, p)
      BY <2>8, <3>0, <3>1, <3>2, GatherLemma DEF GatherForeign, TypeOK, Take
    <3>3. CASE ReturnMixed(t)
      BY <1>0, <2>0, <2>8, <3>0, <3>3, LeaveLemma
         DEF GatherForeign, ReturnMixed, TypeOK, Take
    <3> QED
      BY <2>8, <3>2, <3>3 DEF GatherForeign
  <2>9. CASE Timeout(t)
    BY <1>0, <2>0, <2>9, LeaveLemma DEF Timeout, TypeOK
  <2>10. CASE DrainOne(t)
    BY <2>10, TakeLemma DEF DrainOne, TypeOK, Take
  <2>11. CASE DrainEnd(t)
    BY <1>0, <2>0, <2>11, LeaveLemma DEF DrainEnd, TypeOK
  <2> QED
    BY <1>4, <2>1, <2>2, <2>3, <2>4, <2>5, <2>6, <2>7, <2>8, <2>9, <2>10, <2>11
       DEF Proceed
<1>5. ASSUME Environment PROVE TypeOK'
  <2>1. CASE LoseRequest
    BY <2>1 DEF LoseRequest, TypeOK
  <2>2. ASSUME NEW of \in 1..MaxFrags, DeviceAnswers(of) PROVE TypeOK'
    <3>1. Head(outbound) \in Nat /\ Tail(outbound) \in Seq(Nat)
      BY <2>2, HeadTailProperties, EmptySeq DEF DeviceAnswers, TypeOK
    <3>2. reply' \in [turn : Nat, sent : Nat, of : Nat]
      BY <2>2, <3>1, BoundsAssumption DEF DeviceAnswers
    <3> QED
      BY <2>2, <3>1, <3>2 DEF DeviceAnswers, TypeOK
  <2>0. [reply EXCEPT !.sent = @ + 1] \in [turn : Nat, sent : Nat, of : Nat]
    <3>1. reply \in [turn : Nat, sent : Nat, of : Nat]
      BY DEF TypeOK
    <3> QED
      BY <3>1
  <2>3. CASE DeviceSends
    <3>1. [turn |-> reply.turn, idx |-> reply.sent + 1, of |-> reply.of]
              \in DatagramType
      BY DEF TypeOK, DatagramType
    <3> QED
      BY <2>0, <2>3, <3>1 DEF DeviceSends, TypeOK
  <2>4. CASE LoseDatagram
    BY <2>0, <2>4 DEF LoseDatagram, TypeOK
  <2> QED
    BY <1>5, <2>1, <2>2, <2>3, <2>4 DEF Environment
<1>6. CASE UNCHANGED vars
  BY <1>6 DEF vars, TypeOK
<1> QED
  BY <1>1, <1>2, <1>3, <1>4, <1>5, <1>6 DEF Next, Call, GetTurn, Done

\* Every step keeps the semaphore equal to 1 minus the threads inside.
LEMMA SemaphoreInvariant ==
    TypeOK /\ SemaphoreConserved /\ [Next]_vars => SemaphoreConserved'
<1> SUFFICES ASSUME TypeOK, SemaphoreConserved, [Next]_vars
             PROVE  SemaphoreConserved'
  OBVIOUS
<1> USE DEF linkVars, callVars, netVars, SemaphoreConserved
<1>0. /\ "wait" \notin Holding /\ "drainwait" \notin Holding /\ "idle" \notin Holding
      /\ {"send", "recv", "gather", "drain"} \subseteq Holding
      /\ \A t \in Threads : pc[t] \in Waiting => pc[t] \notin Holding
  BY DEF Holding, Waiting
<1>1. ASSUME NEW t \in Threads, pc[t] \in Holding, mu' = mu + 1,
             pc' = [pc EXCEPT ![t] = "idle"]
      PROVE  SemaphoreConserved'
  BY <1>0, <1>1 DEF TypeOK
<1>2. ASSUME NEW t \in Threads, NEW at \in Holding, pc[t] \in Holding, mu' = mu,
             pc' = [pc EXCEPT ![t] = at]
      PROVE  SemaphoreConserved'
  BY <1>0, <1>2 DEF TypeOK
<1>3. ASSUME UNCHANGED <<pc, mu>> PROVE SemaphoreConserved'
  BY <1>3
<1>4. ASSUME NEW t \in Threads, Enter(t) \/ EnterClear(t) PROVE SemaphoreConserved'
  <2>1. PICK at \in Waiting : pc' = [pc EXCEPT ![t] = at]
    BY <1>4 DEF Enter, EnterClear, Waiting
  <2>2. at \notin Holding /\ mu' = mu /\ pc[t] \notin Holding
    BY <1>0, <1>4, <2>1 DEF Enter, EnterClear, Waiting
  <2> QED
    BY <2>1, <2>2 DEF TypeOK
<1>5. ASSUME NEW t \in Threads, Acquire(t) PROVE SemaphoreConserved'
  BY <1>0, <1>5 DEF Acquire, TypeOK
<1>6. ASSUME NEW t \in Threads, Proceed(t) PROVE SemaphoreConserved'
  <2>1. CASE SendRequest(t)
    BY <1>0, <1>2, <2>1 DEF SendRequest
  <2>2. CASE RecvFirst(t) \/ GatherNext(t)
    BY <1>0, <1>2, <2>2 DEF RecvFirst, GatherNext, Gather
  <2>3. CASE RecvStray(t) \/ GatherForeign(t)
    BY <1>0, <1>1, <1>2, <1>3, <2>3
       DEF RecvStray, GatherForeign, Gather, ReturnMixed, Leave
  <2>4. CASE SendFails(t) \/ Timeout(t) \/ DrainEnd(t)
    BY <1>0, <1>1, <2>4 DEF SendFails, Timeout, DrainEnd, Leave
  <2>5. CASE RecvWhole(t) \/ GatherLast(t)
    BY <1>0, <1>1, <2>5 DEF RecvWhole, GatherLast, ReturnAnswer, Leave
  <2>6. CASE DrainOne(t)
    BY <1>3, <2>6 DEF DrainOne
  <2> QED
    BY <1>6, <2>1, <2>2, <2>3, <2>4, <2>5, <2>6 DEF Proceed
<1> QED
  BY <1>3, <1>4, <1>5, <1>6
     DEF Next, Call, GetTurn, Done, Environment, LoseRequest, DeviceAnswers,
         DeviceSends, LoseDatagram, Connect, vars

\* Before the connection is made the semaphore is free and nobody is inside.
LEMMA InitTyped == Init => TypeOK /\ SemaphoreConserved
<1> SUFFICES ASSUME Init PROVE TypeOK /\ SemaphoreConserved
  OBVIOUS
<1>1. NoPacket \in PacketType
  BY DEF NoPacket, PacketType
<1>2. TypeOK
  <2>1. answer \in [Threads -> Nat \cup {Junk}]
    BY DEF Init, NoAnswer
  <2>2. reply \in [turn : Nat, sent : Nat, of : Nat]
    BY DEF Init, NoReply
  <2>3. inbound \in Seq(DatagramType) /\ outbound \in Seq(Nat)
    BY DEF Init
  <2> QED
    BY <1>1, <2>1, <2>2, <2>3 DEF Init, TypeOK
<1>3. SemaphoreConserved
  BY DEF Init, SemaphoreConserved, Holding
<1> QED
  BY <1>2, <1>3

\* The type invariant holds for any number of threads, any reply length and
\* any number of calls; that mu stays within {0, 1} needs SemaphoreConserved.
THEOREM TypeCorrect == Spec => []TypeOK
<1>1. TypeOK /\ SemaphoreConserved /\ [Next]_vars => (TypeOK /\ SemaphoreConserved)'
  BY TypeInvariant, SemaphoreInvariant
<1> QED
  BY <1>1, InitTyped, PTL DEF Spec

\* No path through sendAndReceive or ClearCommunicationBuffer loses the
\* semaphore or posts it twice, so calls never overlap.
THEOREM SemaphoreCorrect == Spec => []SemaphoreConserved
<1>1. TypeOK /\ SemaphoreConserved /\ [Next]_vars => (TypeOK /\ SemaphoreConserved)'
  BY TypeInvariant, SemaphoreInvariant
<1> QED
  BY <1>1, InitTyped, PTL DEF Spec
-----------------------------------------------------------------------------
(* The order of what is in transit.  Turns only grow, the network keeps the *)
(* order, and so everything still on its way belongs to a later turn than   *)
(* the answer returned last.                                                *)

\* Datagram d belongs to a reply that was not returned, of which the device
\* has sent d.idx datagrams or more.
InTransit(d) ==
    /\ 1 <= d.idx /\ d.idx <= d.of
    /\ last < d.turn /\ d.turn <= reply.turn
    /\ d.turn = reply.turn => d.idx <= reply.sent /\ d.of = reply.of

\* Datagram d comes after the first n of turn k, a turn whose reply has `of`.
After(k, n, of, d) == k < d.turn \/ (d.turn = k /\ n < d.idx /\ d.of = of)

OutboundOrder ==
    /\ \A i \in 1..Len(outbound) : reply.turn < outbound[i] /\ outbound[i] <= turns
    /\ \A i, j \in 1..Len(outbound) : i < j => outbound[i] < outbound[j]

ReplyOrder ==
    /\ reply.sent <= reply.of
    /\ reply.turn <= turns
    /\ last <= reply.turn
    /\ last = reply.turn => reply.sent = reply.of

InboundOrder ==
    /\ \A i \in 1..Len(inbound) : InTransit(inbound[i])
    /\ \A i, j \in 1..Len(inbound) :
          i < j => After(inbound[i].turn, inbound[i].idx, inbound[i].of, inbound[j])

\* A thread inside a call has the latest turn, and has not sent it yet when it
\* is about to.
TurnOrder ==
    \A t \in Threads :
        /\ pc[t] \in Holding => turn[t] = turns
        /\ pc[t] = "send" =>
              /\ reply.turn < turns
              /\ \A i \in 1..Len(outbound) : outbound[i] < turns

\* A packet of one turn is reassembled in order.
PacketOrder ==
    \A t \in Threads :
        LET p == packet[t]
        IN  pc[t] = "gather" /\ p.turn # 0 =>
                /\ last < p.turn /\ p.turn <= reply.turn
                /\ p.turn = reply.turn => p.got <= reply.sent /\ p.of = reply.of
                /\ \A i \in 1..Len(inbound) : After(p.turn, p.got, p.of, inbound[i])

Order ==
    OutboundOrder /\ ReplyOrder /\ InboundOrder /\ TurnOrder /\ PacketOrder

-----------------------------------------------------------------------------
(* What a quiet start and an exchange in step guarantee.                    *)

Exchanging(t) == pc[t] \in {"recv", "gather"}

\* Everything in transit belongs to turn k.
AllOf(k) ==
    /\ \A i \in 1..Len(outbound) : outbound[i] = k
    /\ \A i \in 1..Len(inbound) : inbound[i].turn = k
    /\ reply.sent # reply.of => reply.turn = k

NothingInTransit == outbound = <<>> /\ inbound = <<>> /\ reply.sent = reply.of

\* A call has no answer before it returns.
NoAnswerYet == \A t \in Threads : pc[t] # "idle" => answer[t] = NoAnswer

QuietInv ==
    \A t \in Threads :
        Exchanging(t) /\ quiet[t] =>
            AllOf(turn[t]) /\ (pc[t] = "gather" => packet[t].turn \in {0, turn[t]})

StepInv ==
    ~upset =>
        /\ \A t \in Threads : Exchanging(t) => quiet[t]
        /\ (\A t \in Threads : ~Exchanging(t)) => NothingInTransit

-----------------------------------------------------------------------------
(* Order is inductive.                                                      *)

\* What the datagrams in the socket buffer are made of.
LEMMA InboundTyped ==
    ASSUME TypeOK
    PROVE  \A i \in 1..Len(inbound) :
              /\ inbound[i].turn \in Nat
              /\ inbound[i].idx \in Nat
              /\ inbound[i].of \in Nat
<1>1. inbound \in Seq(DatagramType)
  BY DEF TypeOK
<1>2. \A i \in 1..Len(inbound) : inbound[i] \in DatagramType
  BY <1>1
<1> QED
  BY <1>2 DEF DatagramType

\* The same after a receive.
LEMMA TypeInvariantTake ==
    ASSUME TypeOK, Take
    PROVE  \A i \in 1..Len(inbound') :
              /\ inbound'[i].turn \in Nat
              /\ inbound'[i].idx \in Nat
              /\ inbound'[i].of \in Nat
<1>1. inbound' \in Seq(DatagramType)
  BY TakeLemma DEF TypeOK
<1>2. \A i \in 1..Len(inbound') : inbound'[i] \in DatagramType
  BY <1>1
<1> QED
  BY <1>2 DEF DatagramType

\* What taking the first datagram off the socket leaves behind.
LEMMA TakeOrder ==
    ASSUME TypeOK, InboundOrder, Take
    PROVE  LET d == Head(inbound)
           IN  /\ d.turn \in Nat /\ d.idx \in Nat /\ d.of \in Nat
               /\ InTransit(d)
               /\ \A i \in 1..Len(inbound') : After(d.turn, d.idx, d.of, inbound'[i])
               /\ \A i \in 1..Len(inbound') : InTransit(inbound'[i])
               /\ \A i, j \in 1..Len(inbound') : i < j =>
                     After(inbound'[i].turn, inbound'[i].idx, inbound'[i].of, inbound'[j])
<1>1. /\ Len(inbound) \in Nat /\ Len(inbound) > 0
      /\ Len(inbound') = Len(inbound) - 1
      /\ \A i \in 1..Len(inbound') : inbound'[i] = inbound[i + 1]
      /\ Head(inbound) = inbound[1]
  BY TakeLemma DEF TypeOK
<1>2. \A i \in 1..Len(inbound') : i + 1 \in 1..Len(inbound)
  BY <1>1
<1>3. 1 \in 1..Len(inbound)
  BY <1>1
<1>4. /\ inbound[1].turn \in Nat /\ inbound[1].idx \in Nat /\ inbound[1].of \in Nat
      /\ InTransit(inbound[1])
  BY <1>3, InboundTyped DEF InboundOrder
<1>5. \A i \in 1..Len(inbound') :
          After(inbound[1].turn, inbound[1].idx, inbound[1].of, inbound'[i])
  <2> SUFFICES ASSUME NEW i \in 1..Len(inbound')
               PROVE  After(inbound[1].turn, inbound[1].idx, inbound[1].of, inbound[i + 1])
    BY <1>1
  <2>1. i + 1 \in 1..Len(inbound) /\ 1 < i + 1
    BY <1>1, <1>2
  <2> QED
    BY <1>3, <2>1 DEF InboundOrder
<1>6. \A i \in 1..Len(inbound') : InTransit(inbound'[i])
  BY <1>1, <1>2 DEF InboundOrder
<1>7. \A i, j \in 1..Len(inbound') : i < j =>
          After(inbound'[i].turn, inbound'[i].idx, inbound'[i].of, inbound'[j])
  <2> SUFFICES ASSUME NEW i \in 1..Len(inbound'), NEW j \in 1..Len(inbound'), i < j
               PROVE  After(inbound[i + 1].turn, inbound[i + 1].idx,
                            inbound[i + 1].of, inbound[j + 1])
    BY <1>1
  <2>1. i + 1 \in 1..Len(inbound) /\ j + 1 \in 1..Len(inbound) /\ i + 1 < j + 1
    BY <1>1, <1>2
  <2> QED
    BY <2>1 DEF InboundOrder
<1> QED
  BY <1>1, <1>4, <1>5, <1>6, <1>7

\* Steps that leave the network and the turns alone, and take threads only
\* out of a call or towards the semaphore.
LEMMA OrderOutside ==
    ASSUME Order, UNCHANGED <<outbound, reply, inbound, last, turns, turn>>,
           \A u \in Threads : \/ pc'[u] \notin Holding
                              \/ pc'[u] = pc[u] /\ packet'[u] = packet[u]
    PROVE  Order'
<1>0. "send" \in Holding /\ "gather" \in Holding
  BY DEF Holding
<1>1. OutboundOrder' /\ ReplyOrder' /\ InboundOrder'
  BY DEF Order, OutboundOrder, ReplyOrder, InboundOrder, InTransit, After
<1>2. TurnOrder'
  BY <1>0 DEF Order, TurnOrder
<1>3. PacketOrder'
  BY <1>0 DEF Order, PacketOrder, After
<1> QED
  BY <1>1, <1>2, <1>3 DEF Order

\* Steps that take a datagram and return no answer.
LEMMA OrderTake ==
    ASSUME TypeOK, Order, Take, UNCHANGED <<last, turns, turn>>,
           \A u \in Threads : pc'[u] \in Holding => pc[u] \in Holding,
           \A u \in Threads : pc'[u] = "send" => pc[u] = "send",
           PacketOrder'
    PROVE  Order'
<1>0. outbound' = outbound /\ reply' = reply
  BY DEF Take
<1>1. OutboundOrder' /\ ReplyOrder'
  BY <1>0 DEF Order, OutboundOrder, ReplyOrder
<1>2. InboundOrder'
  BY <1>0, TakeOrder DEF Order, InboundOrder, InTransit, After
<1>3. TurnOrder'
  BY <1>0 DEF Order, TurnOrder
<1> QED
  BY <1>1, <1>2, <1>3 DEF Order
\* A returned answer is complete: nothing of its reply is left to arrive.
LEMMA OrderReturn ==
    ASSUME TypeOK, SemaphoreConserved, Order, Take,
           NEW t \in Threads, pc[t] \in Holding, NEW r \in Nat, ReturnAnswer(t, r),
           last < r, r <= reply.turn, r = reply.turn => reply.sent = reply.of,
           \A i \in 1..Len(inbound') : r < inbound'[i].turn,
           UNCHANGED <<turns, turn>>
    PROVE  Order'
<1>0. /\ outbound' = outbound /\ reply' = reply
      /\ last' = r
      /\ \A u \in Threads : pc'[u] \notin Holding
      /\ "send" \in Holding /\ "gather" \in Holding
  BY DEF Take, ReturnAnswer, Leave, SemaphoreConserved, TypeOK, Holding
<1>1. OutboundOrder' /\ ReplyOrder'
  BY <1>0 DEF Order, OutboundOrder, ReplyOrder
<1>2. InboundOrder'
  BY <1>0, TakeOrder DEF Order, InboundOrder, InTransit, After
<1>3. TurnOrder' /\ PacketOrder'
  BY <1>0 DEF TurnOrder, PacketOrder
<1> QED
  BY <1>1, <1>2, <1>3 DEF Order

\* What GatherLast and RecvWhole return is newer than anything returned before,
\* and no part of it is left.
LEMMA WholeIsNew ==
    ASSUME TypeOK, SemaphoreConserved, Order, NEW t \in Threads,
           RecvWhole(t)
    PROVE  LET r == Head(inbound).turn
           IN  /\ r \in Nat /\ last < r /\ r <= reply.turn
               /\ r = reply.turn => reply.sent = reply.of
               /\ \A i \in 1..Len(inbound') : r < inbound'[i].turn
<1> DEFINE d == Head(inbound)
<1>1. Take /\ d.of = 1
  BY DEF RecvWhole
<1>2. /\ d.turn \in Nat /\ d.idx \in Nat /\ d.of \in Nat /\ InTransit(d)
      /\ \A i \in 1..Len(inbound') : After(d.turn, d.idx, d.of, inbound'[i])
      /\ \A i \in 1..Len(inbound') : InTransit(inbound'[i])
  BY <1>1, TakeOrder DEF Order
<1>3. reply.sent \in Nat /\ reply.of \in Nat /\ reply.turn \in Nat
  BY DEF TypeOK
<1>4. \A i \in 1..Len(inbound') :
          inbound'[i].idx \in Nat /\ inbound'[i].of \in Nat /\ inbound'[i].turn \in Nat
  BY <1>1, TypeInvariantTake
<1>5. d.turn = reply.turn => reply.sent = reply.of
  BY <1>1, <1>2, <1>3 DEF InTransit, Order, ReplyOrder
<1>6. \A i \in 1..Len(inbound') : d.turn < inbound'[i].turn
  BY <1>1, <1>2, <1>4 DEF InTransit, After
<1> HIDE DEF d
<1>7. last < d.turn /\ d.turn <= reply.turn
  BY <1>2 DEF InTransit
<1> QED
  BY <1>2, <1>5, <1>6, <1>7 DEF d

\* The turn of a reassembled answer is newer than any returned before.
LEMMA LastIsNew ==
    ASSUME TypeOK, SemaphoreConserved, Order, NEW t \in Threads,
           GatherLast(t)
    PROVE  LET r == packet[t].turn
           IN  /\ r \in Nat /\ last < r /\ r <= reply.turn
               /\ r = reply.turn => reply.sent = reply.of
               /\ \A i \in 1..Len(inbound') : r < inbound'[i].turn
<1> DEFINE d == Head(inbound)
<1>1. Take /\ d.turn = packet[t].turn /\ d.idx = packet[t].got + 1
      /\ d.idx = packet[t].of
  BY DEF GatherLast, Continues
<1>2. /\ d.turn \in Nat /\ d.idx \in Nat /\ d.of \in Nat /\ InTransit(d)
      /\ \A i \in 1..Len(inbound') : After(d.turn, d.idx, d.of, inbound'[i])
      /\ \A i \in 1..Len(inbound') : InTransit(inbound'[i])
  BY <1>1, TakeOrder DEF Order
<1>3. reply.sent \in Nat /\ reply.of \in Nat /\ reply.turn \in Nat /\ last \in Nat
  BY DEF TypeOK
<1>4. \A i \in 1..Len(inbound') :
          inbound'[i].idx \in Nat /\ inbound'[i].of \in Nat /\ inbound'[i].turn \in Nat
  BY <1>1, TypeInvariantTake
<1>5. 1 \in 1..Len(inbound) /\ d = inbound[1]
  BY <1>1, TakeLemma DEF TypeOK
<1>6. d.of = packet[t].of
  <2>1. pc[t] = "gather" /\ packet[t].turn # 0
    BY <1>1, <1>2, <1>3 DEF GatherLast, InTransit
  <2>2. After(packet[t].turn, packet[t].got, packet[t].of, inbound[1])
    BY <1>5, <2>1 DEF Order, PacketOrder
  <2> QED
    BY <1>1, <1>2, <1>5, <2>2 DEF After
<1>7. d.turn = reply.turn => reply.sent = reply.of
  BY <1>1, <1>2, <1>3, <1>6 DEF InTransit, Order, ReplyOrder
<1>8. \A i \in 1..Len(inbound') : d.turn < inbound'[i].turn
  BY <1>1, <1>2, <1>4, <1>6 DEF InTransit, After
<1>9. last < d.turn /\ d.turn <= reply.turn
  BY <1>2 DEF InTransit
<1> QED
  BY <1>1, <1>2, <1>7, <1>8, <1>9

\* Every step keeps requests, replies and datagrams in the order of the turns.
LEMMA OrderInvariant ==
    TypeOK /\ SemaphoreConserved /\ Order /\ [Next]_vars => Order'
<1> SUFFICES ASSUME TypeOK, SemaphoreConserved, Order, [Next]_vars PROVE Order'
  OBVIOUS
<1> USE DEF linkVars, callVars, netVars
<1>0. /\ "idle" \notin Holding /\ "wait" \notin Holding /\ "drainwait" \notin Holding
      /\ Holding = {"send", "recv", "gather", "drain"}
      /\ \A t \in Threads : pc[t] \in Waiting => pc[t] \notin Holding
  BY DEF Holding, Waiting
<1>t. /\ last \in Nat /\ turns \in Nat
      /\ reply.turn \in Nat /\ reply.sent \in Nat /\ reply.of \in Nat
      /\ outbound \in Seq(Nat) /\ Len(outbound) \in Nat
      /\ \A i \in 1..Len(outbound) : outbound[i] \in Nat
      /\ pc \in [Threads -> {"idle"} \cup Waiting \cup Holding]
      /\ turn \in [Threads -> Nat]
      /\ packet \in [Threads -> PacketType]
  BY DEF TypeOK
<1>p. \A t \in Threads :
          packet[t].turn \in Nat /\ packet[t].got \in Nat /\ packet[t].of \in Nat
  BY <1>t DEF PacketType
<1>1. ASSUME NEW host \in Hosts, NEW timeout \in Timeouts, Connect(host, timeout)
      PROVE  Order'
  BY <1>1, OrderOutside DEF Connect
<1>2. ASSUME NEW t \in Threads, Enter(t) \/ EnterClear(t) PROVE Order'
  BY <1>0, <1>t, <1>2, OrderOutside DEF Enter, EnterClear
<1>3. ASSUME NEW t \in Threads, Acquire(t) PROVE Order'
  <2>1. /\ turns' = turns + 1 /\ turn' = [turn EXCEPT ![t] = turns + 1]
        /\ UNCHANGED <<outbound, reply, inbound, last, packet>>
        /\ \A u \in Threads : u # t => pc'[u] = pc[u] /\ pc[u] \notin Holding
        /\ pc'[t] # "gather"
    BY <1>0, <1>t, <1>3 DEF Acquire, SemaphoreConserved
  <2>2. OutboundOrder'
    BY <1>t, <2>1 DEF Order, OutboundOrder
  <2>3. ReplyOrder'
    BY <1>t, <2>1 DEF Order, ReplyOrder
  <2>4. InboundOrder'
    BY <2>1 DEF Order, InboundOrder, InTransit, After
  <2>5. TurnOrder'
    BY <1>0, <1>t, <2>1 DEF Order, OutboundOrder, ReplyOrder, TurnOrder
  <2>6. PacketOrder'
    BY <1>0, <2>1 DEF PacketOrder
  <2> QED
    BY <2>2, <2>3, <2>4, <2>5, <2>6 DEF Order
<1>4. ASSUME NEW t \in Threads, Proceed(t) PROVE Order'
  <2>1. CASE SendRequest(t)
    <3>1. /\ outbound' = Append(outbound, turn[t]) /\ turn[t] = turns
          /\ UNCHANGED <<reply, inbound, last, turns, turn, packet>>
          /\ \A u \in Threads : u # t => pc'[u] = pc[u] /\ pc[u] \notin Holding
          /\ pc'[t] = "recv"
      BY <1>0, <1>t, <2>1 DEF SendRequest, SemaphoreConserved, Order, TurnOrder
    <3>2. /\ Len(outbound') = Len(outbound) + 1
          /\ \A i \in 1..Len(outbound) : outbound'[i] = outbound[i]
          /\ outbound'[Len(outbound) + 1] = turns
      BY <1>t, <3>1, AppendProperties
    <3>3. reply.turn < turns /\ \A i \in 1..Len(outbound) : outbound[i] < turns
      BY <2>1 DEF SendRequest, Order, TurnOrder
    <3>4. \A i \in 1..Len(outbound') : i \in 1..Len(outbound) \/ i = Len(outbound) + 1
      BY <1>t, <3>2
    <3>5. OutboundOrder'
      BY <1>t, <3>1, <3>2, <3>3, <3>4 DEF Order, OutboundOrder
    <3>6. ReplyOrder' /\ InboundOrder'
      BY <3>1 DEF Order, ReplyOrder, InboundOrder, InTransit, After
    <3>7. TurnOrder' /\ PacketOrder'
      BY <1>0, <3>1 DEF Order, TurnOrder, PacketOrder
    <3> QED
      BY <3>5, <3>6, <3>7 DEF Order
  <2>2. CASE SendFails(t) \/ Timeout(t) \/ DrainEnd(t)
    <3>1. /\ UNCHANGED <<outbound, reply, inbound, last, turns, turn>>
          /\ pc' = [pc EXCEPT ![t] = "idle"]
          /\ packet' = [packet EXCEPT ![t] = NoPacket]
      BY <2>2 DEF SendFails, Timeout, DrainEnd, Leave
    <3> QED
      BY <1>0, <1>t, <3>1, OrderOutside
  <2>3. CASE RecvWhole(t)
    <3>1. Take /\ pc[t] \in Holding /\ ReturnAnswer(t, Head(inbound).turn)
          /\ UNCHANGED <<turns, turn>>
      BY <1>0, <2>3 DEF RecvWhole
    <3> QED
      BY <2>3, <3>1, WholeIsNew, OrderReturn
  <2>4. CASE GatherLast(t)
    <3>1. Take /\ pc[t] \in Holding /\ ReturnAnswer(t, packet[t].turn)
          /\ UNCHANGED <<turns, turn>>
      BY <1>0, <2>4 DEF GatherLast
    <3> QED
      BY <2>4, <3>1, LastIsNew, OrderReturn
  <2>5. CASE RecvFirst(t)
    <3> DEFINE d == Head(inbound)
    <3>1. /\ Take /\ d.idx = 1
          /\ UNCHANGED <<last, turns, turn>>
          /\ pc' = [pc EXCEPT ![t] = "gather"]
          /\ packet'[t] = [turn |-> d.turn, got |-> 1, of |-> d.of]
          /\ \A u \in Threads : u # t => pc'[u] \notin Holding
          /\ pc[t] \in Holding
      BY <1>0, <1>t, <2>5 DEF RecvFirst, Gather, SemaphoreConserved
    <3>2. reply' = reply
      BY <3>1 DEF Take
    <3>3. PacketOrder'
      BY <1>0, <3>1, <3>2, TakeOrder DEF Order, PacketOrder, InTransit, After
    <3> QED
      BY <1>0, <1>t, <3>1, <3>3, OrderTake
  <2>6. CASE GatherNext(t)
    <3> DEFINE d == Head(inbound)
               p == packet[t]
    <3>1. /\ Take /\ d.idx = p.got + 1 /\ d.turn = p.turn /\ pc[t] = "gather"
          /\ UNCHANGED <<last, turns, turn>>
          /\ pc' = [pc EXCEPT ![t] = "gather"]
          /\ packet' = [packet EXCEPT ![t] = [p EXCEPT !.got = @ + 1]]
          /\ \A u \in Threads : u # t => pc'[u] \notin Holding
          /\ pc[t] \in Holding
      BY <1>0, <1>t, <2>6 DEF GatherNext, Gather, Continues, SemaphoreConserved
    <3>2. reply' = reply
      BY <3>1 DEF Take
    <3>3. p \in PacketType
      BY <1>t
    <3>4. /\ packet'[t].turn = p.turn /\ packet'[t].got = p.got + 1
          /\ packet'[t].of = p.of
      BY <1>t, <3>1, <3>3 DEF PacketType
    <3>5. 1 \in 1..Len(inbound) /\ d = inbound[1]
      BY <3>1, TakeLemma DEF TypeOK
    <3>6. /\ d.turn \in Nat /\ d.idx \in Nat /\ d.of \in Nat /\ InTransit(d)
          /\ \A i \in 1..Len(inbound') : After(d.turn, d.idx, d.of, inbound'[i])
      BY <3>1, TakeOrder DEF Order
    <3>7. p.turn # 0
      BY <1>t, <3>1, <3>6 DEF InTransit
    <3>8. d.of = p.of
      <4>1. After(p.turn, p.got, p.of, inbound[1])
        BY <3>1, <3>5, <3>7 DEF Order, PacketOrder
      <4> QED
        BY <3>1, <3>5, <3>6, <4>1 DEF After
    <3>9. PacketOrder'
      BY <1>0, <3>1, <3>2, <3>4, <3>6, <3>8 DEF PacketOrder, InTransit, After
    <3> QED
      BY <1>0, <1>t, <3>1, <3>9, OrderTake
  <2>7. CASE RecvStray(t) \/ GatherForeign(t)
    <3>1. /\ Take /\ pc[t] \in {"recv", "gather"}
          /\ UNCHANGED <<last, turns, turn>>
          /\ \A u \in Threads : u # t => pc'[u] = pc[u] /\ pc'[u] \notin Holding
          /\ \/ pc'[t] = "gather" /\ packet'[t].turn = 0
             \/ pc'[t] = "idle"
             \/ pc' = pc /\ packet' = packet /\ pc[t] = "recv"
      BY <1>0, <1>t, <2>7 DEF RecvStray, GatherForeign, Gather, ReturnMixed, Leave,
                               SemaphoreConserved
    <3>2. PacketOrder'
      BY <1>0, <3>1 DEF PacketOrder
    <3> QED
      BY <1>0, <3>1, <3>2, OrderTake
  <2>8. CASE DrainOne(t)
    <3>1. /\ Take /\ pc[t] = "drain"
          /\ UNCHANGED <<pc, packet, last, turns, turn>>
          /\ \A u \in Threads : u # t => pc[u] \notin Holding
      BY <1>0, <2>8 DEF DrainOne, SemaphoreConserved
    <3>2. PacketOrder'
      BY <1>0, <3>1 DEF PacketOrder
    <3> QED
      BY <3>1, <3>2, OrderTake
  <2> QED
    BY <1>4, <2>1, <2>2, <2>3, <2>4, <2>5, <2>6, <2>7, <2>8 DEF Proceed
<1>5. ASSUME Environment PROVE Order'
  <2>0. ASSUME outbound # <<>>
        PROVE  /\ Tail(outbound) \in Seq(Nat)
               /\ Len(Tail(outbound)) = Len(outbound) - 1
               /\ \A i \in 1..Len(Tail(outbound)) :
                     Tail(outbound)[i] = outbound[i + 1] /\ i + 1 \in 1..Len(outbound)
               /\ Head(outbound) = outbound[1] /\ 1 \in 1..Len(outbound)
    BY <1>t, <2>0, HeadTailProperties, EmptySeq
  <2>1. CASE LoseRequest
    <3>1. /\ outbound # <<>> /\ outbound' = Tail(outbound)
          /\ UNCHANGED <<reply, inbound, last, turns, turn, pc, packet>>
      BY <2>1 DEF LoseRequest
    <3>2. OutboundOrder' /\ TurnOrder'
      BY <1>t, <2>0, <3>1 DEF Order, OutboundOrder, TurnOrder
    <3>3. ReplyOrder' /\ InboundOrder' /\ PacketOrder'
      BY <3>1 DEF Order, ReplyOrder, InboundOrder, InTransit, PacketOrder, After
    <3> QED
      BY <3>2, <3>3 DEF Order
  <2>2. ASSUME NEW of \in 1..MaxFrags, DeviceAnswers(of) PROVE Order'
    <3>1. /\ outbound # <<>> /\ outbound' = Tail(outbound)
          /\ reply'.turn = outbound[1] /\ reply'.sent = 0 /\ reply'.of = of
          /\ UNCHANGED <<inbound, last, turns, turn, pc, packet>>
          /\ reply.sent = reply.of
      BY <2>0, <2>2 DEF DeviceAnswers
    <3>2. /\ outbound[1] \in Nat /\ reply.turn < outbound[1] /\ outbound[1] <= turns
          /\ of \in Nat
      BY <1>t, <2>0, <3>1, BoundsAssumption DEF Order, OutboundOrder
    <3>3. OutboundOrder'
      <4>1. \A i \in 1..Len(outbound') : outbound[1] < outbound'[i] /\ outbound'[i] <= turns
        BY <1>t, <2>0, <3>1 DEF Order, OutboundOrder
      <4>2. \A i, j \in 1..Len(outbound') : i < j => outbound'[i] < outbound'[j]
        BY <1>t, <2>0, <3>1 DEF Order, OutboundOrder
      <4> QED
        BY <3>1, <4>1, <4>2 DEF OutboundOrder
    <3>4. ReplyOrder'
      BY <1>t, <3>1, <3>2 DEF Order, ReplyOrder
    <3>5. InboundOrder'
      <4>1. ASSUME NEW i \in 1..Len(inbound)
            PROVE  /\ 1 <= inbound[i].idx /\ inbound[i].idx <= inbound[i].of
                   /\ last < inbound[i].turn /\ inbound[i].turn < reply'.turn
        <5>1. InTransit(inbound[i]) /\ inbound[i].turn \in Nat
          BY InboundTyped DEF Order, InboundOrder
        <5> QED
          BY <1>t, <3>1, <3>2, <5>1 DEF InTransit
      <4>2. \A i \in 1..Len(inbound) : inbound[i].turn \in Nat /\ reply'.turn \in Nat
        BY <3>1, <3>2, InboundTyped
      <4>3. \A i \in 1..Len(inbound) : InTransit(inbound[i])'
        BY <3>1, <4>1, <4>2 DEF InTransit
      <4> QED
        BY <3>1, <4>3 DEF Order, InboundOrder, After
    <3>6. TurnOrder'
      BY <1>t, <2>0, <3>1 DEF Order, OutboundOrder, TurnOrder
    <3>7. PacketOrder'
      <4>1. \A i \in 1..Len(inbound') : inbound'[i] = inbound[i]
        BY <3>1
      <4>2. ASSUME NEW u \in Threads, pc'[u] = "gather", packet'[u].turn # 0
            PROVE  /\ last < packet[u].turn
                   /\ packet[u].turn <= reply.turn
                   /\ \A i \in 1..Len(inbound) :
                         After(packet[u].turn, packet[u].got, packet[u].of, inbound[i])
        BY <3>1, <4>2 DEF Order, PacketOrder
      <4>3. ASSUME NEW u \in Threads, pc'[u] = "gather", packet'[u].turn # 0
            PROVE  last' < packet'[u].turn /\ packet'[u].turn < reply'.turn
        BY <1>t, <1>p, <3>1, <3>2, <4>2, <4>3
      <4>4. ASSUME NEW u \in Threads PROVE packet'[u].turn \in Nat /\ reply'.turn \in Nat
        BY <1>p, <3>1, <3>2
      <4> QED
        BY <3>1, <4>2, <4>3, <4>4 DEF PacketOrder, After
    <3> QED
      BY <3>3, <3>4, <3>5, <3>6, <3>7 DEF Order
  <2>3. ASSUME reply.sent < reply.of, reply'.turn = reply.turn,
               reply'.sent = reply.sent + 1, reply'.of = reply.of,
               UNCHANGED <<outbound, last, turns, turn, pc, packet>>
        PROVE  /\ OutboundOrder' /\ ReplyOrder' /\ TurnOrder'
               /\ \A i \in 1..Len(inbound) :
                     /\ last' < inbound[i].turn /\ inbound[i].turn <= reply'.turn
                     /\ inbound[i].turn = reply'.turn =>
                           inbound[i].idx <= reply'.sent /\ inbound[i].of = reply'.of
                     /\ 1 <= inbound[i].idx /\ inbound[i].idx <= inbound[i].of
    <3>1. last # reply.turn
      BY <1>t, <2>3 DEF Order, ReplyOrder
    <3>2. OutboundOrder' /\ ReplyOrder' /\ TurnOrder'
      BY <1>t, <2>3, <3>1 DEF Order, OutboundOrder, ReplyOrder, TurnOrder
    <3>3. ASSUME NEW i \in 1..Len(inbound)
          PROVE  /\ last' < inbound[i].turn /\ inbound[i].turn <= reply'.turn
                 /\ inbound[i].turn = reply'.turn =>
                       inbound[i].idx <= reply'.sent /\ inbound[i].of = reply'.of
                 /\ 1 <= inbound[i].idx /\ inbound[i].idx <= inbound[i].of
      <4>1. InTransit(inbound[i]) /\ inbound[i].idx \in Nat
        BY InboundTyped DEF Order, InboundOrder
      <4> QED
        BY <1>t, <2>3, <4>1 DEF InTransit
    <3> QED
      BY <3>2, <3>3
  <2>r. reply.sent < reply.of /\ reply' = [reply EXCEPT !.sent = @ + 1]
          => /\ reply'.turn = reply.turn
             /\ reply'.sent = reply.sent + 1 /\ reply'.of = reply.of
    <3>1. reply \in [turn : Nat, sent : Nat, of : Nat]
      BY DEF TypeOK
    <3> QED
      BY <3>1
  <2>3p. ASSUME reply'.turn = reply.turn, reply'.sent = reply.sent + 1,
                reply'.of = reply.of, UNCHANGED <<last, pc, packet>>,
                NEW u \in Threads, pc'[u] = "gather", packet'[u].turn # 0
         PROVE  /\ last' < packet'[u].turn /\ packet'[u].turn <= reply'.turn
                /\ packet'[u].turn = reply'.turn =>
                      packet'[u].got <= reply'.sent /\ packet'[u].of = reply'.of
                /\ packet'[u].turn = reply.turn => packet'[u].got < reply'.sent
                /\ \A i \in 1..Len(inbound) :
                      After(packet'[u].turn, packet'[u].got, packet'[u].of, inbound[i])
    BY <1>t, <1>p, <2>3p DEF Order, PacketOrder
  <2>4. CASE LoseDatagram
    <3>1. /\ reply.sent < reply.of
          /\ reply'.turn = reply.turn /\ reply'.sent = reply.sent + 1
          /\ reply'.of = reply.of
          /\ UNCHANGED <<outbound, inbound, last, turns, turn, pc, packet>>
      BY <2>4, <2>r DEF LoseDatagram
    <3>2. OutboundOrder' /\ ReplyOrder' /\ TurnOrder'
      BY <2>3, <3>1
    <3>3. InboundOrder'
      BY <2>3, <3>1 DEF Order, InboundOrder, InTransit, After
    <3>4. PacketOrder'
      BY <2>3p, <3>1 DEF PacketOrder
    <3> QED
      BY <3>2, <3>3, <3>4 DEF Order
  <2>5. CASE DeviceSends
    <3> DEFINE e == [turn |-> reply.turn, idx |-> reply.sent + 1, of |-> reply.of]
    <3>1. /\ reply.sent < reply.of
          /\ reply'.turn = reply.turn /\ reply'.sent = reply.sent + 1
          /\ reply'.of = reply.of
          /\ inbound' = Append(inbound, e)
          /\ UNCHANGED <<outbound, last, turns, turn, pc, packet>>
      BY <2>5, <2>r DEF DeviceSends
    <3>2. OutboundOrder' /\ ReplyOrder' /\ TurnOrder'
      BY <2>3, <3>1
    <3>3. /\ Len(inbound) \in Nat
          /\ Len(inbound') = Len(inbound) + 1
          /\ \A i \in 1..Len(inbound) : inbound'[i] = inbound[i]
          /\ inbound'[Len(inbound) + 1] = e
          /\ \A i \in 1..Len(inbound') : i \in 1..Len(inbound) \/ i = Len(inbound) + 1
      <4>1. inbound \in Seq(DatagramType) /\ e \in DatagramType
        BY <1>t DEF TypeOK, DatagramType
      <4> QED
        BY <3>1, <4>1, AppendProperties
    <3>4. last < reply.turn
      BY <1>t, <3>1 DEF Order, ReplyOrder
    <3>5. ASSUME NEW i \in 1..Len(inbound') PROVE InTransit(inbound[i])'
      <4>1. CASE i \in 1..Len(inbound)
        BY <2>3, <3>1, <3>3, <4>1 DEF InTransit
      <4>2. CASE i = Len(inbound) + 1
        <5>1. /\ inbound'[i].turn = reply.turn /\ inbound'[i].idx = reply.sent + 1
              /\ inbound'[i].of = reply.of
          BY <3>3, <4>2
        <5> QED
          BY <1>t, <3>1, <3>4, <5>1 DEF InTransit
      <4> QED
        BY <3>3, <4>1, <4>2
    <3>6. \A i \in 1..Len(inbound) :
              After(inbound[i].turn, inbound[i].idx, inbound[i].of, e)
      BY <1>t, InboundTyped DEF Order, InboundOrder, InTransit, After
    <3>7. InboundOrder'
      <4>1. ASSUME NEW i \in 1..Len(inbound'), NEW j \in 1..Len(inbound'), i < j
            PROVE  After(inbound'[i].turn, inbound'[i].idx, inbound'[i].of, inbound'[j])
        <5>1. i \in 1..Len(inbound)
          BY <3>3, <4>1
        <5>2. CASE j \in 1..Len(inbound)
          BY <3>3, <4>1, <5>1, <5>2 DEF Order, InboundOrder
        <5>3. CASE j = Len(inbound) + 1
          BY <3>3, <3>6, <5>1, <5>3
        <5> QED
          BY <3>3, <5>2, <5>3
      <4> QED
        BY <3>5, <4>1 DEF InboundOrder, After
    <3>8. PacketOrder'
      BY <1>t, <1>p, <2>3p, <3>1, <3>3 DEF PacketOrder, After
    <3> QED
      BY <3>2, <3>7, <3>8 DEF Order
  <2> QED
    BY <1>5, <2>1, <2>2, <2>4, <2>5 DEF Environment
<1>6. CASE UNCHANGED vars
  BY <1>6, OrderOutside DEF vars
<1> QED
  BY <1>1, <1>2, <1>3, <1>4, <1>5, <1>6 DEF Next, Call, GetTurn, Done

\* Nothing is on its way and nothing was answered at the start.
LEMMA InitOrder == Init => Order /\ NoAnswerYet
<1> SUFFICES ASSUME Init PROVE Order /\ NoAnswerYet
  OBVIOUS
<1>1. Len(outbound) = 0 /\ Len(inbound) = 0
  BY DEF Init
<1>2. /\ reply.turn = 0 /\ reply.sent = 0 /\ reply.of = 0 /\ last = 0 /\ turns = 0
      /\ \A t \in Threads : pc[t] = "idle"
  BY DEF Init, NoReply
<1>3. OutboundOrder /\ ReplyOrder /\ InboundOrder
  BY <1>1, <1>2 DEF OutboundOrder, ReplyOrder, InboundOrder
<1>4. TurnOrder /\ PacketOrder /\ NoAnswerYet
  BY <1>2 DEF TurnOrder, PacketOrder, NoAnswerYet, Holding
<1> QED
  BY <1>3, <1>4 DEF Order

\* Every step leaves a call that has not returned without an answer.
LEMMA NoAnswerInvariant == TypeOK /\ NoAnswerYet /\ [Next]_vars => NoAnswerYet'
<1> SUFFICES ASSUME TypeOK, NoAnswerYet, [Next]_vars PROVE NoAnswerYet'
  OBVIOUS
<1> USE DEF linkVars, callVars, netVars, NoAnswerYet
<1>t. pc \in [Threads -> {"idle"} \cup Waiting \cup Holding]
      /\ answer \in [Threads -> Nat \cup {Junk}]
  BY DEF TypeOK
<1>w. "idle" \notin Waiting
  BY DEF Waiting
<1>1. ASSUME NEW t \in Threads, NEW r \in Int, Leave(t, r) PROVE NoAnswerYet'
  BY <1>t, <1>1 DEF Leave
<1>2. ASSUME NEW t \in Threads, pc[t] # "idle", UNCHANGED answer,
             \A u \in Threads : u # t => pc'[u] = pc[u]
      PROVE  NoAnswerYet'
  BY <1>2
<1>3. ASSUME UNCHANGED <<pc, answer>> PROVE NoAnswerYet'
  BY <1>3
<1>4. ASSUME NEW t \in Threads, Enter(t) \/ EnterClear(t) PROVE NoAnswerYet'
  BY <1>t, <1>4 DEF Enter, EnterClear
<1>5. ASSUME NEW t \in Threads, Acquire(t) PROVE NoAnswerYet'
  BY <1>t, <1>w, <1>2, <1>5 DEF Acquire
<1>6. ASSUME NEW t \in Threads, Proceed(t) PROVE NoAnswerYet'
  <2>0. NoAnswer \in Int /\ Junk \in Int
    BY DEF NoAnswer, Junk
  <2>1. CASE SendRequest(t) \/ RecvFirst(t) \/ GatherNext(t)
    BY <1>t, <1>2, <2>1 DEF SendRequest, RecvFirst, GatherNext, Gather
  <2>2. CASE SendFails(t) \/ Timeout(t) \/ DrainEnd(t)
    BY <1>1, <2>0, <2>2 DEF SendFails, Timeout, DrainEnd
  <2>3. CASE RecvWhole(t)
    <3>1. Leave(t, Head(inbound).turn) /\ Take
      BY <2>3 DEF RecvWhole, ReturnAnswer
    <3>2. Head(inbound).turn \in Int
      <4>1. Head(inbound) \in DatagramType
        BY <3>1, TakeLemma DEF TypeOK
      <4> QED
        BY <4>1 DEF DatagramType
    <3> QED
      BY <1>1, <3>1, <3>2
  <2>4. CASE GatherLast(t)
    <3>1. Leave(t, packet[t].turn) /\ packet[t] \in PacketType
      BY <2>4 DEF GatherLast, ReturnAnswer, TypeOK
    <3>2. packet[t].turn \in Int
      BY <3>1 DEF PacketType
    <3> QED
      BY <1>1, <3>1, <3>2
  <2>5. CASE RecvStray(t) \/ GatherForeign(t)
    <3>1. CASE ReturnMixed(t)
      BY <1>1, <2>0, <3>1 DEF ReturnMixed
    <3>2. CASE UNCHANGED <<pc, answer>>
      BY <1>3, <3>2
    <3>3. CASE \E p : Gather(t, p)
      BY <1>t, <1>2, <2>5, <3>3 DEF Gather, RecvStray, GatherForeign
    <3> QED
      BY <2>5, <3>1, <3>2, <3>3 DEF RecvStray, GatherForeign
  <2>6. CASE DrainOne(t)
    BY <1>3, <2>6 DEF DrainOne
  <2> QED
    BY <1>6, <2>1, <2>2, <2>3, <2>4, <2>5, <2>6 DEF Proceed
<1> QED
  BY <1>3, <1>4, <1>5, <1>6
     DEF Next, Call, GetTurn, Done, Environment, LoseRequest, DeviceAnswers,
         DeviceSends, LoseDatagram, Connect, vars

-----------------------------------------------------------------------------
(* The handler implements ConnectionHandler.                                *)

IInv == TypeOK /\ SemaphoreConserved /\ Order /\ NoAnswerYet

\* The inductive invariant holds: types, the semaphore, the order of turns.
LEMMA IInvInvariant == Spec => []IInv
<1>1. Init => IInv
  BY InitTyped, InitOrder DEF IInv
<1>2. IInv /\ [Next]_vars => IInv'
  BY TypeInvariant, SemaphoreInvariant, OrderInvariant, NoAnswerInvariant DEF IInv
<1> QED
  BY <1>1, <1>2, PTL DEF Spec

phase == [t \in Threads |-> PhaseOf(t)]

\* What the mapping makes of the places in a call.
LEMMA PhaseLemma ==
    /\ \A t \in Threads : phase[t] = PhaseOf(t)
    /\ \A t \in Threads : pc[t] = "idle" => PhaseOf(t) = "idle"
    /\ \A t \in Threads : pc[t] \in Waiting => PhaseOf(t) = "waiting"
    /\ \A t \in Threads : pc[t] \in Holding => PhaseOf(t) = "holding"
BY DEF phase, PhaseOf, Waiting, Holding

\* How a step of the code looks through the mapping.
LEMMA PhaseStep ==
    ASSUME TypeOK, NEW t \in Threads, \A u \in Threads : u # t => pc'[u] = pc[u],
           NEW s, PhaseOf(t)' = s
    PROVE  phase' = [phase EXCEPT ![t] = s]
<1>1. \A u \in Threads : u # t => PhaseOf(u)' = PhaseOf(u)
  BY DEF PhaseOf
<1> QED
  BY <1>1 DEF phase

\* Every step of the handler is a step of ConnectionHandler or a stutter.
LEMMA RefinementStep ==
    ASSUME IInv, [Next]_vars PROVE [Handler!Next]_(Handler!vars)
<1> USE DEF linkVars, callVars, netVars
<1>0. /\ TypeOK /\ SemaphoreConserved /\ Order /\ NoAnswerYet
      /\ "idle" \notin Holding /\ "idle" \notin Waiting
      /\ "wait" \in Waiting /\ "drainwait" \in Waiting
      /\ Holding = {"send", "recv", "gather", "drain"}
      /\ \A t \in Threads : pc[t] \in Waiting => pc[t] \notin Holding
  BY DEF IInv, Holding, Waiting
<1>t. pc \in [Threads -> {"idle"} \cup Waiting \cup Holding]
  BY <1>0 DEF TypeOK
<1>d. NoAnswer = Handler!NoAnswer /\ Junk = Handler!Junk
  BY DEF NoAnswer, Junk, Handler!NoAnswer, Handler!Junk
<1>p. /\ \A t \in Threads : pc'[t] = "idle" => PhaseOf(t)' = "idle"
      /\ \A t \in Threads : pc'[t] \in Waiting => PhaseOf(t)' = "waiting"
      /\ \A t \in Threads : pc'[t] \in Holding => PhaseOf(t)' = "holding"
  BY DEF PhaseOf, Waiting, Holding
\* Stutters: the thread stays where it is for the abstract handler.
<1>1. ASSUME UNCHANGED <<turns, last, answer, pc>> PROVE UNCHANGED Handler!vars
  BY <1>1 DEF Handler!vars, PhaseOf
<1>2. ASSUME NEW t \in Threads, pc[t] \in Holding, pc'[t] \in Holding,
             \A u \in Threads : u # t => pc'[u] = pc[u],
             UNCHANGED <<turns, last, answer>>
      PROVE  UNCHANGED Handler!vars
  <2>1. phase' = [phase EXCEPT ![t] = "holding"]
    BY <1>0, <1>p, <1>2, PhaseStep
  <2>2. phase[t] = "holding"
    BY <1>2, PhaseLemma
  <2>3. phase' = phase
    BY <2>1, <2>2 DEF phase
  <2> QED
    BY <1>2, <2>3 DEF Handler!vars, phase
\* A call returns.
<1>3. ASSUME NEW t \in Threads, pc[t] \in Holding, NEW r, Leave(t, r)
      PROVE  /\ phase[t] = "holding"
             /\ phase' = [phase EXCEPT ![t] = "idle"]
             /\ answer' = [answer EXCEPT ![t] = r]
  <2>1. /\ pc'[t] = "idle" /\ \A u \in Threads : u # t => pc'[u] = pc[u]
        /\ answer' = [answer EXCEPT ![t] = r]
    BY <1>t, <1>3 DEF Leave
  <2>2. phase' = [phase EXCEPT ![t] = "idle"]
    BY <1>0, <1>p, <2>1, PhaseStep
  <2> QED
    BY <1>3, <2>1, <2>2, PhaseLemma
<1>4. ASSUME NEW t \in Threads, pc[t] \in Holding, Leave(t, NoAnswer),
             UNCHANGED <<turns, last>>
      PROVE  Handler!End(t)
  <2>1. answer' = answer
    BY <1>0, <1>3, <1>4 DEF NoAnswerYet, TypeOK
  <2> QED
    BY <1>3, <1>4, <2>1 DEF Handler!End, phase
<1>5. ASSUME NEW t \in Threads, pc[t] \in Holding, Leave(t, Junk),
             UNCHANGED <<turns, last>>
      PROVE  Handler!DeliverJunk(t)
  BY <1>3, <1>5, <1>d DEF Handler!DeliverJunk, phase
<1>6. ASSUME NEW t \in Threads, pc[t] \in Holding, NEW r \in Nat, ReturnAnswer(t, r),
             last < r, r <= reply.turn, UNCHANGED turns
      PROVE  r \in 1..turns /\ Handler!Deliver(t, r)
  <2>1. r <= turns /\ last \in Nat /\ r \in 1..turns
    BY <1>0, <1>6 DEF Order, ReplyOrder, TypeOK
  <2>2. /\ phase[t] = "holding" /\ phase' = [phase EXCEPT ![t] = "idle"]
        /\ answer' = [answer EXCEPT ![t] = r] /\ last' = r
    BY <1>3, <1>6 DEF ReturnAnswer
  <2> QED
    BY <1>6, <2>1, <2>2 DEF Handler!Deliver, phase
<1>7. ASSUME NEW t \in Threads, Enter(t) \/ EnterClear(t) PROVE Handler!Enter(t)
  <2>1. /\ pc[t] = "idle" /\ pc'[t] \in Waiting
        /\ \A u \in Threads : u # t => pc'[u] = pc[u]
        /\ answer' = [answer EXCEPT ![t] = NoAnswer]
        /\ UNCHANGED <<turns, last>>
    BY <1>0, <1>t, <1>7 DEF Enter, EnterClear
  <2>2. phase' = [phase EXCEPT ![t] = "waiting"] /\ phase[t] = "idle"
    BY <1>0, <1>p, <2>1, PhaseStep, PhaseLemma
  <2> QED
    BY <1>d, <2>1, <2>2 DEF Handler!Enter, phase
<1>8. ASSUME NEW t \in Threads, Acquire(t) PROVE Handler!Acquire(t)
  <2>1. /\ pc[t] \in Waiting /\ pc'[t] \in Holding
        /\ \A u \in Threads : u # t => pc'[u] = pc[u]
        /\ turns' = turns + 1 /\ UNCHANGED <<last, answer>>
    BY <1>0, <1>t, <1>8 DEF Acquire
  <2>2. phase' = [phase EXCEPT ![t] = "holding"] /\ phase[t] = "waiting"
    BY <1>0, <1>p, <2>1, PhaseStep, PhaseLemma
  <2>3. \A u \in Threads : pc[u] \notin Holding
    BY <1>0, <1>8 DEF Acquire, SemaphoreConserved
  <2>4. \A u \in Threads : phase[u] # "holding"
    BY <1>t, <2>3, PhaseLemma
  <2> QED
    BY <2>1, <2>2, <2>4 DEF Handler!Acquire, phase
<1>9. ASSUME NEW t \in Threads, Proceed(t) PROVE [Handler!Next]_(Handler!vars)
  <2>1. CASE SendRequest(t) \/ RecvFirst(t) \/ GatherNext(t)
    <3>1. /\ pc[t] \in Holding /\ pc'[t] \in Holding
          /\ \A u \in Threads : u # t => pc'[u] = pc[u]
          /\ UNCHANGED <<turns, last, answer>>
      BY <1>0, <1>t, <2>1 DEF SendRequest, RecvFirst, GatherNext, Gather
    <3> QED
      BY <1>2, <3>1
  <2>2. CASE SendFails(t) \/ Timeout(t) \/ DrainEnd(t)
    <3>1. pc[t] \in Holding /\ Leave(t, NoAnswer) /\ UNCHANGED <<turns, last>>
      BY <1>0, <2>2 DEF SendFails, Timeout, DrainEnd
    <3> QED
      BY <1>4, <3>1 DEF Handler!Next
  <2>3. CASE RecvWhole(t)
    <3> DEFINE r == Head(inbound).turn
    <3>1. r \in Nat /\ last < r /\ r <= reply.turn
      BY <1>0, <2>3, WholeIsNew
    <3>2. pc[t] \in Holding /\ ReturnAnswer(t, r) /\ UNCHANGED turns
      BY <1>0, <2>3 DEF RecvWhole
    <3>3. r \in 1..turns /\ Handler!Deliver(t, r)
      BY <1>6, <3>1, <3>2
    <3> QED
      BY <3>3 DEF Handler!Next
  <2>4. CASE GatherLast(t)
    <3> DEFINE r == packet[t].turn
    <3>1. r \in Nat /\ last < r /\ r <= reply.turn
      BY <1>0, <2>4, LastIsNew
    <3>2. pc[t] \in Holding /\ ReturnAnswer(t, r) /\ UNCHANGED turns
      BY <1>0, <2>4 DEF GatherLast
    <3>3. r \in 1..turns /\ Handler!Deliver(t, r)
      BY <1>6, <3>1, <3>2
    <3> QED
      BY <3>3 DEF Handler!Next
  <2>5. CASE RecvStray(t) \/ GatherForeign(t)
    <3>0. pc[t] \in Holding /\ UNCHANGED turns
      BY <1>0, <2>5 DEF RecvStray, GatherForeign
    <3>1. CASE ReturnMixed(t)
      BY <1>4, <1>5, <3>0, <3>1 DEF ReturnMixed, Handler!Next
    <3>2. CASE UNCHANGED <<callVars, last, upset>>
      BY <1>1, <3>0, <3>2
    <3>3. ASSUME NEW p, Gather(t, p) PROVE UNCHANGED Handler!vars
      <4>1. /\ pc'[t] \in Holding /\ \A u \in Threads : u # t => pc'[u] = pc[u]
            /\ UNCHANGED <<last, answer>>
        BY <1>0, <1>t, <3>3 DEF Gather
      <4> QED
        BY <1>2, <3>0, <4>1
    <3> QED
      BY <2>5, <3>1, <3>2, <3>3 DEF RecvStray, GatherForeign
  <2>6. CASE DrainOne(t)
    BY <1>1, <2>6 DEF DrainOne
  <2> QED
    BY <1>9, <2>1, <2>2, <2>3, <2>4, <2>5, <2>6 DEF Proceed
<1>10. ASSUME Environment \/ Done \/ UNCHANGED vars
              \/ \E host \in Hosts, timeout \in Timeouts : Connect(host, timeout)
       PROVE  UNCHANGED <<turns, last, answer, pc>>
  BY <1>10 DEF Environment, LoseRequest, DeviceAnswers, DeviceSends, LoseDatagram,
               Done, vars, Connect
<1> QED
  BY <1>1, <1>7, <1>8, <1>9, <1>10 DEF Next, Call, GetTurn, Handler!Next

\* The UDP handler keeps the promise of the AmptekConnectionHandler interface:
\* calls are serialised, and an answer of the device is returned at most once
\* and never after a newer one, with any number of threads and any losses.
THEOREM UdpImplementsHandler == Spec => HandlerSpec
<1>1. Init => Handler!Init
  <2> SUFFICES ASSUME Init PROVE Handler!Init
    OBVIOUS
  <2>0. \A t \in Threads : pc[t] = "idle"
    BY DEF Init
  <2>1. \A t \in Threads : PhaseOf(t) = "idle"
    BY <2>0, PhaseLemma
  <2> QED
    <3>1. phase = [t \in Threads |-> "idle"]
      BY <2>1 DEF phase
    <3>2. turns = 0 /\ last = 0 /\ answer = [t \in Threads |-> NoAnswer]
      BY DEF Init
    <3> QED
      BY <3>1, <3>2 DEF Handler!Init, NoAnswer, Handler!NoAnswer, phase
<1>2. IInv /\ [Next]_vars => [Handler!Next]_(Handler!vars)
  BY RefinementStep
<1> QED
  BY <1>1, <1>2, IInvInvariant, PTL DEF Spec, HandlerSpec, Handler!Spec
-----------------------------------------------------------------------------
(* Whose answer a call returns.                                             *)

\* A step other than the start of an exchange puts nothing new on the way.
LEMMA InTransitKept ==
    ASSUME IInv, [Next]_vars, \A t \in Threads : ~(~crashed /\ SendRequest(t)), NEW k
    PROVE  /\ AllOf(k) => AllOf(k)'
           /\ NothingInTransit => NothingInTransit'
<1> USE DEF linkVars, callVars, netVars
<1>0. /\ TypeOK /\ inbound \in Seq(DatagramType) /\ outbound \in Seq(Nat)
      /\ Len(inbound) \in Nat /\ Len(outbound) \in Nat
      /\ reply \in [turn : Nat, sent : Nat, of : Nat]
  BY DEF IInv, TypeOK
<1>1. ASSUME UNCHANGED netVars
      PROVE  (AllOf(k) => AllOf(k)') /\ (NothingInTransit => NothingInTransit')
  BY <1>1 DEF AllOf, NothingInTransit
<1>2. ASSUME Take
      PROVE  (AllOf(k) => AllOf(k)') /\ (NothingInTransit => NothingInTransit')
  <2>1. /\ Len(inbound) > 0
        /\ Len(inbound') = Len(inbound) - 1
        /\ \A i \in 1..Len(inbound') : inbound'[i] = inbound[i + 1]
    BY <1>0, <1>2, TakeLemma
  <2>2. \A i \in 1..Len(inbound') : i + 1 \in 1..Len(inbound)
    BY <1>0, <2>1
  <2>3. outbound' = outbound /\ reply' = reply /\ inbound # <<>>
    BY <1>2 DEF Take
  <2> QED
    BY <2>1, <2>2, <2>3 DEF AllOf, NothingInTransit
<1>3. ASSUME outbound # <<>>, outbound' = Tail(outbound), inbound' = inbound,
             \/ reply' = reply
             \/ reply'.turn = Head(outbound)
      PROVE  (AllOf(k) => AllOf(k)') /\ (NothingInTransit => NothingInTransit')
  <2>1. /\ Len(outbound) > 0
        /\ Len(Tail(outbound)) = Len(outbound) - 1
        /\ \A i \in 1..Len(Tail(outbound)) : Tail(outbound)[i] = outbound[i + 1]
        /\ Head(outbound) = outbound[1]
    BY <1>0, <1>3, HeadTailProperties, EmptySeq
  <2>2. /\ 1 \in 1..Len(outbound)
        /\ \A i \in 1..Len(Tail(outbound)) : i + 1 \in 1..Len(outbound)
    BY <1>0, <2>1
  <2> QED
    BY <1>3, <2>1, <2>2 DEF AllOf, NothingInTransit
<1>4. ASSUME reply.sent < reply.of, reply'.turn = reply.turn, outbound' = outbound,
             \/ inbound' = inbound
             \/ inbound' = Append(inbound, [turn |-> reply.turn,
                                            idx |-> reply.sent + 1, of |-> reply.of])
      PROVE  (AllOf(k) => AllOf(k)') /\ (NothingInTransit => NothingInTransit')
  <2> DEFINE e == [turn |-> reply.turn, idx |-> reply.sent + 1, of |-> reply.of]
  <2>1. reply.sent # reply.of
    BY <1>0, <1>4
  <2>2. e \in DatagramType
    BY <1>0 DEF DatagramType
  <2>3. CASE inbound' = inbound
    BY <1>4, <2>1, <2>3 DEF AllOf, NothingInTransit
  <2>4. CASE inbound' = Append(inbound, e)
    <3>1. /\ Len(inbound') = Len(inbound) + 1
          /\ \A i \in 1..Len(inbound) : inbound'[i] = inbound[i]
          /\ inbound'[Len(inbound) + 1] = e
      BY <1>0, <2>2, <2>4, AppendProperties
    <3>2. \A i \in 1..Len(inbound') : i \in 1..Len(inbound) \/ i = Len(inbound) + 1
      BY <1>0, <3>1
    <3> QED
      BY <1>4, <2>1, <3>1, <3>2 DEF AllOf, NothingInTransit
  <2> QED
    BY <1>4, <2>3, <2>4
<1>5. ASSUME NEW t \in Threads, Proceed(t)
      PROVE  (AllOf(k) => AllOf(k)') /\ (NothingInTransit => NothingInTransit')
  <2>1. UNCHANGED netVars \/ Take
    BY <1>5 DEF Proceed, SendFails, RecvWhole, RecvFirst, RecvStray, GatherNext,
                GatherLast, GatherForeign, Timeout, DrainOne, DrainEnd
  <2> QED
    BY <1>1, <1>2, <2>1
<1>6. ASSUME Environment
      PROVE  (AllOf(k) => AllOf(k)') /\ (NothingInTransit => NothingInTransit')
  <2>1. CASE LoseRequest
    BY <1>3, <2>1 DEF LoseRequest
  <2>2. ASSUME NEW of \in 1..MaxFrags, DeviceAnswers(of)
        PROVE  (AllOf(k) => AllOf(k)') /\ (NothingInTransit => NothingInTransit')
    BY <1>3, <2>2 DEF DeviceAnswers
  <2>3. CASE DeviceSends \/ LoseDatagram
    <3>1. reply' = [reply EXCEPT !.sent = @ + 1] /\ reply.sent < reply.of
      BY <2>3 DEF DeviceSends, LoseDatagram
    <3>2. reply'.turn = reply.turn
      BY <1>0, <3>1
    <3> QED
      BY <1>4, <2>3, <3>1, <3>2 DEF DeviceSends, LoseDatagram
  <2> QED
    BY <1>6, <2>1, <2>2, <2>3 DEF Environment
<1>7. ASSUME NEW t \in Threads, Acquire(t) \/ Enter(t) \/ EnterClear(t)
      PROVE  UNCHANGED netVars
  BY <1>7 DEF Acquire, Enter, EnterClear
<1>8. ASSUME NEW host \in Hosts, NEW timeout \in Timeouts, Connect(host, timeout)
      PROVE  UNCHANGED netVars
  BY <1>8 DEF Connect
<1> QED
  BY <1>1, <1>5, <1>6, <1>7, <1>8 DEF Next, Call, GetTurn, Done, vars

\* A call that started quietly returns its own answer when it returns one.
LEMMA ReturnsOwn ==
    ASSUME IInv, QuietInv, NEW t \in Threads, quiet[t],
           RecvWhole(t) \/ GatherLast(t)
    PROVE  ReturnAnswer(t, turn[t])
<1>1. TypeOK /\ Order /\ Exchanging(t)
  BY DEF IInv, Exchanging, RecvWhole, GatherLast
<1>2. AllOf(turn[t]) /\ (pc[t] = "gather" => packet[t].turn \in {0, turn[t]})
  BY <1>1 DEF QuietInv
<1>3. Take
  BY DEF RecvWhole, GatherLast
<1>4. 1 \in 1..Len(inbound) /\ Head(inbound) = inbound[1]
  BY <1>1, <1>3, TakeLemma DEF TypeOK
<1>5. Head(inbound).turn = turn[t]
  BY <1>2, <1>4 DEF AllOf
<1>6. CASE RecvWhole(t)
  BY <1>5, <1>6 DEF RecvWhole
<1>7. CASE GatherLast(t)
  BY <1>5, <1>7 DEF GatherLast, Continues
<1> QED
  BY <1>6, <1>7

\* What a step does to threads that are not its own, and to calls.
LEMMA OthersKept ==
    ASSUME IInv, [Next]_vars, NEW u \in Threads, pc'[u] = "idle" \/ Exchanging(u)'
    PROVE  \/ /\ pc[u] = pc'[u]
              /\ UNCHANGED <<turn[u], quiet[u], answer[u], packet[u]>>
              /\ upset' = upset
           \/ ~crashed /\ Proceed(u)
           \/ /\ pc[u] = pc'[u] /\ pc[u] = "idle"
              /\ UNCHANGED <<turn[u], quiet[u], answer[u]>>
              /\ upset' = upset \/ upset'
<1> USE DEF linkVars, callVars, netVars
<1>0. /\ pc \in [Threads -> {"idle"} \cup Waiting \cup Holding]
      /\ turn \in [Threads -> Nat] /\ quiet \in [Threads -> BOOLEAN]
      /\ answer \in [Threads -> Nat \cup {Junk}]
      /\ packet \in [Threads -> PacketType]
      /\ "idle" \notin Waiting /\ "idle" \notin Holding
      /\ Holding = {"send", "recv", "gather", "drain"}
      /\ Waiting = {"wait", "drainwait"}
      /\ SemaphoreConserved
      /\ upset \in BOOLEAN /\ upset' \in BOOLEAN
  <2>1. TypeOK'
    BY TypeInvariant DEF IInv
  <2> QED
    BY <2>1 DEF IInv, TypeOK, Waiting, Holding
<1>1. CASE UNCHANGED <<pc, turn, quiet, answer, packet, upset>>
  BY <1>1
<1>2. ASSUME NEW t \in Threads, Enter(t) \/ EnterClear(t) \/ Acquire(t)
      PROVE  /\ pc[u] = pc'[u]
             /\ UNCHANGED <<turn[u], quiet[u], answer[u], packet[u], upset>>
  <2>1. u # t
    BY <1>0, <1>2 DEF Enter, EnterClear, Acquire, Exchanging
  <2> QED
    BY <1>0, <1>2, <2>1 DEF Enter, EnterClear, Acquire
<1>3. ASSUME NEW t \in Threads, Proceed(t), t # u
      PROVE  /\ pc[u] = pc'[u] /\ pc[u] = "idle"
             /\ UNCHANGED <<turn[u], quiet[u], answer[u], packet[u]>>
             /\ upset' = upset \/ upset'
  <2>1. /\ pc[t] \in Holding /\ turn' = turn
        /\ \A v \in Threads : v # t =>
              UNCHANGED <<pc[v], quiet[v], answer[v], packet[v]>>
        /\ upset' = upset \/ upset' = TRUE
    BY <1>0, <1>3
       DEF Proceed, SendRequest, SendFails, RecvWhole, RecvFirst, RecvStray,
           GatherNext, GatherLast, GatherForeign, Timeout, DrainOne, DrainEnd,
           Leave, Gather, ReturnAnswer, ReturnMixed
  <2>2. pc[u] \notin Holding
    BY <1>0, <1>3, <2>1 DEF SemaphoreConserved
  <2>3. pc[u] = "idle"
    BY <1>0, <1>3, <2>1, <2>2 DEF Exchanging
  <2> QED
    BY <1>0, <1>3, <2>1, <2>3
<1>4. ASSUME \/ Environment \/ Done \/ UNCHANGED vars
             \/ \E host \in Hosts, timeout \in Timeouts : Connect(host, timeout)
      PROVE  UNCHANGED <<pc, turn, quiet, answer, packet, upset>>
  BY <1>4 DEF Environment, LoseRequest, DeviceAnswers, DeviceSends, LoseDatagram,
              Done, vars, Connect
<1>5. \A t \in Threads : Proceed(t) => ~crashed
  BY DEF Proceed
<1> QED
  BY <1>1, <1>2, <1>3, <1>4, <1>5 DEF Next, Call, GetTurn
\* The start of an exchange: all that is on its way afterwards is the caller's
\* own request, if nothing else was.
LEMMA StartLemma ==
    ASSUME IInv, NEW t \in Threads, SendRequest(t)
    PROVE  /\ pc'[t] = "recv" /\ turn' = turn /\ UNCHANGED <<answer, upset>>
           /\ \A u \in Threads : u # t => pc'[u] = pc[u] /\ ~Exchanging(u) /\ ~Exchanging(u)'
           /\ ~Exchanging(t)
           /\ NothingInTransit => quiet'[t]
           /\ quiet'[t] => NothingInTransit /\ AllOf(turn[t])'
<1>1. /\ pc \in [Threads -> {"idle"} \cup Waiting \cup Holding]
      /\ quiet \in [Threads -> BOOLEAN] /\ turn[t] \in Nat
      /\ outbound \in Seq(Nat) /\ SemaphoreConserved
  BY DEF IInv, TypeOK
<1>2. /\ pc[t] = "send" /\ pc' = [pc EXCEPT ![t] = "recv"]
      /\ outbound' = Append(outbound, turn[t])
      /\ quiet' = [quiet EXCEPT ![t] = NothingInTransit]
      /\ UNCHANGED <<turn, answer, upset, inbound, reply>>
  BY DEF SendRequest, NothingInTransit
<1>3. "send" \in Holding /\ "recv" \in Holding /\ "gather" \in Holding
  BY DEF Holding
<1>4. \A u \in Threads : u # t => pc[u] \notin Holding
  BY <1>2, <1>3, <1>1 DEF SemaphoreConserved
<1>5. /\ pc'[t] = "recv"
      /\ \A u \in Threads : u # t => pc'[u] = pc[u] /\ ~Exchanging(u) /\ ~Exchanging(u)'
      /\ ~Exchanging(t)
  BY <1>1, <1>2, <1>3, <1>4 DEF Exchanging
<1>6. quiet'[t] <=> NothingInTransit
  BY <1>1, <1>2
<1>7. ASSUME NothingInTransit PROVE AllOf(turn[t])'
  <2>1. outbound = <<>> /\ Len(outbound) = 0 /\ Len(inbound) = 0
    BY <1>7 DEF NothingInTransit
  <2>2. Len(outbound') = 1 /\ outbound'[1] = turn[t]
    BY <1>1, <1>2, <2>1, AppendProperties
  <2> QED
    BY <1>2, <1>7, <2>1, <2>2 DEF AllOf, NothingInTransit
<1> QED
  BY <1>2, <1>5, <1>6, <1>7

\* While a call that started quietly is inside, all on its way is its own.
LEMMA QuietInvariant == IInv /\ QuietInv /\ [Next]_vars => QuietInv'
<1> SUFFICES ASSUME IInv, QuietInv, [Next]_vars,
                    NEW u \in Threads, Exchanging(u)', quiet'[u]
             PROVE  /\ AllOf(turn[u])'
                    /\ pc'[u] = "gather" => packet'[u].turn \in {0, turn'[u]}
  BY DEF QuietInv
<1> USE DEF linkVars, callVars, netVars
<1>0. TypeOK /\ pc \in [Threads -> {"idle"} \cup Waiting \cup Holding]
      /\ packet \in [Threads -> PacketType]
  BY DEF IInv, TypeOK
<1>1. ASSUME NEW t \in Threads, SendRequest(t)
      PROVE  /\ AllOf(turn[u])'
             /\ pc'[u] = "gather" => packet'[u].turn \in {0, turn'[u]}
  <2>1. u = t
    BY <1>1, StartLemma
  <2> QED
    BY <1>1, <2>1, StartLemma DEF AllOf
<1>2. ASSUME \A t \in Threads : ~(~crashed /\ SendRequest(t))
      PROVE  /\ AllOf(turn[u])'
             /\ pc'[u] = "gather" => packet'[u].turn \in {0, turn'[u]}
  <2>1. AllOf(turn[u]) => AllOf(turn[u])' \/ turn'[u] # turn[u]
    <3> DEFINE k == turn[u]
    <3>1. AllOf(k) => /\ \A i \in 1..Len(outbound') : outbound'[i] = k
                      /\ \A i \in 1..Len(inbound') : inbound'[i].turn = k
                      /\ reply'.sent # reply'.of => reply'.turn = k
      <4> HIDE DEF k
      <4> QED
        BY <1>2, InTransitKept DEF AllOf
    <3> QED
      BY <3>1 DEF AllOf
  <2>2. CASE pc[u] = pc'[u] /\ UNCHANGED <<turn[u], quiet[u], answer[u], packet[u]>>
    <3>1. Exchanging(u) /\ quiet[u]
      BY <2>2 DEF Exchanging
    <3> QED
      BY <2>1, <2>2, <3>1 DEF QuietInv
  <2>3. CASE ~crashed /\ Proceed(u)
    <3>1. ~SendRequest(u)
      BY <1>2, <2>3
    <3>2. /\ Exchanging(u) /\ UNCHANGED <<turn, quiet>>
          /\ RecvFirst(u) \/ RecvStray(u) \/ GatherNext(u) \/ GatherForeign(u)
      BY <1>0, <2>3, <3>1
         DEF Proceed, SendFails, RecvWhole, RecvFirst, RecvStray, GatherNext,
             GatherLast, GatherForeign, Timeout, DrainOne, DrainEnd, Leave,
             ReturnAnswer, Exchanging
    <3>3. AllOf(turn[u]) /\ (pc[u] = "gather" => packet[u].turn \in {0, turn[u]})
      BY <3>2 DEF QuietInv
    <3>4. pc'[u] = "gather" => packet'[u].turn \in {0, turn[u]}
      <4>1. CASE RecvFirst(u)
        <5>1. 1 \in 1..Len(inbound) /\ Head(inbound) = inbound[1]
          BY <1>0, <4>1, TakeLemma DEF RecvFirst, TypeOK
        <5>2. Head(inbound).turn = turn[u]
          BY <3>3, <5>1 DEF AllOf
        <5> QED
          BY <1>0, <4>1, <5>2 DEF RecvFirst, Gather
      <4>2. CASE GatherNext(u)
        <5>1. packet[u] \in PacketType
          BY <1>0
        <5>2. [packet[u] EXCEPT !.got = @ + 1].turn = packet[u].turn
          BY <5>1 DEF PacketType
        <5> QED
          BY <1>0, <3>3, <4>2, <5>2 DEF GatherNext, Gather
      <4>3. CASE RecvStray(u) \/ GatherForeign(u)
        BY <1>0, <3>3, <4>3
           DEF RecvStray, GatherForeign, Gather, ReturnMixed, Leave
      <4> QED
        BY <3>2, <4>1, <4>2, <4>3
    <3> QED
      BY <2>1, <3>2, <3>3, <3>4
  <2> QED
    <3>1. ~(pc[u] = pc'[u] /\ pc[u] = "idle")
      BY DEF Exchanging
    <3> QED
      BY <2>2, <2>3, <3>1, OthersKept
<1> QED
  BY <1>1, <1>2

\* The answer of the call that a step ends.
LEMMA EndedCall ==
    ASSUME IInv, NEW u \in Threads, Proceed(u), pc'[u] = "idle"
    PROVE  /\ UNCHANGED <<turn, quiet>>
           /\ \/ answer'[u] = NoAnswer
              \/ answer'[u] = Junk /\ upset'
              \/ RecvWhole(u) \/ GatherLast(u)
<1>1. /\ pc \in [Threads -> {"idle"} \cup Waiting \cup Holding]
      /\ answer \in [Threads -> Nat \cup {Junk}]
      /\ "idle" \notin Holding
  BY DEF IInv, TypeOK, Holding
<1> USE DEF linkVars, callVars, netVars
<1>2. CASE SendRequest(u) \/ RecvFirst(u) \/ GatherNext(u) \/ DrainOne(u)
  BY <1>1, <1>2 DEF SendRequest, RecvFirst, GatherNext, Gather, DrainOne
<1>3. CASE SendFails(u) \/ Timeout(u) \/ DrainEnd(u)
  BY <1>1, <1>3 DEF SendFails, Timeout, DrainEnd, Leave
<1>4. CASE RecvStray(u) \/ GatherForeign(u)
  <2>1. pc[u] # "idle" /\ UNCHANGED <<turn, quiet>>
    BY <1>4 DEF RecvStray, GatherForeign
  <2>2. ReturnMixed(u)
    BY <1>1, <1>4, <2>1 DEF RecvStray, GatherForeign, Gather
  <2> QED
    BY <1>1, <2>1, <2>2 DEF ReturnMixed, Leave
<1>5. CASE RecvWhole(u) \/ GatherLast(u)
  BY <1>5 DEF RecvWhole, GatherLast
<1> QED
  BY <1>2, <1>3, <1>4, <1>5 DEF Proceed

\* A step that ends a quietly started call ends it with its own answer.
LEMMA QuietStartStep ==
    IInv /\ QuietInv /\ QuietStartOwnAnswer /\ [Next]_vars => QuietStartOwnAnswer'
<1> SUFFICES ASSUME IInv, QuietInv, QuietStartOwnAnswer, [Next]_vars,
                    NEW u \in Threads, pc'[u] = "idle", quiet'[u]
             PROVE  answer'[u] \in {NoAnswer, Junk, turn'[u]}
  BY DEF QuietStartOwnAnswer
<1>1. CASE pc[u] = pc'[u] /\ UNCHANGED <<turn[u], quiet[u], answer[u]>>
  BY <1>1 DEF QuietStartOwnAnswer
<1>2. CASE Proceed(u)
  <2>1. /\ UNCHANGED <<turn, quiet>>
        /\ \/ answer'[u] = NoAnswer
           \/ answer'[u] = Junk
           \/ RecvWhole(u) \/ GatherLast(u)
    BY <1>2, EndedCall
  <2>2. CASE RecvWhole(u) \/ GatherLast(u)
    <3>1. ReturnAnswer(u, turn[u])
      BY <2>1, <2>2, ReturnsOwn
    <3>2. answer'[u] = turn[u]
      BY <3>1 DEF ReturnAnswer, Leave, IInv, TypeOK
    <3> QED
      BY <2>1, <3>2
  <2> QED
    BY <2>1, <2>2
<1> QED
  BY <1>1, <1>2, OthersKept

\* Whoever starts an exchange while nothing is on its way gets no other call's
\* answer, with any number of threads and any losses.
THEOREM QuietStartCorrect == Spec => []QuietStartOwnAnswer
<1>1. Init => QuietInv /\ QuietStartOwnAnswer
  BY DEF Init, QuietInv, QuietStartOwnAnswer, Exchanging
<1>2. IInv /\ QuietInv /\ QuietStartOwnAnswer /\ [Next]_vars
      => QuietInv' /\ QuietStartOwnAnswer'
  BY QuietInvariant, QuietStartStep
<1> QED
  BY <1>1, <1>2, IInvInvariant, PTL DEF Spec

-----------------------------------------------------------------------------
(* Calls stay in step until one is upset.                                   *)

\* Once a call in step has returned its answer nothing is left on its way.
LEMMA ReturnEmpties ==
    ASSUME IInv, IInv', QuietInv, QuietInv', NEW t \in Threads, quiet[t],
           RecvWhole(t) \/ GatherLast(t), AllOf(turn[t]), [Next]_vars
    PROVE  NothingInTransit'
<1> DEFINE k == turn[t]
<1>1. /\ outbound \in Seq(Nat) /\ outbound' \in Seq(Nat)
      /\ inbound \in Seq(DatagramType) /\ inbound' \in Seq(DatagramType)
      /\ reply' \in [turn : Nat, sent : Nat, of : Nat] /\ last' \in Nat /\ k \in Nat
      /\ TypeOK
  BY DEF IInv, TypeOK
<1>2. Take /\ last' = k
  BY ReturnsOwn DEF RecvWhole, GatherLast, ReturnAnswer
<1>3. /\ outbound' = outbound /\ reply' = reply
      /\ Len(inbound') = Len(inbound) - 1 /\ Len(inbound) \in Nat
      /\ \A i \in 1..Len(inbound') : inbound'[i] = inbound[i + 1]
  BY <1>1, <1>2, TakeLemma
<1>4. \A i \in 1..Len(inbound') : inbound'[i].turn = k
  <2>1. \A i \in 1..Len(inbound') : i + 1 \in 1..Len(inbound)
    BY <1>1, <1>3
  <2> QED
    BY <1>3, <2>1 DEF AllOf
<1>5. \A i \in 1..Len(inbound') : last' < inbound'[i].turn
  BY DEF IInv, Order, InboundOrder, InTransit
<1>6. Len(inbound') = 0
  <2>1. ASSUME Len(inbound') # 0 PROVE FALSE
    <3>1. 1 \in 1..Len(inbound')
      BY <1>1, <2>1
    <3>2. last' < inbound'[1].turn /\ inbound'[1].turn = k
      BY <1>4, <1>5, <3>1
    <3>3. k < k /\ k \in Nat
      BY <1>1, <1>2, <3>2
    <3> HIDE DEF k
    <3> QED
      BY <3>3
  <2> QED
    BY <2>1
<1>7. \A i \in 1..Len(outbound') : outbound'[i] = k /\ reply'.turn < outbound'[i]
  BY <1>3 DEF AllOf, IInv, Order, OutboundOrder
<1>8. last' <= reply'.turn /\ (last' = reply'.turn => reply'.sent = reply'.of)
  BY DEF IInv, Order, ReplyOrder
<1>9. Len(outbound') = 0
  <2>1. ASSUME Len(outbound') # 0 PROVE FALSE
    <3>1. 1 \in 1..Len(outbound')
      BY <1>1, <2>1
    <3>2. reply'.turn < k /\ reply'.turn \in Nat
      BY <1>1, <1>7, <3>1
    <3>3. k <= reply'.turn /\ k \in Nat
      BY <1>1, <1>2, <1>8
    <3> HIDE DEF k
    <3> QED
      BY <3>2, <3>3
  <2> QED
    BY <2>1
<1>10. reply'.sent = reply'.of
  BY <1>2, <1>3, <1>8 DEF AllOf
<1>11. inbound' = <<>> /\ outbound' = <<>>
  BY <1>1, <1>6, <1>9, EmptySeq
<1> QED
  BY <1>10, <1>11 DEF NothingInTransit

\* In step, every exchange starts quietly and leaves nothing behind.
LEMMA StepInvariant ==
    ASSUME IInv, IInv', QuietInv, QuietInv', StepInv, [Next]_vars, ~upset'
    PROVE  /\ \A u \in Threads : Exchanging(u)' => quiet'[u]
           /\ (\A u \in Threads : ~Exchanging(u)') => NothingInTransit'
<1> USE DEF linkVars, callVars, netVars
<1>0. /\ TypeOK /\ upset \in BOOLEAN /\ SemaphoreConserved
      /\ pc \in [Threads -> {"idle"} \cup Waiting \cup Holding]
  BY DEF IInv, TypeOK
<1>1. ~upset
  <2>1. \A t \in Threads : Proceed(t) => upset' = upset \/ upset' = TRUE
    BY DEF Proceed, SendRequest, SendFails, RecvWhole, RecvFirst, RecvStray,
           GatherNext, GatherLast, GatherForeign, Timeout, DrainOne, DrainEnd,
           Gather, ReturnAnswer, ReturnMixed
  <2> QED
    BY <2>1 DEF Next, Call, GetTurn, Done, Environment, LoseRequest, DeviceAnswers,
         DeviceSends, LoseDatagram, Connect, vars, Enter, EnterClear, Acquire
<1>2. /\ \A t \in Threads : Exchanging(t) => quiet[t]
      /\ (\A t \in Threads : ~Exchanging(t)) => NothingInTransit
  BY <1>1 DEF StepInv
<1>3. ASSUME NEW t \in Threads, SendRequest(t)
      PROVE  /\ \A u \in Threads : Exchanging(u)' => quiet'[u]
             /\ ~(\A u \in Threads : ~Exchanging(u)')
  <2>1. NothingInTransit
    BY <1>2, <1>3, StartLemma
  <2>2. quiet'[t] /\ \A u \in Threads : u # t => ~Exchanging(u)'
    BY <1>3, <2>1, StartLemma
  <2>3. Exchanging(t)'
    BY <1>3, StartLemma DEF Exchanging
  <2> QED
    BY <2>2, <2>3
<1>4. ASSUME \A t \in Threads : ~(~crashed /\ SendRequest(t))
      PROVE  /\ \A u \in Threads : Exchanging(u)' => quiet'[u]
             /\ (\A u \in Threads : ~Exchanging(u)') => NothingInTransit'
  <2>1. ASSUME NEW u \in Threads, Exchanging(u)' PROVE quiet'[u]
    <3>1. CASE pc[u] = pc'[u] /\ UNCHANGED quiet[u]
      BY <1>2, <2>1, <3>1 DEF Exchanging
    <3>2. CASE ~crashed /\ Proceed(u)
      <4>1. ~SendRequest(u)
        BY <1>4, <3>2
      <4>2. Exchanging(u) /\ UNCHANGED quiet
        BY <1>0, <2>1, <3>2, <4>1
           DEF Proceed, SendFails, RecvWhole, RecvFirst, RecvStray, GatherNext,
               GatherLast, GatherForeign, Timeout, DrainOne, DrainEnd, Leave,
               ReturnAnswer, Exchanging
      <4> QED
        BY <1>2, <4>2
    <3> QED
      BY <2>1, <3>1, <3>2, OthersKept
  <2>2. ASSUME \A u \in Threads : ~Exchanging(u)' PROVE NothingInTransit'
    <3>1. CASE \A u \in Threads : ~Exchanging(u)
      <4>1. NothingInTransit
        BY <1>2, <3>1
      <4> QED
        BY <1>4, <4>1, InTransitKept
    <3>2. ASSUME NEW u \in Threads, Exchanging(u) PROVE NothingInTransit'
      <4>1. quiet[u] /\ AllOf(turn[u])
        BY <1>2, <3>2 DEF QuietInv
      <4>2. ~Exchanging(u)' /\ pc[u] \in Holding
        BY <2>2, <3>2 DEF Exchanging, Holding
      <4>3. RecvWhole(u) \/ GatherLast(u)
        <5>1. ASSUME NEW t \in Threads, Proceed(t) PROVE t = u
          BY <1>0, <4>2, <5>1
             DEF SemaphoreConserved, Holding, Proceed, SendRequest, SendFails,
                 RecvWhole, RecvFirst, RecvStray, GatherNext, GatherLast,
                 GatherForeign, Timeout, DrainOne, DrainEnd
        <5>2. ASSUME NEW t \in Threads, Enter(t) \/ EnterClear(t) \/ Acquire(t)
              PROVE  pc'[u] = pc[u]
          BY <1>0, <4>2, <5>2 DEF Enter, EnterClear, Acquire, Holding, Waiting
        <5>3. CASE Proceed(u)
          <6>1. upset' # TRUE
            OBVIOUS
          <6> QED
            BY <1>0, <3>2, <4>2, <5>3, <6>1
               DEF Proceed, SendRequest, SendFails, RecvFirst, RecvStray,
                   GatherNext, GatherForeign, Timeout, DrainOne, DrainEnd, Gather,
                   ReturnMixed, Exchanging
        <5>4. CASE pc'[u] = pc[u]
          BY <3>2, <4>2, <5>4 DEF Exchanging
        <5>5. ASSUME \/ Environment \/ Done \/ UNCHANGED vars
                     \/ \E host \in Hosts, timeout \in Timeouts : Connect(host, timeout)
              PROVE  pc' = pc
          BY <5>5 DEF Environment, LoseRequest, DeviceAnswers, DeviceSends,
                      LoseDatagram, Done, vars, Connect
        <5> QED
          BY <5>1, <5>2, <5>3, <5>4, <5>5 DEF Next, Call, GetTurn
      <4> QED
        BY <4>1, <4>3, ReturnEmpties
    <3> QED
      BY <3>1, <3>2
  <2> QED
    BY <2>1, <2>2
<1> QED
  BY <1>3, <1>4

\* In step, a call that ends returns its own answer or throws.
LEMMA InStepStep ==
    ASSUME IInv, QuietInv, StepInv, InStepUntilUpset, [Next]_vars, ~upset'
    PROVE  \A u \in Threads : pc'[u] = "idle" => answer'[u] \in {NoAnswer, turn'[u]}
<1> USE DEF linkVars, callVars, netVars
<1>1. ~upset
  <2>0. upset \in BOOLEAN
    BY DEF IInv, TypeOK
  <2>1. \A t \in Threads : Proceed(t) => upset' = upset \/ upset' = TRUE
    BY DEF Proceed, SendRequest, SendFails, RecvWhole, RecvFirst, RecvStray,
           GatherNext, GatherLast, GatherForeign, Timeout, DrainOne, DrainEnd,
           Gather, ReturnAnswer, ReturnMixed
  <2> QED
    BY <2>0, <2>1 DEF Next, Call, GetTurn, Done, Environment, LoseRequest,
         DeviceAnswers, DeviceSends, LoseDatagram, Connect, vars, Enter, EnterClear,
         Acquire
<1>2. SUFFICES ASSUME NEW u \in Threads, pc'[u] = "idle"
               PROVE  answer'[u] \in {NoAnswer, turn'[u]}
  OBVIOUS
<1>3. CASE pc[u] = pc'[u] /\ UNCHANGED <<turn[u], answer[u]>>
  BY <1>1, <1>2, <1>3 DEF InStepUntilUpset
<1>4. CASE Proceed(u)
  <2>1. /\ UNCHANGED <<turn, quiet>>
        /\ answer'[u] = NoAnswer \/ RecvWhole(u) \/ GatherLast(u)
    BY <1>2, <1>4, EndedCall
  <2>2. CASE RecvWhole(u) \/ GatherLast(u)
    <3>1. quiet[u]
      BY <1>1, <2>2 DEF StepInv, Exchanging, RecvWhole, GatherLast
    <3>2. ReturnAnswer(u, turn[u])
      BY <2>2, <3>1, ReturnsOwn
    <3>3. answer'[u] = turn[u]
      BY <3>2 DEF ReturnAnswer, Leave, IInv, TypeOK
    <3> QED
      BY <2>1, <3>3
  <2> QED
    BY <2>1, <2>2
<1> QED
  BY <1>2, <1>3, <1>4, OthersKept

\* While every request sent got an answer of the device, every caller got its
\* own: only a timeout or a broken packet can put the exchange out of step.
THEOREM InStepCorrect == Spec => []InStepUntilUpset
<1>1. Init => QuietInv /\ StepInv /\ InStepUntilUpset
  <2> SUFFICES ASSUME Init PROVE QuietInv /\ StepInv /\ InStepUntilUpset
    OBVIOUS
  <2>1. /\ \A t \in Threads : ~Exchanging(t) /\ answer[t] = NoAnswer
        /\ NothingInTransit
    BY DEF Init, Exchanging, NothingInTransit, NoReply
  <2> QED
    BY <2>1 DEF QuietInv, StepInv, InStepUntilUpset
<1>2. IInv /\ IInv' /\ QuietInv /\ StepInv /\ InStepUntilUpset /\ [Next]_vars
      => QuietInv' /\ StepInv' /\ InStepUntilUpset'
  <2>1. ASSUME IInv, IInv', QuietInv, StepInv, InStepUntilUpset, [Next]_vars
        PROVE  QuietInv' /\ StepInv' /\ InStepUntilUpset'
    <3>1. QuietInv'
      BY <2>1, QuietInvariant
    <3>2. StepInv'
      BY <2>1, <3>1, StepInvariant DEF StepInv
    <3>3. InStepUntilUpset'
      BY <2>1, InStepStep DEF InStepUntilUpset
    <3> QED
      BY <3>1, <3>2, <3>3
  <2> QED
    BY <2>1
<1> QED
  BY <1>1, <1>2, IInvInvariant, PTL DEF Spec
=============================================================================
