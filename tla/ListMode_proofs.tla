--------------------------- MODULE ListMode_proofs ---------------------------
(* Proofs about ListMode, for any number of workers, exchanges and events and *)
(* any size of the FIFO.                                                    *)
EXTENDS ListMode, TLAPS, SequenceTheorems

-----------------------------------------------------------------------------
(* Packets and exchanges.                                                  *)

\* The requests and the replies without data are packets.
LEMMA PacketsLemma ==
    /\ {AskList, AskOther, Other, Garbled, Gone} \subseteq PacketType
    /\ \A p \in {AskList, AskOther, Other, Garbled, Gone} :
            p.data = <<>> /\ DOMAIN p.data = {}
    /\ Gone \notin Requests
<1>1. <<>> \in Seq(Nat)
  BY EmptySeq
<1>2. {AskList, AskOther, Other, Garbled, Gone} \subseteq PacketType
  BY <1>1 DEF AskList, AskOther, Other, Garbled, Gone, Packet, PacketType
<1>3. \A p \in {AskList, AskOther, Other, Garbled, Gone} : p.data = <<>>
  BY DEF AskList, AskOther, Other, Garbled, Gone, Packet
<1>4. DOMAIN <<>> = {}
  OBVIOUS
<1>5. Gone \notin Requests
  BY DEF AskList, AskOther, Gone, Packet, Requests
<1> QED
  BY <1>2, <1>3, <1>4, <1>5

\* What the FIFO hands out: as many events as it holds, each behind those before.
LEMMA HeldLemma ==
    ASSUME events \in Nat, NEW n \in Nat
    PROVE  /\ Held(n) \in Seq(Nat)
           /\ DOMAIN Held(n) = 1..Len(Held(n))
           /\ Len(Held(n)) = IF n < FifoSize THEN n ELSE FifoSize
           /\ Len(Held(n)) \in Nat /\ Len(Held(n)) <= n
           /\ \A k \in DOMAIN Held(n) : Held(n)[k] = events + k
<1> DEFINE m == IF n < FifoSize THEN n ELSE FifoSize
<1>1. m \in Nat /\ m <= n
  BY BoundsAssumption
<1>2. Held(n) = [k \in 1..m |-> events + k]
  BY DEF Held
<1> HIDE DEF m
<1>3. Held(n) \in [1..m -> Nat]
  BY <1>1, <1>2
<1>4. Held(n) \in Seq(Nat) /\ DOMAIN Held(n) = 1..m
  BY <1>1, <1>3
<1>5. Len(Held(n)) = m
  BY <1>1, <1>4, LenProperties
<1>6. \A k \in DOMAIN Held(n) : Held(n)[k] = events + k
  BY <1>2
<1> QED
  BY <1>1, <1>4, <1>5, <1>6 DEF m

\* A list response is a packet.
LEMMA ListLemma ==
    ASSUME events \in Nat, NEW n \in Nat
    PROVE  List(Held(n), n > FifoSize) \in PacketType
BY HeldLemma DEF List, Packet, PacketType

\* A call that ends gives its turn back, and hands over one of the replies.
LEMMA EndsLemma ==
    ASSUME TypeOK, NEW t \in Threads, NEW reply \in Replies, NEW foreign \in BOOLEAN,
           Ends(t, reply, foreign)
    PROVE  /\ phase[t] = "holding" /\ phase' = [phase EXCEPT ![t] = "idle"]
           /\ turns' = turns /\ last' \in Nat
           /\ exchange' \in Seq(PacketType) /\ Len(exchange') = turns
           /\ reply \in PacketType
<1>1. exchange \in Seq(PacketType) /\ Len(exchange) = turns /\ turns \in Nat /\ last \in Nat
  BY DEF TypeOK
<1>2. \A r \in 1..turns : exchange[r] \in PacketType
  BY <1>1, ElementOfSeq
<1>3. reply \in PacketType
  BY <1>2, PacketsLemma DEF Replies
<1>4. CASE \E r \in 1..turns : /\ Handler!Deliver(t, r)
                               /\ exchange' = [q \in 1..turns |->
                                                IF q <= r THEN Gone ELSE exchange[q]]
  <2>1. PICK r \in 1..turns : /\ Handler!Deliver(t, r)
                              /\ exchange' = [q \in 1..turns |->
                                                IF q <= r THEN Gone ELSE exchange[q]]
    BY <1>4
  <2>2. exchange' \in [1..turns -> PacketType]
    BY <1>1, <1>2, <2>1, PacketsLemma
  <2>3. exchange' \in Seq(PacketType) /\ DOMAIN exchange' = 1..turns
    BY <1>1, <2>2
  <2>4. Len(exchange') = turns
    BY <1>1, <2>3, LenProperties
  <2> QED
    BY <1>1, <1>3, <2>1, <2>3, <2>4 DEF Handler!Deliver
<1>5. CASE Handler!DeliverJunk(t) /\ UNCHANGED exchange
  BY <1>1, <1>3, <1>5 DEF Handler!DeliverJunk
<1>6. CASE Handler!End(t) /\ UNCHANGED exchange
  BY <1>1, <1>3, <1>6 DEF Handler!End
<1> QED
  BY <1>4, <1>5, <1>6 DEF Ends

-----------------------------------------------------------------------------
(* Types.                                                                  *)

\* The program starts in a state of the right types.
LEMMA InitTyped == Init => TypeOK
<1> SUFFICES ASSUME Init PROVE TypeOK
  OBVIOUS
<1> USE DEF Init
<1>1. <<>> \in Seq(PacketType) /\ Len(<<>>) = 0
  BY EmptySeq
<1>2. /\ streamfile \in [open : BOOLEAN, good : BOOLEAN, written : Seq(PacketType)]
      /\ hist \in [accepted : Seq(PacketType), upset : BOOLEAN, doubled : BOOLEAN,
                   abandoned : BOOLEAN, crashed : BOOLEAN]
      /\ exchange \in Seq(PacketType) /\ Len(exchange) = 0
  BY <1>1
<1>3. /\ phase = [t \in Threads |-> "idle"] /\ turns = 0 /\ last = 0
  BY DEF Handler!Init
<1>4. /\ record \in [Workers -> PacketType]
      /\ at \in [Workers -> {"none", "test", "calling", "write", "finished"}]
  BY PacketsLemma
<1>5. /\ phase \in [Threads -> {"idle", "waiting", "holding"}]
      /\ \A w \in Workers : at[w] = "calling" <=> phase[w] # "idle"
  BY <1>3 DEF Threads
<1> QED
  BY <1>2, <1>3, <1>4, <1>5 DEF TypeOK

\* Exchanges keep the types: the request goes out, ...
LEMMA SendTyped == ASSUME TypeOK, NEW t \in Threads, Send(t) PROVE TypeOK'
<1> USE DEF Send, Handler!Acquire, fileVars
<1>1. exchange \in Seq(PacketType) /\ Len(exchange) = turns /\ turns \in Nat
  BY DEF TypeOK
<1>2. exchange' = Append(exchange, AskList) \/ exchange' = Append(exchange, AskOther)
  OBVIOUS
<1>3. exchange' \in Seq(PacketType) /\ Len(exchange') = turns + 1
  BY <1>1, <1>2, PacketsLemma, AppendProperties
<1>4. turns' = turns + 1 /\ turns' \in Nat /\ last' \in Nat
  BY DEF TypeOK
<1>5. /\ phase' \in [Threads -> {"idle", "waiting", "holding"}]
      /\ \A w \in Workers : at'[w] = "calling" <=> phase'[w] # "idle"
  BY DEF TypeOK, Threads
<1> QED
  BY <1>3, <1>4, <1>5 DEF TypeOK

\* ... a worker asks for more or ends, ...
LEMMA TestTyped == ASSUME TypeOK, NEW w \in Workers, Test(w) PROVE TypeOK'
<1> USE DEF Test, fileVars, deviceVars
<1>1. CASE listmode_flag
  <2> USE DEF Handler!Enter
  <2>1. /\ phase' \in [Threads -> {"idle", "waiting", "holding"}]
        /\ at' \in [Workers -> {"none", "test", "calling", "write", "finished"}]
        /\ \A v \in Workers : at'[v] = "calling" <=> phase'[v] # "idle"
    BY <1>1 DEF TypeOK, Threads
  <2> QED
    BY <1>1, <2>1 DEF TypeOK
<1>2. CASE ~listmode_flag
  <2>1. /\ at' \in [Workers -> {"none", "test", "calling", "write", "finished"}]
        /\ phase' = phase
        /\ \A v \in Workers : at'[v] = "calling" <=> phase'[v] # "idle"
    BY <1>2 DEF TypeOK, handlerVars
  <2> QED
    BY <1>2, <2>1 DEF TypeOK, handlerVars
<1> QED
  BY <1>1, <1>2

\* ... gets an answer or none, ...
LEMMA ReadTyped == ASSUME TypeOK, NEW w \in Workers, Read(w) PROVE TypeOK'
<1>1. PICK reply \in Replies, foreign \in BOOLEAN :
        /\ at[w] = "calling"
        /\ Ends(w, reply, foreign)
        /\ at' = [at EXCEPT ![w] = IF reply \in Accepted THEN "write" ELSE "test"]
        /\ record' = [record EXCEPT ![w] = IF reply \in Accepted THEN reply ELSE @]
        /\ hist' = [hist EXCEPT
                !.upset = @ \/ foreign,
                !.accepted = IF reply \in Accepted THEN Append(@, reply) ELSE @]
        /\ UNCHANGED <<op, listmode_flag, list_reader_thread, streamfile, events, starts>>
  BY Zenon DEF Read, Reads
<1>2. w \in Threads
  BY DEF Threads
<1>3. /\ phase[w] = "holding" /\ phase' = [phase EXCEPT ![w] = "idle"]
      /\ turns' = turns /\ last' \in Nat
      /\ exchange' \in Seq(PacketType) /\ Len(exchange') = turns
      /\ reply \in PacketType
  BY <1>1, <1>2, EndsLemma
<1>4. /\ phase' \in [Threads -> {"idle", "waiting", "holding"}]
      /\ at' \in [Workers -> {"none", "test", "calling", "write", "finished"}]
      /\ \A v \in Workers : at'[v] = "calling" <=> phase'[v] # "idle"
  BY <1>1, <1>2, <1>3 DEF TypeOK, Threads
<1>5. record' \in [Workers -> PacketType]
  BY <1>1, <1>3 DEF TypeOK
<1>6. hist' \in [accepted : Seq(PacketType), upset : BOOLEAN, doubled : BOOLEAN,
                 abandoned : BOOLEAN, crashed : BOOLEAN]
  <2>1. hist.accepted \in Seq(PacketType)
    BY DEF TypeOK
  <2>2. Append(hist.accepted, reply) \in Seq(PacketType)
    BY <1>3, <2>1, AppendProperties
  <2> QED
    BY <1>1, <2>1, <2>2 DEF TypeOK
<1> QED
  BY <1>1, <1>3, <1>4, <1>5, <1>6 DEF TypeOK

\* ... writes its record, ...
LEMMA WriteTyped == ASSUME TypeOK, NEW w \in Workers, Write(w) PROVE TypeOK'
<1> USE DEF Write, Writes, handlerVars, deviceVars
<1>1. /\ at' \in [Workers -> {"none", "test", "calling", "write", "finished"}]
      /\ \A v \in Workers : at'[v] = "calling" <=> phase'[v] # "idle"
  BY DEF TypeOK
<1>2. streamfile' \in [open : BOOLEAN, good : BOOLEAN, written : Seq(PacketType)]
  <2>1. streamfile.written \in Seq(PacketType) /\ record[w] \in PacketType
    BY DEF TypeOK
  <2>2. Append(streamfile.written, record[w]) \in Seq(PacketType)
    BY <2>1, AppendProperties
  <2> QED
    BY <2>2 DEF TypeOK
<1> QED
  BY <1>1, <1>2 DEF TypeOK

\* ... or uses what was destroyed.
LEMMA UseDestroyedTyped == ASSUME TypeOK, NEW w \in Workers, UseDestroyed(w) PROVE TypeOK'
BY DEF TypeOK, UseDestroyed, handlerVars, fileVars, deviceVars

\* So do the caller's calls: EnableListMode begins, ...
LEMMA EnableTyped == ASSUME TypeOK, NEW exists \in BOOLEAN, Enable(exists) PROVE TypeOK'
<1> USE DEF Enable, Handler!Enter, deviceVars
<1>1. <<>> \in Seq(PacketType)
  BY EmptySeq
<1>2. /\ streamfile' \in [open : BOOLEAN, good : BOOLEAN, written : Seq(PacketType)]
      /\ hist' \in [accepted : Seq(PacketType), upset : BOOLEAN, doubled : BOOLEAN,
                    abandoned : BOOLEAN, crashed : BOOLEAN]
  BY <1>1 DEF TypeOK
<1>3. /\ phase' \in [Threads -> {"idle", "waiting", "holding"}]
      /\ \A w \in Workers : at'[w] = "calling" <=> phase'[w] # "idle"
  BY ThreadsAssumption DEF TypeOK, Threads
<1> QED
  BY <1>2, <1>3 DEF TypeOK

\* ... an exchange of the caller ends, ...
LEMMA CallerEndsTyped ==
    ASSUME TypeOK, NEW reply \in Replies, NEW foreign \in BOOLEAN, Ends(caller, reply, foreign),
           op' \in {"start", "idle"}, hist' = [hist EXCEPT !.upset = @ \/ foreign],
           UNCHANGED <<listmode_flag, list_reader_thread, at, fileVars, events, starts>>
    PROVE  TypeOK'
<1>1. /\ phase' = [phase EXCEPT ![caller] = "idle"]
      /\ turns' = turns /\ last' \in Nat
      /\ exchange' \in Seq(PacketType) /\ Len(exchange') = turns
  BY EndsLemma DEF Threads
<1>2. /\ phase' \in [Threads -> {"idle", "waiting", "holding"}]
      /\ \A w \in Workers : at'[w] = "calling" <=> phase'[w] # "idle"
  BY <1>1, ThreadsAssumption DEF TypeOK, Threads
<1>3. hist' \in [accepted : Seq(PacketType), upset : BOOLEAN, doubled : BOOLEAN,
                 abandoned : BOOLEAN, crashed : BOOLEAN]
  BY DEF TypeOK
<1> QED
  BY <1>1, <1>2, <1>3 DEF TypeOK, fileVars

\* ... a worker is started, ...
LEMMA StartTyped == ASSUME TypeOK, NEW w \in Workers, Start(w) PROVE TypeOK'
<1> USE DEF Start, handlerVars, fileVars, deviceVars
<1>1. /\ at' \in [Workers -> {"none", "test", "calling", "write", "finished"}]
      /\ \A v \in Workers : at'[v] = "calling" <=> phase'[v] # "idle"
  BY DEF TypeOK
<1> QED
  BY <1>1 DEF TypeOK

\* ... and waited for and deleted.
LEMMA JoinTyped == ASSUME TypeOK, Join PROVE TypeOK'
<1> USE DEF Join, CloseAndDelete, handlerVars, deviceVars
<1>1. streamfile' \in [open : BOOLEAN, good : BOOLEAN, written : Seq(PacketType)]
  BY DEF TypeOK
<1>2. /\ at' \in [Workers -> {"none", "test", "calling", "write", "finished"}]
      /\ \A v \in Workers : at'[v] = "calling" <=> phase'[v] # "idle"
  BY DEF TypeOK
<1> QED
  BY <1>1, <1>2 DEF TypeOK

\* The detector replies with packets.
LEMMA DeviceTyped ==
    ASSUME TypeOK, NEW r \in 1..turns, NEW n \in 0..FifoSize + 1, DeviceServes(r, n)
    PROVE  TypeOK'
<1>1. n \in Nat
  BY BoundsAssumption
<1>2. exchange \in Seq(PacketType) /\ Len(exchange) = turns /\ turns \in Nat /\ events \in Nat
  BY DEF TypeOK
<1>3. List(Held(n), n > FifoSize) \in PacketType /\ Other \in PacketType
  BY <1>1, <1>2, ListLemma, PacketsLemma
<1>4. \E p \in PacketType : exchange' = [exchange EXCEPT ![r] = p]
  BY <1>3 DEF DeviceServes
<1>5. exchange' \in Seq(PacketType) /\ Len(exchange') = turns
  BY <1>2, <1>4, ExceptSeq
<1>6. events' \in Nat
  BY <1>1, <1>2 DEF DeviceServes
<1> QED
  BY <1>5, <1>6 DEF TypeOK, DeviceServes, handlerVars, fileVars

\* Every step keeps the types.
LEMMA StepTyped == TypeOK /\ [Next]_vars => TypeOK'
<1> SUFFICES ASSUME TypeOK, [Next]_vars PROVE TypeOK'
  OBVIOUS
<1>1. ASSUME NEW exists \in BOOLEAN, Enable(exists) PROVE TypeOK'
  BY <1>1, EnableTyped
<1>2. CASE TimerReset
  BY <1>2, CallerEndsTyped DEF TimerReset
<1>3. ASSUME NEW w \in Workers, Start(w) PROVE TypeOK'
  BY <1>3, StartTyped
<1>4. CASE Disable
  BY <1>4 DEF TypeOK, Disable, handlerVars, fileVars, deviceVars
<1>5. CASE Join
  BY <1>5, JoinTyped
<1>6. CASE Command
  <2>1. /\ phase' \in [Threads -> {"idle", "waiting", "holding"}]
        /\ \A w \in Workers : at'[w] = "calling" <=> phase'[w] # "idle"
    BY <1>6, ThreadsAssumption DEF TypeOK, Command, Handler!Enter, Threads
  <2> QED
    BY <1>6, <2>1 DEF TypeOK, Command, Handler!Enter, fileVars, deviceVars
<1>7. CASE CommandReturns
  BY <1>7, CallerEndsTyped DEF CommandReturns
<1>8. CASE Destroy
  BY <1>8 DEF TypeOK, Destroy, handlerVars, fileVars, deviceVars
<1>9. ASSUME NEW t \in Threads, Send(t) PROVE TypeOK'
  BY <1>9, SendTyped
<1>10. ASSUME NEW w \in Workers, Work(w) \/ UseDestroyed(w) PROVE TypeOK'
  BY <1>10, TestTyped, ReadTyped, WriteTyped, UseDestroyedTyped DEF Work
<1>11. ASSUME NEW r \in 1..turns, NEW n \in 0..FifoSize + 1, DeviceServes(r, n) PROVE TypeOK'
  BY <1>11, DeviceTyped
<1>12. CASE UNCHANGED vars
  BY <1>12 DEF TypeOK, vars, handlerVars, fileVars, deviceVars
<1> QED
  BY <1>1, <1>2, <1>3, <1>4, <1>5, <1>6, <1>7, <1>8, <1>9, <1>10, <1>11, <1>12
     DEF Next, Call, Done

\* The types hold in every state.
LEMMA TypeInvariant == Spec => []TypeOK
BY InitTyped, StepTyped, PTL DEF Spec

-----------------------------------------------------------------------------
(* Who runs.                                                               *)

\* Unless list mode was enabled twice, the only worker there can be is the one
\* that list_reader_thread points to, and none is there while one is started.
Owner ==
    /\ ~hist.doubled => \A w \in Workers : at[w] # "none" => list_reader_thread = w
    /\ ~hist.doubled /\ op \in {"reset", "start"} => list_reader_thread = NoThread
    /\ op = "destroyed" /\ ~hist.abandoned => list_reader_thread = NoThread
    /\ hist.crashed => op = "destroyed" /\ (hist.abandoned \/ hist.doubled)

\* It holds when the program starts, ...
LEMMA InitOwner == Init => Owner
BY DEF Init, Owner

\* ... and every step keeps it.
LEMMA StepOwner == TypeOK /\ Owner /\ [Next]_vars => Owner'
<1> SUFFICES ASSUME TypeOK, Owner, [Next]_vars PROVE Owner'
  OBVIOUS
<1>0. hist \in [accepted : Seq(PacketType), upset : BOOLEAN, doubled : BOOLEAN,
                abandoned : BOOLEAN, crashed : BOOLEAN]
      /\ at \in [Workers -> {"none", "test", "calling", "write", "finished"}]
  BY DEF TypeOK
<1>1. ASSUME NEW exists \in BOOLEAN, Enable(exists) PROVE Owner'
  BY <1>0, <1>1 DEF Owner, Enable, deviceVars
<1>2. CASE TimerReset
  <2>1. hist'.doubled = hist.doubled /\ hist'.abandoned = hist.abandoned
        /\ hist'.crashed = hist.crashed
    BY <1>0, <1>2 DEF TimerReset
  <2> QED
    BY <1>2, <2>1 DEF Owner, TimerReset
<1>3. ASSUME NEW w \in Workers, Start(w) PROVE Owner'
  BY <1>0, <1>3, ThreadsAssumption DEF Owner, Start
<1>4. CASE Disable
  BY <1>4 DEF Owner, Disable
<1>5. CASE Join
  BY <1>0, <1>5, ThreadsAssumption DEF Owner, Join, CloseAndDelete
<1>6. CASE Command
  BY <1>6 DEF Owner, Command
<1>7. CASE CommandReturns
  <2>1. hist'.doubled = hist.doubled /\ hist'.abandoned = hist.abandoned
        /\ hist'.crashed = hist.crashed
    BY <1>0, <1>7 DEF CommandReturns
  <2> QED
    BY <1>7, <2>1 DEF Owner, CommandReturns
<1>8. CASE Destroy
  BY <1>0, <1>8 DEF Owner, Destroy
<1>9. ASSUME NEW t \in Threads, Send(t) PROVE Owner'
  BY <1>9 DEF Owner, Send
<1>10. ASSUME NEW w \in Workers, Work(w) PROVE Owner'
  <2>1. /\ at[w] # "none"
        /\ \A v \in Workers \ {w} : at'[v] = at[v]
        /\ hist'.doubled = hist.doubled /\ hist'.abandoned = hist.abandoned
        /\ hist'.crashed = hist.crashed
        /\ op' = op /\ list_reader_thread' = list_reader_thread
    <3>1. CASE Test(w)
      BY <1>0, <3>1 DEF Test
    <3>2. CASE Read(w)
      BY <1>0, <3>2 DEF Read, Reads
    <3>3. CASE Write(w)
      BY <1>0, <3>3 DEF Write, Writes
    <3> QED
      BY <1>10, <3>1, <3>2, <3>3 DEF Work
  <2> QED
    BY <2>1 DEF Owner
<1>11. ASSUME NEW w \in Workers, UseDestroyed(w) PROVE Owner'
  BY <1>0, <1>11, ThreadsAssumption DEF Owner, UseDestroyed
<1>12. ASSUME NEW r \in 1..turns, NEW n \in 0..FifoSize + 1, DeviceServes(r, n) PROVE Owner'
  BY <1>12 DEF Owner, DeviceServes
<1>13. CASE UNCHANGED vars
  BY <1>13 DEF Owner, vars
<1> QED
  BY <1>1, <1>2, <1>3, <1>4, <1>5, <1>6, <1>7, <1>8, <1>9, <1>10, <1>11, <1>12, <1>13
     DEF Next, Call, Done

\* So it holds in every state.
LEMMA OwnerInvariant == Spec => []Owner
BY InitOwner, StepOwner, TypeInvariant, PTL DEF Spec

-----------------------------------------------------------------------------
(* What the file holds.                                                    *)

\* A stream without an error holds all that was accepted but for a record which
\* is to be written, and is open while a worker runs or is about to.
Filed ==
    ~hist.doubled /\ streamfile.good =>
        /\ (\A w \in Workers : at[w] # "write") => hist.accepted = streamfile.written
        /\ \A w \in Workers :
            at[w] = "write" => hist.accepted = Append(streamfile.written, record[w])
        /\ (op \in {"reset", "start"} \/ \E w \in Workers : at[w] # "none")
            => streamfile.open

\* Also one with an error holds a part of it, from the beginning.
Prefix ==
    ~hist.doubled =>
        /\ Len(streamfile.written) <= Len(hist.accepted)
        /\ \A k \in 1..Len(streamfile.written) : streamfile.written[k] = hist.accepted[k]

\* Both hold when the program starts, ...
LEMMA InitFile == Init => Filed /\ Prefix
BY DEF Init, Filed, Prefix

\* ... and a step keeps them that leaves the file and its history alone, ends no
\* write and starts no worker.
LEMMA FileKept ==
    ASSUME Filed, Prefix, UNCHANGED fileVars,
           \A w \in Workers : /\ at'[w] = "write" <=> at[w] = "write"
                              /\ at'[w] = "none" <=> at[w] = "none",
           hist'.doubled = hist.doubled, hist'.accepted = hist.accepted,
           op' \in {"reset", "start"} => op \in {"reset", "start"}
    PROVE  Filed' /\ Prefix'
BY DEF Filed, Prefix, fileVars

\* What a worker accepts is the record that it will write.
LEMMA ReadFile == ASSUME TypeOK, Owner, Filed, Prefix, NEW w \in Workers, Read(w)
                  PROVE  Filed' /\ Prefix'
<1>1. PICK reply \in Replies, foreign \in BOOLEAN :
        /\ at[w] = "calling"
        /\ Ends(w, reply, foreign)
        /\ at' = [at EXCEPT ![w] = IF reply \in Accepted THEN "write" ELSE "test"]
        /\ record' = [record EXCEPT ![w] = IF reply \in Accepted THEN reply ELSE @]
        /\ hist' = [hist EXCEPT
                !.upset = @ \/ foreign,
                !.accepted = IF reply \in Accepted THEN Append(@, reply) ELSE @]
        /\ UNCHANGED <<op, listmode_flag, list_reader_thread, streamfile, events, starts>>
  BY Zenon DEF Read, Reads
<1>2. /\ hist.accepted \in Seq(PacketType) /\ streamfile.written \in Seq(PacketType)
      /\ at \in [Workers -> {"none", "test", "calling", "write", "finished"}]
      /\ record \in [Workers -> PacketType]
      /\ hist \in [accepted : Seq(PacketType), upset : BOOLEAN, doubled : BOOLEAN,
                   abandoned : BOOLEAN, crashed : BOOLEAN]
  BY DEF TypeOK
<1>3. w \in Threads
  BY DEF Threads
<1>4. reply \in PacketType
  BY <1>1, <1>3, EndsLemma
<1>5. hist'.doubled = hist.doubled
  BY <1>1, <1>2
<1>6. ASSUME ~hist.doubled PROVE \A v \in Workers \ {w} : at[v] = "none" /\ at'[v] = "none"
  BY <1>1, <1>2, <1>6 DEF Owner
<1>7. CASE reply \in Accepted
  <2>1. hist'.accepted = Append(hist.accepted, reply)
    BY <1>1, <1>2, <1>7
  <2>2. record'[w] = reply /\ at'[w] = "write"
    BY <1>1, <1>2, <1>7
  <2>3. Filed'
    <3>1. SUFFICES ASSUME ~hist.doubled, streamfile.good
                   PROVE  /\ hist'.accepted = Append(streamfile.written, record'[w])
                          /\ streamfile.open
      BY <1>1, <1>5, <1>6, <2>2 DEF Filed
    <3>2. hist.accepted = streamfile.written /\ streamfile.open
      BY <1>1, <1>6, <3>1 DEF Filed
    <3> QED
      BY <2>1, <2>2, <3>2
  <2>4. Prefix'
    <3>1. /\ Len(hist'.accepted) = Len(hist.accepted) + 1
          /\ \A k \in 1..Len(hist.accepted) : hist'.accepted[k] = hist.accepted[k]
          /\ Len(hist.accepted) \in Nat /\ Len(streamfile.written) \in Nat
      BY <1>2, <1>4, <2>1, AppendProperties, LenProperties
    <3> QED
      BY <1>1, <1>5, <3>1 DEF Prefix
  <2> QED
    BY <2>3, <2>4
<1>8. CASE reply \notin Accepted
  <2>1. hist'.accepted = hist.accepted /\ at'[w] = "test"
    BY <1>1, <1>2, <1>8
  <2>2. Filed'
    <3>1. SUFFICES ASSUME ~hist.doubled, streamfile.good
                   PROVE  hist.accepted = streamfile.written /\ streamfile.open
      BY <1>1, <1>5, <1>6, <2>1 DEF Filed
    <3> QED
      BY <1>1, <1>6, <3>1 DEF Filed
  <2>3. Prefix'
    BY <1>1, <1>5, <2>1 DEF Prefix
  <2> QED
    BY <2>2, <2>3
<1> QED
  BY <1>7, <1>8

\* What it writes is what it accepted last.
LEMMA WriteFile == ASSUME TypeOK, Owner, Filed, Prefix, NEW w \in Workers, Write(w)
                   PROVE  Filed' /\ Prefix'
<1> USE DEF Write, Writes
<1>1. /\ hist.accepted \in Seq(PacketType) /\ streamfile.written \in Seq(PacketType)
      /\ at \in [Workers -> {"none", "test", "calling", "write", "finished"}]
      /\ record \in [Workers -> PacketType]
      /\ streamfile \in [open : BOOLEAN, good : BOOLEAN, written : Seq(PacketType)]
  BY DEF TypeOK
<1>2. at[w] = "write" /\ at'[w] = "test" /\ hist' = hist /\ op' = op
  BY <1>1
<1>3. ASSUME ~hist.doubled PROVE \A v \in Workers : at'[v] # "write"
  BY <1>1, <1>2, <1>3 DEF Owner
<1>4. CASE streamfile.open /\ streamfile.good
  <2>1. /\ streamfile'.written = Append(streamfile.written, record[w])
        /\ streamfile'.open /\ streamfile'.good
    BY <1>1, <1>4
  <2>2. ~hist.doubled => hist.accepted = streamfile'.written
    BY <1>2, <1>4, <2>1 DEF Filed
  <2> QED
    BY <1>2, <1>3, <2>1, <2>2 DEF Filed, Prefix
<1>5. CASE ~(streamfile.open /\ streamfile.good)
  <2>1. streamfile'.written = streamfile.written /\ ~streamfile'.good
    BY <1>1, <1>5
  <2> QED
    BY <1>2, <2>1 DEF Filed, Prefix
<1> QED
  BY <1>4, <1>5

\* Every step keeps them.
LEMMA StepFile == TypeOK /\ Owner /\ Filed /\ Prefix /\ [Next]_vars => Filed' /\ Prefix'
<1> SUFFICES ASSUME TypeOK, Owner, Filed, Prefix, [Next]_vars PROVE Filed' /\ Prefix'
  OBVIOUS
<1>0. /\ hist \in [accepted : Seq(PacketType), upset : BOOLEAN, doubled : BOOLEAN,
                   abandoned : BOOLEAN, crashed : BOOLEAN]
      /\ at \in [Workers -> {"none", "test", "calling", "write", "finished"}]
      /\ streamfile \in [open : BOOLEAN, good : BOOLEAN, written : Seq(PacketType)]
  BY DEF TypeOK
<1>1. ASSUME NEW exists \in BOOLEAN, Enable(exists) PROVE Filed' /\ Prefix'
  <2> USE <1>1 DEF Enable, deviceVars
  <2>1. CASE exists /\ ~streamfile.open
    <3>1. /\ streamfile' = [open |-> TRUE, good |-> TRUE, written |-> <<>>]
          /\ hist'.accepted = <<>> /\ at' = at
          /\ hist'.doubled = (hist.doubled \/ list_reader_thread # NoThread)
      BY <1>0, <2>1
    <3>2. ~hist'.doubled => \A w \in Workers : at'[w] = "none"
      BY <3>1, ThreadsAssumption DEF Owner
    <3> QED
      BY <3>1, <3>2 DEF Filed, Prefix
  <2>2. CASE ~(exists /\ ~streamfile.open)
    <3>1. /\ ~streamfile'.good /\ streamfile'.written = streamfile.written
          /\ hist'.accepted = hist.accepted
          /\ hist'.doubled = (hist.doubled \/ list_reader_thread # NoThread)
      BY <1>0, <2>2
    <3> QED
      BY <3>1 DEF Filed, Prefix
  <2> QED
    BY <2>1, <2>2
<1>2. CASE TimerReset
  <2>1. hist'.doubled = hist.doubled /\ hist'.accepted = hist.accepted
    BY <1>0, <1>2 DEF TimerReset
  <2> QED
    BY <1>2, <2>1, FileKept DEF TimerReset
<1>3. ASSUME NEW w \in Workers, Start(w) PROVE Filed' /\ Prefix'
  <2> USE <1>3 DEF Start, fileVars
  <2>1. \A v \in Workers : at'[v] = "write" <=> at[v] = "write"
    BY <1>0
  <2>2. op = "start" /\ hist' = hist /\ streamfile' = streamfile /\ record' = record
    OBVIOUS
  <2> QED
    BY <2>1, <2>2 DEF Filed, Prefix
<1>4. CASE Disable
  BY <1>4, FileKept DEF Disable
<1>5. CASE Join
  <2> USE <1>5 DEF Join, CloseAndDelete
  <2>1. \A w \in Workers : at'[w] = "write" <=> at[w] = "write"
    BY <1>0
  <2>2. /\ hist' = hist /\ record' = record /\ op' = "idle"
        /\ streamfile'.written = streamfile.written
        /\ streamfile'.good => streamfile.good
    BY <1>0
  <2>3. ~hist.doubled => \A w \in Workers : at'[w] = "none"
    BY <1>0 DEF Owner
  <2> QED
    BY <2>1, <2>2, <2>3 DEF Filed, Prefix
<1>6. CASE Command
  BY <1>6, FileKept DEF Command
<1>7. CASE CommandReturns
  <2>1. hist'.doubled = hist.doubled /\ hist'.accepted = hist.accepted
    BY <1>0, <1>7 DEF CommandReturns
  <2> QED
    BY <1>7, <2>1, FileKept DEF CommandReturns
<1>8. CASE Destroy
  <2>1. hist'.doubled = hist.doubled /\ hist'.accepted = hist.accepted
    BY <1>0, <1>8 DEF Destroy
  <2> QED
    BY <1>8, <2>1, FileKept DEF Destroy
<1>9. ASSUME NEW t \in Threads, Send(t) PROVE Filed' /\ Prefix'
  BY <1>9, FileKept DEF Send
<1>10. ASSUME NEW w \in Workers, Test(w) PROVE Filed' /\ Prefix'
  <2>1. \A v \in Workers : /\ at'[v] = "write" <=> at[v] = "write"
                           /\ at'[v] = "none" <=> at[v] = "none"
    BY <1>0, <1>10 DEF Test
  <2> QED
    BY <1>10, <2>1, FileKept DEF Test
<1>11. ASSUME NEW w \in Workers, Read(w) \/ Write(w) PROVE Filed' /\ Prefix'
  BY <1>11, ReadFile, WriteFile
<1>12. ASSUME NEW w \in Workers, UseDestroyed(w) PROVE Filed' /\ Prefix'
  <2>1. hist'.doubled = hist.doubled /\ hist'.accepted = hist.accepted
    BY <1>0, <1>12 DEF UseDestroyed
  <2> QED
    BY <1>12, <2>1, FileKept DEF UseDestroyed
<1>13. ASSUME NEW r \in 1..turns, NEW n \in 0..FifoSize + 1, DeviceServes(r, n)
       PROVE  Filed' /\ Prefix'
  BY <1>13, FileKept DEF DeviceServes
<1>14. CASE UNCHANGED vars
  BY <1>14, FileKept DEF vars
<1> QED
  BY <1>1, <1>2, <1>3, <1>4, <1>5, <1>6, <1>7, <1>8, <1>9, <1>10, <1>11, <1>12, <1>13,
     <1>14 DEF Next, Call, Work, Done

\* So they hold in every state.
LEMMA FileInvariant == Spec => [](Filed /\ Prefix)
BY InitFile, StepFile, TypeInvariant, OwnerInvariant, PTL DEF Spec

-----------------------------------------------------------------------------
(* The order of events.                                                    *)

\* The events of a packet come before those of another one; none is later than n.
Below(p, q) == \A a \in DOMAIN p.data, b \in DOMAIN q.data : p.data[a] < q.data[b]
UpTo(p, n) == \A a \in DOMAIN p.data : p.data[a] <= n

\* What is on its way is in the order of the turns and behind what was accepted;
\* what was handed over, or passed over by a later answer, is not on its way.
Order ==
    /\ last <= turns
    /\ \A q \in 1..last : exchange[q] = Gone
    /\ \A q, r \in 1..turns : q < r => Below(exchange[q], exchange[r])
    /\ \A r \in 1..turns : UpTo(exchange[r], events)
    /\ \A k \in DOMAIN hist.accepted :
            /\ UpTo(hist.accepted[k], events)
            /\ \A r \in 1..turns : Below(hist.accepted[k], exchange[r])
    /\ \A j, k \in DOMAIN hist.accepted : j < k => Below(hist.accepted[j], hist.accepted[k])

\* A packet without data is in order with every other.
LEMMA NoData ==
    ASSUME NEW p \in {AskList, AskOther, Other, Garbled, Gone}, NEW q, NEW n
    PROVE  Below(p, q) /\ Below(q, p) /\ UpTo(p, n)
BY PacketsLemma DEF Below, UpTo

\* The order holds when the program starts, ...
LEMMA InitOrder == Init => Order
<1> SUFFICES ASSUME Init PROVE Order
  OBVIOUS
<1>1. turns = 0 /\ last = 0 /\ hist.accepted = <<>>
  BY DEF Init, Handler!Init
<1>2. DOMAIN hist.accepted = {}
  BY <1>1
<1> QED
  BY <1>1, <1>2 DEF Order

\* ... a request does not disturb it, ...
LEMMA SendOrder == ASSUME TypeOK, Order, NEW t \in Threads, Send(t) PROVE Order'
<1> USE DEF Send, Handler!Acquire, fileVars
<1>1. /\ exchange \in Seq(PacketType) /\ Len(exchange) = turns /\ turns \in Nat
      /\ last \in Nat
  BY DEF TypeOK
<1>2. PICK p \in {AskList, AskOther} : exchange' = Append(exchange, p)
  OBVIOUS
<1>3. /\ exchange'[turns + 1] = p
      /\ \A q \in 1..turns : exchange'[q] = exchange[q]
  BY <1>1, <1>2, PacketsLemma, AppendProperties
<1>4. turns' = turns + 1 /\ last' = last /\ events' = events /\ hist' = hist
  OBVIOUS
<1>5. \A r \in 1..turns' : r \in 1..turns \/ (r = turns + 1 /\ exchange'[r] = p)
  BY <1>1, <1>3, <1>4
<1>6. last' <= turns' /\ \A q \in 1..last' : exchange'[q] = Gone
  BY <1>1, <1>3, <1>4 DEF Order
<1>7. \A q, r \in 1..turns' : q < r => Below(exchange'[q], exchange'[r])
  BY <1>1, <1>3, <1>5, NoData DEF Order
<1>8. \A r \in 1..turns' : UpTo(exchange'[r], events')
  BY <1>3, <1>4, <1>5, NoData DEF Order
<1>9. \A k \in DOMAIN hist'.accepted :
            /\ UpTo(hist'.accepted[k], events')
            /\ \A r \in 1..turns' : Below(hist'.accepted[k], exchange'[r])
  BY <1>3, <1>4, <1>5, NoData DEF Order
<1>10. \A j, k \in DOMAIN hist'.accepted :
            j < k => Below(hist'.accepted[j], hist'.accepted[k])
  BY <1>4 DEF Order
<1> QED
  BY <1>6, <1>7, <1>8, <1>9, <1>10 DEF Order

\* ... what is handed over is behind everything accepted and before everything that
\* remains, ...
LEMMA EndsOrder ==
    ASSUME TypeOK, Order, NEW t \in Threads, NEW reply \in Replies, NEW foreign \in BOOLEAN,
           Ends(t, reply, foreign)
    PROVE  /\ last' <= turns /\ turns' = turns
           /\ \A q \in 1..last' : exchange'[q] = Gone
           /\ \A q \in 1..turns : exchange'[q] \in {Gone, exchange[q]}
           /\ UpTo(reply, events)
           /\ \A k \in DOMAIN hist.accepted : Below(hist.accepted[k], reply)
           /\ \A q \in 1..turns : Below(reply, exchange'[q])
<1>1. turns \in Nat /\ last \in Nat
  BY DEF TypeOK
<1>2. CASE \E r \in 1..turns : /\ Handler!Deliver(t, r) /\ reply = exchange[r]
                               /\ exchange' = [q \in 1..turns |->
                                                IF q <= r THEN Gone ELSE exchange[q]]
  <2>1. PICK r \in 1..turns : /\ Handler!Deliver(t, r) /\ reply = exchange[r]
                              /\ exchange' = [q \in 1..turns |->
                                                IF q <= r THEN Gone ELSE exchange[q]]
    BY <1>2
  <2>2. last' = r /\ turns' = turns
    BY <2>1 DEF Handler!Deliver
  <2>3. \A q \in 1..turns : exchange'[q] = IF q <= r THEN Gone ELSE exchange[q]
    BY <2>1
  <2>4. \A q \in 1..turns : Below(reply, exchange'[q])
    <3>1. TAKE q \in 1..turns
    <3>2. CASE q <= r
      BY <2>3, <3>2, NoData
    <3>3. CASE r < q
      BY <2>1, <2>3, <3>3 DEF Order
    <3> QED
      BY <1>1, <3>2, <3>3
  <2>5. UpTo(reply, events) /\ \A k \in DOMAIN hist.accepted : Below(hist.accepted[k], reply)
    BY <2>1 DEF Order
  <2>6. \A q \in 1..last' : exchange'[q] = Gone
    BY <1>1, <2>2, <2>3
  <2>7. \A q \in 1..turns : exchange'[q] \in {Gone, exchange[q]}
    BY <2>3
  <2> QED
    BY <1>1, <2>2, <2>4, <2>5, <2>6, <2>7
<1>3. CASE /\ Handler!DeliverJunk(t) \/ Handler!End(t)
           /\ reply \in {Garbled, Other, Gone}
           /\ UNCHANGED exchange
  <2>1. last' = last /\ turns' = turns
    BY <1>3 DEF Handler!DeliverJunk, Handler!End
  <2>2. /\ UpTo(reply, events)
        /\ \A k \in DOMAIN hist.accepted : Below(hist.accepted[k], reply)
        /\ \A q \in 1..turns : Below(reply, exchange'[q])
    BY <1>3, NoData
  <2> QED
    BY <1>3, <2>1, <2>2 DEF Order
<1> QED
  BY <1>2, <1>3 DEF Ends

\* ... so the order outlives the end of an exchange, ...
LEMMA PassOrder ==
    ASSUME TypeOK, Order, NEW t \in Threads, NEW reply \in Replies, NEW foreign \in BOOLEAN,
           Ends(t, reply, foreign), events' = events,
           hist'.accepted \in {hist.accepted, Append(hist.accepted, reply)}
    PROVE  Order'
<1>1. /\ last' <= turns /\ turns' = turns
      /\ \A q \in 1..last' : exchange'[q] = Gone
      /\ \A q \in 1..turns : exchange'[q] \in {Gone, exchange[q]}
      /\ UpTo(reply, events)
      /\ \A k \in DOMAIN hist.accepted : Below(hist.accepted[k], reply)
      /\ \A q \in 1..turns : Below(reply, exchange'[q])
  BY EndsOrder
<1>2. \A q, r \in 1..turns' : q < r => Below(exchange'[q], exchange'[r])
  BY <1>1, NoData DEF Order
<1>3. \A r \in 1..turns' : UpTo(exchange'[r], events')
  BY <1>1, NoData DEF Order
<1>4. \A k \in DOMAIN hist.accepted :
            /\ UpTo(hist.accepted[k], events')
            /\ \A r \in 1..turns' : Below(hist.accepted[k], exchange'[r])
  BY <1>1, NoData DEF Order
<1>5. CASE hist'.accepted = hist.accepted
  BY <1>1, <1>2, <1>3, <1>4, <1>5 DEF Order
<1>6. CASE hist'.accepted = Append(hist.accepted, reply)
  <2>1. hist.accepted \in Seq(PacketType) /\ reply \in PacketType
    BY EndsLemma DEF TypeOK
  <2>2. /\ Len(hist.accepted) \in Nat
        /\ DOMAIN hist.accepted = 1..Len(hist.accepted)
        /\ DOMAIN hist'.accepted = 1..Len(hist.accepted) + 1
        /\ hist'.accepted[Len(hist.accepted) + 1] = reply
        /\ \A k \in 1..Len(hist.accepted) : hist'.accepted[k] = hist.accepted[k]
    BY <1>6, <2>1, AppendProperties, LenProperties
  <2>3. \A k \in DOMAIN hist'.accepted :
            k \in DOMAIN hist.accepted \/ (k = Len(hist.accepted) + 1 /\ hist'.accepted[k] = reply)
    BY <2>2
  <2>4. \A k \in DOMAIN hist'.accepted :
            /\ UpTo(hist'.accepted[k], events')
            /\ \A r \in 1..turns' : Below(hist'.accepted[k], exchange'[r])
    BY <1>1, <1>4, <2>2, <2>3
  <2>5. \A j, k \in DOMAIN hist'.accepted :
            j < k => Below(hist'.accepted[j], hist'.accepted[k])
    BY <1>1, <2>2, <2>3 DEF Order
  <2> QED
    BY <1>1, <1>2, <1>3, <2>4, <2>5 DEF Order
<1> QED
  BY <1>5, <1>6

\* ... and what the detector hands out next is behind all there is.
LEMMA DeviceOrder ==
    ASSUME TypeOK, Order, NEW r \in 1..turns, NEW n \in 0..FifoSize + 1, DeviceServes(r, n)
    PROVE  Order'
<1>1. /\ exchange \in Seq(PacketType) /\ Len(exchange) = turns /\ turns \in Nat
      /\ last \in Nat /\ events \in Nat /\ n \in Nat
  BY BoundsAssumption DEF TypeOK
<1>2. \A q \in 1..turns : exchange[q] \in PacketType
  BY <1>1, ElementOfSeq
<1>3. /\ last' = last /\ turns' = turns /\ hist' = hist
      /\ exchange[r] \in Requests
      /\ \A q \in 1..turns : last < q /\ exchange[q] \notin Requests => q < r
  BY DEF DeviceServes, handlerVars
<1>4. PICK p \in PacketType :
        /\ exchange' = [exchange EXCEPT ![r] = p]
        /\ \/ p = List(Held(n), n > FifoSize) /\ events' = events + n
           \/ p = Other /\ events' = events
  BY <1>1, ListLemma, PacketsLemma DEF DeviceServes
<1>5. exchange'[r] = p /\ \A q \in 1..turns : q # r => exchange'[q] = exchange[q]
  BY <1>1, <1>4, ExceptSeq
<1>6. /\ events' \in Nat /\ events <= events'
      /\ \A a \in DOMAIN p.data : p.data[a] \in Nat /\ events < p.data[a] /\ p.data[a] <= events'
  <2>1. CASE p = List(Held(n), n > FifoSize) /\ events' = events + n
    <3>1. p.data = Held(n)
      BY <2>1 DEF List, Packet
    <3>2. /\ DOMAIN Held(n) = 1..Len(Held(n)) /\ Len(Held(n)) \in Nat /\ Len(Held(n)) <= n
          /\ \A a \in DOMAIN Held(n) : Held(n)[a] = events + a
      BY <1>1, HeldLemma
    <3>3. ASSUME NEW a \in DOMAIN p.data
          PROVE  p.data[a] \in Nat /\ events < p.data[a] /\ p.data[a] <= events + n
      <4>1. a \in Nat /\ 1 <= a /\ a <= n /\ p.data[a] = events + a
        BY <1>1, <3>1, <3>2
      <4> QED
        BY <1>1, <4>1
    <3>4. events + n \in Nat /\ events <= events + n
      BY <1>1
    <3> QED
      BY <2>1, <3>3, <3>4
  <2>2. CASE p = Other /\ events' = events
    BY <1>1, <2>2, PacketsLemma
  <2> QED
    BY <1>4, <2>1, <2>2
<1>7. last < r
  <2>1. exchange[r] # Gone
    BY <1>3, PacketsLemma
  <2> QED
    BY <1>1, <2>1 DEF Order
<1>8. \A x \in PacketType : UpTo(x, events) => Below(x, p) /\ UpTo(x, events')
  <2> SUFFICES ASSUME NEW x \in PacketType, UpTo(x, events)
               PROVE  Below(x, p) /\ UpTo(x, events')
    OBVIOUS
  <2>1. \A a \in DOMAIN x.data : x.data[a] \in Nat
    <3>1. x.data \in Seq(Nat)
      BY DEF PacketType
    <3> QED
      BY <3>1
  <2> QED
    BY <1>1, <1>6, <2>1 DEF Below, UpTo
<1>9. UpTo(p, events')
  BY <1>6 DEF UpTo
<1>10. \A q \in 1..turns : r < q => exchange[q] \in Requests
  BY <1>1, <1>3, <1>7
<1>11. \A q, s \in 1..turns' : q < s => Below(exchange'[q], exchange'[s])
  <2>1. TAKE q, s \in 1..turns'
  <2>2. HAVE q < s
  <2>3. CASE q = r
    <3>1. exchange'[s] = exchange[s] /\ exchange[s] \in {AskList, AskOther}
      BY <1>1, <1>3, <1>5, <1>10, <2>2, <2>3 DEF Requests
    <3> QED
      BY <3>1, NoData
  <2>4. CASE s = r
    <3>1. exchange'[q] = exchange[q] /\ UpTo(exchange[q], events)
      BY <1>1, <1>3, <1>5, <2>2, <2>4 DEF Order
    <3> QED
      BY <1>2, <1>3, <1>5, <1>8, <2>4, <3>1
  <2>5. CASE q # r /\ s # r
    BY <1>3, <1>5, <2>2, <2>5 DEF Order
  <2> QED
    BY <2>3, <2>4, <2>5
<1>12. \A q \in 1..turns' : UpTo(exchange'[q], events')
  BY <1>2, <1>3, <1>5, <1>8, <1>9 DEF Order
<1>13. \A k \in DOMAIN hist'.accepted :
            /\ UpTo(hist'.accepted[k], events')
            /\ \A q \in 1..turns' : Below(hist'.accepted[k], exchange'[q])
  <2>1. TAKE k \in DOMAIN hist'.accepted
  <2>2. hist.accepted[k] \in PacketType
    <3>1. hist.accepted \in Seq(PacketType)
      BY DEF TypeOK
    <3> QED
      BY <1>3, <3>1
  <2>3. /\ UpTo(hist.accepted[k], events)
        /\ \A q \in 1..turns : Below(hist.accepted[k], exchange[q])
    BY <1>3 DEF Order
  <2> QED
    BY <1>3, <1>5, <1>8, <2>2, <2>3
<1>14. last' <= turns' /\ \A q \in 1..last' : exchange'[q] = Gone
  BY <1>1, <1>3, <1>5, <1>7 DEF Order
<1>15. \A j, k \in DOMAIN hist'.accepted :
            j < k => Below(hist'.accepted[j], hist'.accepted[k])
  BY <1>3 DEF Order
<1> QED
  BY <1>11, <1>12, <1>13, <1>14, <1>15 DEF Order

\* A step keeps the order that leaves alone what it is about, or forgets what was
\* accepted.
LEMMA OrderKept ==
    ASSUME Order, UNCHANGED <<turns, last, exchange, events>>,
           hist'.accepted \in {hist.accepted, <<>>}
    PROVE  Order'
<1>1. CASE hist'.accepted = hist.accepted
  BY <1>1 DEF Order
<1>2. CASE hist'.accepted = <<>>
  <2>1. DOMAIN hist'.accepted = {}
    BY <1>2
  <2> QED
    BY <2>1 DEF Order
<1> QED
  BY <1>1, <1>2

\* Every step keeps the order.
LEMMA StepOrder == TypeOK /\ Order /\ [Next]_vars => Order'
<1> SUFFICES ASSUME TypeOK, Order, [Next]_vars PROVE Order'
  OBVIOUS
<1>0. hist \in [accepted : Seq(PacketType), upset : BOOLEAN, doubled : BOOLEAN,
                abandoned : BOOLEAN, crashed : BOOLEAN]
  BY DEF TypeOK
<1>1. ASSUME NEW exists \in BOOLEAN, Enable(exists) PROVE Order'
  <2>1. hist'.accepted \in {hist.accepted, <<>>}
    BY <1>0, <1>1 DEF Enable
  <2> QED
    BY <1>1, <2>1, OrderKept DEF Enable, Handler!Enter, deviceVars
<1>2. CASE TimerReset \/ CommandReturns
  <2>1. PICK reply \in Replies, foreign \in BOOLEAN :
            /\ Ends(caller, reply, foreign)
            /\ hist' = [hist EXCEPT !.upset = @ \/ foreign]
            /\ events' = events
    BY <1>2 DEF TimerReset, CommandReturns
  <2>2. hist'.accepted = hist.accepted
    BY <1>0, <2>1
  <2> QED
    BY <2>1, <2>2, PassOrder DEF Threads
<1>3. ASSUME NEW w \in Workers, Start(w) PROVE Order'
  BY <1>3, OrderKept DEF Start, handlerVars, deviceVars
<1>4. CASE Disable
  BY <1>4, OrderKept DEF Disable, handlerVars, deviceVars
<1>5. CASE Join
  BY <1>5, OrderKept DEF Join, CloseAndDelete, handlerVars, deviceVars
<1>6. CASE Command
  BY <1>6, OrderKept DEF Command, Handler!Enter, deviceVars
<1>7. CASE Destroy
  <2>1. hist'.accepted = hist.accepted
    BY <1>0, <1>7 DEF Destroy
  <2> QED
    BY <1>7, <2>1, OrderKept DEF Destroy, handlerVars, deviceVars
<1>8. ASSUME NEW t \in Threads, Send(t) PROVE Order'
  BY <1>8, SendOrder
<1>9. ASSUME NEW w \in Workers, Test(w) PROVE Order'
  BY <1>9, OrderKept DEF Test, Handler!Enter, handlerVars, deviceVars
<1>10. ASSUME NEW w \in Workers, Read(w) PROVE Order'
  <2>1. PICK reply \in Replies, foreign \in BOOLEAN :
            /\ Ends(w, reply, foreign)
            /\ hist' = [hist EXCEPT
                    !.upset = @ \/ foreign,
                    !.accepted = IF reply \in Accepted THEN Append(@, reply) ELSE @]
            /\ events' = events
    BY <1>10, Zenon DEF Read, Reads
  <2>2. hist'.accepted \in {hist.accepted, Append(hist.accepted, reply)}
    BY <1>0, <2>1
  <2> QED
    BY <2>1, <2>2, PassOrder DEF Threads
<1>11. ASSUME NEW w \in Workers, Write(w) PROVE Order'
  BY <1>11, OrderKept DEF Write, Writes, handlerVars, deviceVars
<1>12. ASSUME NEW w \in Workers, UseDestroyed(w) PROVE Order'
  <2>1. hist'.accepted = hist.accepted
    BY <1>0, <1>12 DEF UseDestroyed
  <2> QED
    BY <1>12, <2>1, OrderKept DEF UseDestroyed, handlerVars, deviceVars
<1>13. ASSUME NEW r \in 1..turns, NEW n \in 0..FifoSize + 1, DeviceServes(r, n) PROVE Order'
  BY <1>13, DeviceOrder
<1>14. CASE UNCHANGED vars
  BY <1>14, OrderKept DEF vars, handlerVars, deviceVars
<1> QED
  BY <1>1, <1>2, <1>3, <1>4, <1>5, <1>6, <1>7, <1>8, <1>9, <1>10, <1>11, <1>12, <1>13,
     <1>14 DEF Next, Call, Work, Done

\* So it holds in every state.
LEMMA OrderInvariant == Spec => []Order
BY InitOrder, StepOrder, TypeInvariant, PTL DEF Spec

-----------------------------------------------------------------------------
(* No loss unnoticed.                                                      *)

\* One thread at a time has its turn.
Serialised ==
    \A t, u \in Threads : phase[t] = "holding" /\ phase[u] = "holding" => t = u

\* Only list data has data.  As long as every exchange succeeded, nothing is on its
\* way but what belongs to the exchange in progress, and the caller is not handed
\* list data.
InStep ==
    /\ \A q \in 1..turns : exchange[q].kind = "list"
                            \/ exchange[q] \in {AskList, AskOther, Other, Gone}
    /\ ~hist.upset =>
        /\ \A q \in 1..turns :
            exchange[q] # Gone => q = turns /\ \E t \in Threads : phase[t] = "holding"
        /\ phase[caller] = "holding" => exchange[turns] \in {AskOther, Other}

\* Both hold when the program starts, ...
LEMMA InitInStep == Init => Serialised /\ InStep
BY DEF Init, Handler!Init, Serialised, InStep, Threads

\* ... and a step keeps them in which no exchange begins, goes on or ends.
LEMMA InStepKept ==
    ASSUME TypeOK, Serialised, InStep, UNCHANGED <<turns, exchange>>,
           hist'.upset = hist.upset,
           \A t \in Threads : phase'[t] = "holding" <=> phase[t] = "holding"
    PROVE  Serialised' /\ InStep'
BY DEF Serialised, InStep, Threads

\* An exchange begins when none is in progress, ...
LEMMA SendInStep ==
    ASSUME TypeOK, Serialised, InStep, NEW t \in Threads, Send(t)
    PROVE  Serialised' /\ InStep'
<1> USE DEF Send, Handler!Acquire, fileVars
<1>1. /\ exchange \in Seq(PacketType) /\ Len(exchange) = turns /\ turns \in Nat
      /\ phase \in [Threads -> {"idle", "waiting", "holding"}]
  BY DEF TypeOK
<1>2. /\ \A u \in Threads : phase[u] # "holding"
      /\ phase' = [phase EXCEPT ![t] = "holding"]
      /\ turns' = turns + 1 /\ hist' = hist
  OBVIOUS
<1>3. \A u \in Threads : phase'[u] = "holding" <=> u = t
  BY <1>1, <1>2
<1>4. PICK p \in {AskList, AskOther} :
        exchange' = Append(exchange, p) /\ (t \notin Workers => p = AskOther)
  OBVIOUS
<1>5. /\ exchange'[turns + 1] = p
      /\ \A q \in 1..turns : exchange'[q] = exchange[q]
  BY <1>1, <1>4, PacketsLemma, AppendProperties
<1>6. \A q \in 1..turns' : q \in 1..turns \/ q = turns'
  BY <1>1, <1>2
<1>7. \A q \in 1..turns' : exchange'[q].kind = "list"
                            \/ exchange'[q] \in {AskList, AskOther, Other, Gone}
  BY <1>2, <1>5, <1>6 DEF InStep
<1>8. ~hist.upset => \A q \in 1..turns : exchange'[q] = Gone
  BY <1>2, <1>5 DEF InStep
<1>9. phase'[caller] = "holding" => exchange'[turns'] = AskOther
  BY <1>2, <1>3, <1>4, <1>5, ThreadsAssumption DEF Threads
<1>10. Serialised'
  BY <1>3 DEF Serialised
<1>11. InStep'
  BY <1>2, <1>3, <1>6, <1>7, <1>8, <1>9 DEF InStep
<1> QED
  BY <1>10, <1>11

\* ... an exchange that succeeds leaves nothing behind, and hands over what belongs
\* to it, ...
LEMMA EndsInStep ==
    ASSUME TypeOK, Order, Serialised, InStep,
           NEW t \in Threads, NEW reply \in Replies, NEW foreign \in BOOLEAN,
           Ends(t, reply, foreign), hist'.upset = (hist.upset \/ foreign)
    PROVE  /\ Serialised' /\ InStep' /\ turns' = turns
           /\ ~hist'.upset => /\ turns \in 1..turns /\ reply = exchange[turns]
                              /\ \A q \in 1..turns : exchange'[q] = Gone
<1>1. /\ phase[t] = "holding" /\ phase' = [phase EXCEPT ![t] = "idle"] /\ turns' = turns
      /\ phase \in [Threads -> {"idle", "waiting", "holding"}] /\ turns \in Nat
  BY EndsLemma DEF TypeOK
<1>2. \A u \in Threads : phase'[u] # "holding"
  BY <1>1 DEF Serialised
<1>3. \A q \in 1..turns : exchange'[q] \in {Gone, exchange[q]}
  BY EndsOrder
<1>4. ~hist'.upset => /\ turns \in 1..turns /\ reply = exchange[turns]
                      /\ \A q \in 1..turns : exchange'[q] = Gone
  <2>1. SUFFICES ASSUME ~hist.upset, ~foreign
                 PROVE  /\ turns \in 1..turns /\ reply = exchange[turns]
                        /\ \A q \in 1..turns : exchange'[q] = Gone
    OBVIOUS
  <2>2. PICK r \in 1..turns : /\ reply = exchange[r] /\ r = turns
                              /\ exchange' = [q \in 1..turns |->
                                                IF q <= r THEN Gone ELSE exchange[q]]
    BY <2>1 DEF Ends
  <2> QED
    BY <1>1, <2>2
<1>5. Serialised'
  BY <1>2 DEF Serialised
<1>6. InStep'
  <2>1. \A q \in 1..turns' : exchange'[q].kind = "list"
                              \/ exchange'[q] \in {AskList, AskOther, Other, Gone}
    BY <1>1, <1>3 DEF InStep
  <2>2. caller \in Threads
    BY DEF Threads
  <2> QED
    BY <1>1, <1>2, <1>4, <2>1, <2>2 DEF InStep
<1> QED
  BY <1>1, <1>4, <1>5, <1>6

\* ... and the detector serves the one in progress.
LEMMA DeviceInStep ==
    ASSUME TypeOK, Serialised, InStep,
           NEW r \in 1..turns, NEW n \in 0..FifoSize + 1, DeviceServes(r, n)
    PROVE  Serialised' /\ InStep'
<1>1. /\ exchange \in Seq(PacketType) /\ Len(exchange) = turns /\ turns \in Nat
      /\ events \in Nat /\ n \in Nat
  BY BoundsAssumption DEF TypeOK
<1>2. /\ exchange[r] \in Requests /\ phase' = phase /\ turns' = turns /\ hist' = hist
  BY DEF DeviceServes, handlerVars
<1>3. PICK p \in PacketType :
        /\ exchange' = [exchange EXCEPT ![r] = p]
        /\ p.kind = "list" \/ p = Other
        /\ exchange[r] # AskList => p = Other
  <2>1. List(Held(n), n > FifoSize).kind = "list"
    BY DEF List, Packet
  <2> QED
    BY <1>1, <2>1, ListLemma, PacketsLemma DEF DeviceServes
<1>4. exchange'[r] = p /\ \A q \in 1..turns : q # r => exchange'[q] = exchange[q]
  BY <1>1, <1>3, ExceptSeq
<1>5. exchange[r] # Gone
  BY <1>2, PacketsLemma
<1>6. AskOther # AskList /\ Other # AskList
  BY DEF AskOther, AskList, Other, Packet
<1>7. ~hist.upset => r = turns
  BY <1>5 DEF InStep
<1>8. InStep'
  BY <1>2, <1>3, <1>4, <1>5, <1>6, <1>7 DEF InStep
<1>9. Serialised'
  BY <1>2 DEF Serialised
<1> QED
  BY <1>8, <1>9

\* The first event after those of packet p is n, or p says that some are missing.
Adjoin(p, n) == p.full \/ n = p.data[Len(p.data)] + 1

\* The first event that is still to be accepted.
Coming == IF turns > 0 /\ exchange[turns].data # <<>> THEN exchange[turns].data[1] ELSE events + 1

\* As long as every exchange succeeded, what was accepted adjoins, and so does what
\* is on its way.
Chain ==
    ~hist.upset =>
        /\ \A k \in DOMAIN hist.accepted : hist.accepted[k].data # <<>>
        /\ \A k \in 1..Len(hist.accepted) - 1 :
            Adjoin(hist.accepted[k], hist.accepted[k + 1].data[1])
        /\ hist.accepted # <<>> => Adjoin(hist.accepted[Len(hist.accepted)], Coming)
        /\ \A q \in 1..turns : exchange[q].data # <<>> => Adjoin(exchange[q], events + 1)

\* It holds when the program starts, ...
LEMMA InitChain == Init => Chain
<1> SUFFICES ASSUME Init PROVE Chain
  OBVIOUS
<1>1. turns = 0 /\ hist.accepted = <<>> /\ Len(<<>>) = 0
  BY DEF Init, Handler!Init
<1> QED
  BY <1>1 DEF Chain

\* ... and a step keeps it that leaves alone what it is about, or forgets what was
\* accepted.
LEMMA ChainKept ==
    ASSUME Chain, UNCHANGED <<turns, exchange, events>>, hist'.upset = hist.upset,
           hist'.accepted \in {hist.accepted, <<>>}
    PROVE  Chain'
<1>1. Coming' = Coming
  BY DEF Coming
<1>2. CASE hist'.accepted = hist.accepted
  BY <1>1, <1>2 DEF Chain
<1>3. CASE hist'.accepted = <<>>
  <2>1. DOMAIN hist'.accepted = {} /\ 1..Len(hist'.accepted) - 1 = {}
    BY <1>3
  <2> QED
    BY <1>3, <2>1 DEF Chain
<1> QED
  BY <1>2, <1>3

\* A request changes nothing about it, ...
LEMMA SendChain ==
    ASSUME TypeOK, InStep, Chain, NEW t \in Threads, Send(t)
    PROVE  Chain'
<1> USE DEF Send, Handler!Acquire, fileVars
<1>1. /\ exchange \in Seq(PacketType) /\ Len(exchange) = turns /\ turns \in Nat
  BY DEF TypeOK
<1>2. /\ \A u \in Threads : phase[u] # "holding"
      /\ turns' = turns + 1 /\ hist' = hist /\ events' = events
  OBVIOUS
<1>3. PICK p \in {AskList, AskOther} : exchange' = Append(exchange, p)
  OBVIOUS
<1>4. /\ exchange'[turns + 1] = p /\ p.data = <<>>
      /\ \A q \in 1..turns : exchange'[q] = exchange[q]
  BY <1>1, <1>3, PacketsLemma, AppendProperties
<1>5. ~hist.upset => Coming = events + 1
  <2>1. Gone.data = <<>>
    BY PacketsLemma
  <2> QED
    BY <1>1, <1>2, <2>1 DEF InStep, Coming
<1>6. Coming' = events + 1
  BY <1>2, <1>4 DEF Coming
<1>7. \A q \in 1..turns' : q \in 1..turns \/ exchange'[q].data = <<>>
  BY <1>1, <1>2, <1>4
<1> QED
  BY <1>2, <1>4, <1>5, <1>6, <1>7 DEF Chain

\* ... what a worker accepts is what was coming, ...
LEMMA ReadChain ==
    ASSUME TypeOK, Order, Serialised, InStep, Chain, NEW w \in Workers, Read(w)
    PROVE  Chain'
<1>1. PICK reply \in Replies, foreign \in BOOLEAN :
        /\ Ends(w, reply, foreign)
        /\ hist' = [hist EXCEPT
                !.upset = @ \/ foreign,
                !.accepted = IF reply \in Accepted THEN Append(@, reply) ELSE @]
        /\ events' = events
  BY Zenon DEF Read, Reads
<1>2. hist \in [accepted : Seq(PacketType), upset : BOOLEAN, doubled : BOOLEAN,
                abandoned : BOOLEAN, crashed : BOOLEAN] /\ turns \in Nat
  BY DEF TypeOK
<1>3. /\ hist'.upset = (hist.upset \/ foreign)
      /\ hist'.accepted = IF reply \in Accepted THEN Append(hist.accepted, reply)
                          ELSE hist.accepted
  BY <1>1, <1>2
<1>4. w \in Threads
  BY DEF Threads
<1>5. /\ turns' = turns
      /\ ~hist'.upset => /\ turns \in 1..turns /\ reply = exchange[turns]
                         /\ \A q \in 1..turns : exchange'[q] = Gone
  BY <1>1, <1>3, <1>4, EndsInStep
<1>6. SUFFICES ASSUME ~hist'.upset PROVE Chain'
  BY DEF Chain
<1>7. ~hist.upset
  BY <1>3, <1>6
<1>8. \A q \in 1..turns' : exchange'[q].data = <<>>
  BY <1>5, <1>6, PacketsLemma
<1>9. Coming' = events + 1
  BY <1>1, <1>2, <1>5, <1>8 DEF Coming
<1>10. CASE reply \in Accepted /\ reply.data # <<>>
  <2>1. Coming = reply.data[1] /\ Adjoin(reply, events + 1)
    BY <1>2, <1>5, <1>6, <1>7, <1>10 DEF Coming, Chain
  <2>2. hist.accepted \in Seq(PacketType) /\ reply \in PacketType
    BY <1>1, <1>2, <1>4, EndsLemma
  <2>3. hist'.accepted = Append(hist.accepted, reply)
    BY <1>3, <1>10
  <2>4. /\ Len(hist.accepted) \in Nat
        /\ DOMAIN hist.accepted = 1..Len(hist.accepted)
        /\ DOMAIN hist'.accepted = 1..Len(hist.accepted) + 1
        /\ Len(hist'.accepted) = Len(hist.accepted) + 1
        /\ hist'.accepted[Len(hist.accepted) + 1] = reply
        /\ \A k \in 1..Len(hist.accepted) : hist'.accepted[k] = hist.accepted[k]
        /\ hist.accepted = <<>> <=> Len(hist.accepted) = 0
    BY <2>2, <2>3, AppendProperties, LenProperties, EmptySeq
  <2>5. \A k \in DOMAIN hist'.accepted : hist'.accepted[k].data # <<>>
    BY <1>7, <1>10, <2>4 DEF Chain
  <2>6. ASSUME NEW k \in 1..Len(hist'.accepted) - 1
        PROVE  Adjoin(hist'.accepted[k], hist'.accepted[k + 1].data[1])
    <3>1. CASE k = Len(hist.accepted)
      <4>1. Adjoin(hist.accepted[k], reply.data[1])
        BY <1>7, <2>1, <2>4, <3>1 DEF Chain
      <4> QED
        BY <2>4, <3>1, <4>1
    <3>2. CASE k # Len(hist.accepted)
      <4>1. k \in 1..Len(hist.accepted) - 1 /\ k + 1 \in 1..Len(hist.accepted)
        BY <2>4, <3>2
      <4>2. Adjoin(hist.accepted[k], hist.accepted[k + 1].data[1])
        BY <1>7, <4>1 DEF Chain
      <4>3. hist'.accepted[k] = hist.accepted[k] /\ hist'.accepted[k + 1] = hist.accepted[k + 1]
        BY <2>4, <4>1
      <4> QED
        BY <4>2, <4>3
    <3> QED
      BY <3>1, <3>2
  <2>7. Adjoin(hist'.accepted[Len(hist'.accepted)], Coming')
    BY <1>9, <2>1, <2>4
  <2> QED
    BY <1>8, <2>5, <2>6, <2>7 DEF Chain
<1>11. CASE ~(reply \in Accepted /\ reply.data # <<>>)
  <2>1. reply.kind = "list" \/ reply \in {AskList, AskOther, Other, Gone}
    BY <1>5, <1>6 DEF InStep
  <2>2. reply \notin Accepted /\ reply.data = <<>>
    <3>1. CASE reply.kind = "list"
      <4>1. reply \in Accepted <=> reply.data # <<>>
        BY <1>1, <3>1 DEF Accepted
      <4> QED
        BY <1>11, <4>1
    <3>2. CASE reply \in {AskList, AskOther, Other, Gone}
      <4>1. reply.data = <<>> /\ reply.kind # "garbled"
        BY <3>2 DEF AskList, AskOther, Other, Gone, Packet
      <4> QED
        BY <4>1 DEF Accepted
    <3> QED
      BY <2>1, <3>1, <3>2
  <2>3. hist'.accepted = hist.accepted
    BY <1>3, <2>2
  <2>4. Coming = events + 1
    BY <1>5, <1>6, <2>2 DEF Coming
  <2> QED
    BY <1>7, <1>8, <1>9, <2>3, <2>4 DEF Chain
<1> QED
  BY <1>10, <1>11

\* ... what the caller is handed has no data, ...
LEMMA CallerChain ==
    ASSUME TypeOK, Order, Serialised, InStep, Chain,
           NEW reply \in Replies, NEW foreign \in BOOLEAN,
           Ends(caller, reply, foreign), hist' = [hist EXCEPT !.upset = @ \/ foreign],
           events' = events
    PROVE  Chain'
<1>1. caller \in Threads /\ turns \in Nat
  BY DEF Threads, TypeOK
<1>2. hist'.upset = (hist.upset \/ foreign) /\ hist'.accepted = hist.accepted
  BY DEF TypeOK
<1>3. /\ turns' = turns
      /\ ~hist'.upset => /\ turns \in 1..turns /\ reply = exchange[turns]
                         /\ \A q \in 1..turns : exchange'[q] = Gone
  BY <1>1, <1>2, EndsInStep
<1>4. SUFFICES ASSUME ~hist'.upset PROVE Chain'
  BY DEF Chain
<1>5. phase[caller] = "holding"
  BY <1>1, EndsLemma
<1>6. exchange[turns].data = <<>>
  BY <1>2, <1>4, <1>5, PacketsLemma DEF InStep
<1>7. \A q \in 1..turns' : exchange'[q].data = <<>>
  BY <1>3, <1>4, PacketsLemma
<1>8. Coming = events + 1 /\ Coming' = events + 1
  BY <1>1, <1>3, <1>6, <1>7 DEF Coming
<1> QED
  BY <1>2, <1>4, <1>7, <1>8 DEF Chain

\* ... and the detector goes on where it was, or says FULL.
LEMMA DeviceChain ==
    ASSUME TypeOK, InStep, Chain,
           NEW r \in 1..turns, NEW n \in 0..FifoSize + 1, DeviceServes(r, n)
    PROVE  Chain'
<1>1. /\ exchange \in Seq(PacketType) /\ Len(exchange) = turns /\ turns \in Nat
      /\ events \in Nat /\ n \in Nat /\ FifoSize \in Nat \ {0}
  BY BoundsAssumption DEF TypeOK
<1>2. /\ exchange[r] \in Requests /\ turns' = turns /\ hist' = hist
  BY DEF DeviceServes, handlerVars
<1>3. PICK p \in PacketType :
        /\ exchange' = [exchange EXCEPT ![r] = p]
        /\ \/ p = List(Held(n), n > FifoSize) /\ events' = events + n
           \/ p = Other /\ events' = events
  BY <1>1, ListLemma, PacketsLemma DEF DeviceServes
<1>4. exchange'[r] = p /\ \A q \in 1..turns : q # r => exchange'[q] = exchange[q]
  BY <1>1, <1>3, ExceptSeq
<1>5. SUFFICES ASSUME ~hist.upset PROVE Chain'
  BY <1>2 DEF Chain
<1>6. r = turns /\ \A q \in 1..turns : q # r => exchange'[q].data = <<>>
  <2>1. exchange[r] # Gone
    BY <1>2, PacketsLemma
  <2> QED
    BY <1>4, <1>5, <2>1, PacketsLemma DEF InStep
<1>7. Coming = events + 1
  BY <1>2, <1>6, PacketsLemma DEF Coming, Requests
<1>8. /\ p.data # <<>> => p.data[1] = events + 1 /\ Adjoin(p, events' + 1)
      /\ p.data = <<>> => events' = events
  <2>1. CASE p = List(Held(n), n > FifoSize) /\ events' = events + n
    <3>1. p.data = Held(n) /\ p.full = (n > FifoSize)
      BY <2>1 DEF List, Packet
    <3>2. /\ Held(n) \in Seq(Nat)
          /\ DOMAIN Held(n) = 1..Len(Held(n))
          /\ Len(Held(n)) = IF n < FifoSize THEN n ELSE FifoSize
          /\ Len(Held(n)) \in Nat
          /\ \A k \in DOMAIN Held(n) : Held(n)[k] = events + k
      BY <1>1, HeldLemma
    <3>3. Held(n) = <<>> <=> Len(Held(n)) = 0
      BY <3>2, EmptySeq
    <3>4. CASE Held(n) = <<>>
      <4>1. n = 0
        BY <1>1, <3>2, <3>3, <3>4
      <4> QED
        BY <1>1, <2>1, <3>1, <3>4, <4>1
    <3>5. CASE Held(n) # <<>>
      <4>1. Held(n)[1] = events + 1 /\ Held(n)[Len(Held(n))] = events + Len(Held(n))
        BY <3>2, <3>3, <3>5
      <4>2. n > FifoSize \/ Len(Held(n)) = n
        BY <1>1, <3>2
      <4> QED
        BY <1>1, <2>1, <3>1, <3>5, <4>1, <4>2 DEF Adjoin
    <3> QED
      BY <3>4, <3>5
  <2>2. CASE p = Other /\ events' = events
    BY <2>2, PacketsLemma
  <2> QED
    BY <1>3, <2>1, <2>2
<1>9. Coming' = Coming
  BY <1>1, <1>2, <1>4, <1>6, <1>7, <1>8 DEF Coming
<1>10. \A q \in 1..turns' : exchange'[q].data # <<>> => Adjoin(exchange'[q], events' + 1)
  BY <1>2, <1>4, <1>6, <1>8
<1> QED
  BY <1>2, <1>5, <1>9, <1>10 DEF Chain

\* Every step keeps the exchanges in step and what was accepted in a chain.
LEMMA StepChain ==
    TypeOK /\ Order /\ Serialised /\ InStep /\ Chain /\ [Next]_vars
        => Serialised' /\ InStep' /\ Chain'
<1> SUFFICES ASSUME TypeOK, Order, Serialised, InStep, Chain, [Next]_vars
             PROVE  Serialised' /\ InStep' /\ Chain'
  OBVIOUS
<1>0. /\ hist \in [accepted : Seq(PacketType), upset : BOOLEAN, doubled : BOOLEAN,
                   abandoned : BOOLEAN, crashed : BOOLEAN]
      /\ phase \in [Threads -> {"idle", "waiting", "holding"}]
      /\ caller \in Threads /\ Workers \subseteq Threads
  BY DEF TypeOK, Threads
<1>1. ASSUME NEW exists \in BOOLEAN, Enable(exists) PROVE Serialised' /\ InStep' /\ Chain'
  <2>1. hist'.accepted \in {hist.accepted, <<>>} /\ hist'.upset = hist.upset
    BY <1>0, <1>1 DEF Enable
  <2>2. /\ \A t \in Threads : phase'[t] = "holding" <=> phase[t] = "holding"
        /\ UNCHANGED <<turns, exchange, events>>
    BY <1>0, <1>1 DEF Enable, Handler!Enter, deviceVars
  <2> QED
    BY <2>1, <2>2, InStepKept, ChainKept
<1>2. CASE TimerReset \/ CommandReturns
  <2>1. PICK reply \in Replies, foreign \in BOOLEAN :
            /\ Ends(caller, reply, foreign)
            /\ hist' = [hist EXCEPT !.upset = @ \/ foreign]
            /\ events' = events
    BY <1>2 DEF TimerReset, CommandReturns
  <2>2. hist'.upset = (hist.upset \/ foreign)
    BY <1>0, <2>1
  <2> QED
    BY <1>0, <2>1, <2>2, EndsInStep, CallerChain
<1>3. ASSUME NEW w \in Workers, Start(w) PROVE Serialised' /\ InStep' /\ Chain'
  BY <1>3, InStepKept, ChainKept DEF Start, handlerVars, deviceVars
<1>4. CASE Disable
  BY <1>4, InStepKept, ChainKept DEF Disable, handlerVars, deviceVars
<1>5. CASE Join
  BY <1>5, InStepKept, ChainKept DEF Join, CloseAndDelete, handlerVars, deviceVars
<1>6. CASE Command
  <2>1. /\ \A t \in Threads : phase'[t] = "holding" <=> phase[t] = "holding"
        /\ UNCHANGED <<turns, exchange, events, hist>>
    BY <1>0, <1>6 DEF Command, Handler!Enter, deviceVars
  <2> QED
    BY <2>1, InStepKept, ChainKept
<1>7. CASE Destroy
  <2>1. hist'.accepted = hist.accepted /\ hist'.upset = hist.upset
    BY <1>0, <1>7 DEF Destroy
  <2> QED
    BY <1>7, <2>1, InStepKept, ChainKept DEF Destroy, handlerVars, deviceVars
<1>8. ASSUME NEW t \in Threads, Send(t) PROVE Serialised' /\ InStep' /\ Chain'
  BY <1>8, SendInStep, SendChain
<1>9. ASSUME NEW w \in Workers, Test(w) PROVE Serialised' /\ InStep' /\ Chain'
  <2>1. /\ \A t \in Threads : phase'[t] = "holding" <=> phase[t] = "holding"
        /\ UNCHANGED <<turns, exchange, events, hist>>
    BY <1>0, <1>9 DEF Test, Handler!Enter, handlerVars, deviceVars
  <2> QED
    BY <2>1, InStepKept, ChainKept
<1>10. ASSUME NEW w \in Workers, Read(w) PROVE Serialised' /\ InStep' /\ Chain'
  <2>1. PICK reply \in Replies, foreign \in BOOLEAN :
            /\ Ends(w, reply, foreign)
            /\ hist' = [hist EXCEPT
                    !.upset = @ \/ foreign,
                    !.accepted = IF reply \in Accepted THEN Append(@, reply) ELSE @]
    BY <1>10, Zenon DEF Read, Reads
  <2>2. hist'.upset = (hist.upset \/ foreign)
    BY <1>0, <2>1
  <2> QED
    BY <1>0, <1>10, <2>1, <2>2, EndsInStep, ReadChain
<1>11. ASSUME NEW w \in Workers, Write(w) PROVE Serialised' /\ InStep' /\ Chain'
  BY <1>11, InStepKept, ChainKept DEF Write, Writes, handlerVars, deviceVars
<1>12. ASSUME NEW w \in Workers, UseDestroyed(w) PROVE Serialised' /\ InStep' /\ Chain'
  <2>1. hist'.accepted = hist.accepted /\ hist'.upset = hist.upset
    BY <1>0, <1>12 DEF UseDestroyed
  <2> QED
    BY <1>12, <2>1, InStepKept, ChainKept DEF UseDestroyed, handlerVars, deviceVars
<1>13. ASSUME NEW r \in 1..turns, NEW n \in 0..FifoSize + 1, DeviceServes(r, n)
       PROVE  Serialised' /\ InStep' /\ Chain'
  BY <1>13, DeviceInStep, DeviceChain
<1>14. CASE UNCHANGED vars
  BY <1>14, InStepKept, ChainKept DEF vars, handlerVars, deviceVars
<1> QED
  BY <1>1, <1>2, <1>3, <1>4, <1>5, <1>6, <1>7, <1>8, <1>9, <1>10, <1>11, <1>12, <1>13,
     <1>14 DEF Next, Call, Work, Done

\* So they hold in every state.
LEMMA ChainInvariant == Spec => [](Serialised /\ InStep /\ Chain)
BY InitInStep, InitChain, StepChain, TypeInvariant, OrderInvariant, PTL DEF Spec

-----------------------------------------------------------------------------
(* The theorems.                                                           *)

\* The variables hold values of their types, for any number of workers.
THEOREM TypeCorrect == Spec => []TypeOK
BY TypeInvariant

\* After DisableListMode, or before EnableListMode, no worker runs, unless list mode
\* was once enabled twice; only then, or if it was enabled when the object was
\* destroyed, does anybody use the destroyed object.
THEOREM WorkerStops == Spec => []DisabledMeansStopped
<1>1. Owner => DisabledMeansStopped
  BY ThreadsAssumption DEF Owner, DisabledMeansStopped
<1> QED
  BY <1>1, OwnerInvariant, PTL

\* The file that DisableListMode closed without an error holds all that the worker
\* accepted for it.
THEOREM FileIsComplete == Spec => []FileComplete
<1>1. Filed => FileComplete
  BY DEF Filed, FileComplete
<1> QED
  BY <1>1, FileInvariant, PTL

\* The events in the file are in the order in which the detector recorded them, each
\* at most once, whatever answers were late and whoever got them.
THEOREM FileIsInOrder == Spec => []FileInOrder
<1>1. TypeOK /\ Prefix /\ Order => FileInOrder
  <2> SUFFICES ASSUME TypeOK, Prefix, Order, ~hist.doubled,
                      NEW j \in Data, NEW k \in Data, j < k,
                      NEW a \in DOMAIN Number(j), NEW b \in DOMAIN Number(k)
               PROVE  Number(j)[a] < Number(k)[b]
    BY DEF FileInOrder
  <2>1. /\ streamfile.written \in Seq(PacketType) /\ hist.accepted \in Seq(PacketType)
    BY DEF TypeOK
  <2>2. j \in 1..Len(streamfile.written) /\ k \in 1..Len(streamfile.written)
    BY <2>1 DEF Data
  <2>3. /\ streamfile.written[j] = hist.accepted[j] /\ streamfile.written[k] = hist.accepted[k]
        /\ j \in DOMAIN hist.accepted /\ k \in DOMAIN hist.accepted
    BY <2>1, <2>2, LenProperties DEF Prefix
  <2>4. Below(hist.accepted[j], hist.accepted[k])
    BY <2>3 DEF Order
  <2> QED
    BY <2>3, <2>4 DEF Below, Number
<1> QED
  BY <1>1, TypeInvariant, FileInvariant, OrderInvariant, PTL
\* Where events are missing in the file, the packet before says FULL, as long as every
\* exchange succeeded.
THEOREM NoLossUnmarked == Spec => []LossIsMarked
<1>1. TypeOK /\ Prefix /\ Chain => LossIsMarked
  <2> SUFFICES ASSUME TypeOK, Prefix, Chain, ~hist.upset, ~hist.doubled,
                      NEW k \in 1..Len(streamfile.written) - 1
               PROVE  \/ streamfile.written[k].full
                      \/ Number(k + 1)[1] = Number(k)[Len(Number(k))] + 1
    BY DEF LossIsMarked
  <2>1. /\ Len(streamfile.written) \in Nat /\ Len(hist.accepted) \in Nat
    BY LenProperties DEF TypeOK
  <2>2. /\ k \in 1..Len(streamfile.written) /\ k + 1 \in 1..Len(streamfile.written)
        /\ k \in 1..Len(hist.accepted) - 1
    BY <2>1 DEF Prefix
  <2>3. /\ streamfile.written[k] = hist.accepted[k]
        /\ streamfile.written[k + 1] = hist.accepted[k + 1]
    BY <2>2 DEF Prefix
  <2>4. Adjoin(hist.accepted[k], hist.accepted[k + 1].data[1])
    BY <2>2 DEF Chain
  <2> QED
    BY <2>3, <2>4 DEF Adjoin, Number
<1> QED
  BY <1>1, TypeInvariant, FileInvariant, ChainInvariant, PTL
=============================================================================
