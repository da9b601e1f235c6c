------------------------ MODULE UdpConnectionHandler ------------------------
(***************************************************************************)
(* AmptekUdpConnectionHandler: one UDP socket shared by the threads of a   *)
(* program (the caller of AmptekHardwareInterface and its list-mode        *)
(* worker), a semaphore mu that serialises them, and a device at the other *)
(* end that answers each request with one reply cut into datagrams.        *)
(*                                                                         *)
(* Packets carry no request identifier.  Here every turn of the semaphore  *)
(* has a number and a datagram is tagged with the number of the turn it    *)
(* answers; the code cannot see the tag, and no guard of the code's own    *)
(* actions reads it except to tell whether a reassembled packet is one the *)
(* device sent.                                                            *)
(*                                                                         *)
(* inbound holds the datagrams on the wire and those in the socket buffer  *)
(* alike, so a receive may time out although a datagram is on its way.     *)
(* The network loses datagrams; it neither reorders nor duplicates them    *)
(* (the device sits on the local network, and the code handles neither).   *)
(***************************************************************************)
EXTENDS Integers, Sequences, FiniteSets

CONSTANTS Threads,    \* the threads that share the connection
          Hosts,      \* kinds of host name: "address", "name", "unknown"
          Timeouts,   \* values of the timeout argument, in units of 100 ns
          MaxTurns,   \* bound: calls that are made
          MaxFrags    \* bound: datagrams of one reply

ASSUME BoundsAssumption == MaxTurns \in Nat /\ MaxFrags \in Nat \ {0}
ASSUME TimeoutsAssumption == Timeouts \subseteq Int
ASSUME HostsAssumption == Hosts \subseteq {"address", "name", "unknown"}

VARIABLES
    peer,       \* where sendto goes: "none" before connect, "device", "broadcast"
    rcvtimeo,   \* SO_RCVTIMEO in microseconds; 0 blocks for ever
    mu,         \* the semaphore's value
    pc,         \* where each thread is in its call
    turns,      \* turns of the semaphore so far
    turn,       \* the turn of each thread's latest call
    packet,     \* the packet each thread is reassembling
    outbound,   \* the requests on their way to the device
    reply,      \* the reply the device is sending
    inbound,    \* the datagrams on their way back or in the socket buffer
    last,       \* history: the turn whose answer was returned last
    answer,     \* what each thread's latest call returned
    quiet,      \* history: nothing was outstanding when the thread sent
    upset,      \* history: a call that had sent its request got no answer of the device
    crashed     \* a packet_buffer overrun ended the process

callVars == <<pc, mu, packet, answer>>
netVars  == <<outbound, reply, inbound>>
linkVars == <<peer, rcvtimeo>>
vars == <<linkVars, callVars, netVars, turns, turn, last, quiet, upset, crashed>>

NoAnswer == 0
Junk == -1
NoPacket == [turn |-> 0, got |-> 0, of |-> 0]
NoReply == [turn |-> 0, sent |-> 0, of |-> 0]

Waiting == {"wait", "drainwait"}
Holding == {"send", "recv", "gather", "drain"}

Init ==
    /\ peer = "none"
    /\ rcvtimeo = 0
    /\ mu = 1
    /\ pc = [t \in Threads |-> "idle"]
    /\ turns = 0
    /\ turn = [t \in Threads |-> 0]
    /\ packet = [t \in Threads |-> NoPacket]
    /\ outbound = <<>>
    /\ reply = NoReply
    /\ inbound = <<>>
    /\ last = 0
    /\ answer = [t \in Threads |-> NoAnswer]
    /\ quiet = [t \in Threads |-> FALSE]
    /\ upset = FALSE
    /\ crashed = FALSE

-----------------------------------------------------------------------------
(* The constructor.                                                        *)

\* A mistake the checks must notice: the sign of the timeout is not looked at.
ConnectUnchecked(host, timeout) ==
    /\ peer = "none"
    /\ host # "unknown"
    /\ peer' = IF host = "address" THEN "device" ELSE "broadcast"
    /\ rcvtimeo' = timeout \div 10
    /\ UNCHANGED <<callVars, netVars, turns, turn, last, quiet, upset, crashed>>

\* gethostbyname must know the host and the timeout must not be negative;
\* the address itself comes from inet_addr(hostname), which turns anything
\* but a dotted address into INADDR_NONE, 255.255.255.255.  The timeout is
\* cut down to whole microseconds.
Connect(host, timeout) ==
    /\ peer = "none"
    /\ host # "unknown"
    /\ timeout >= 0
    /\ peer' = IF host = "address" THEN "device" ELSE "broadcast"
    /\ rcvtimeo' = timeout \div 10
    /\ UNCHANGED <<callVars, netVars, turns, turn, last, quiet, upset, crashed>>

-----------------------------------------------------------------------------
(* The calls.                                                              *)

\* The calls made so far: those that had their turn and those that wait.
CallsLeft ==
    turns + Cardinality({t \in Threads : pc[t] \in Waiting}) < MaxTurns

Enter(t) ==
    /\ peer # "none"
    /\ pc[t] = "idle"
    /\ CallsLeft
    /\ pc' = [pc EXCEPT ![t] = "wait"]
    /\ answer' = [answer EXCEPT ![t] = NoAnswer]
    /\ UNCHANGED <<linkVars, netVars, mu, packet, turns, turn, last, quiet,
                   upset, crashed>>

EnterClear(t) ==
    /\ peer # "none"
    /\ pc[t] = "idle"
    /\ CallsLeft
    /\ pc' = [pc EXCEPT ![t] = "drainwait"]
    /\ answer' = [answer EXCEPT ![t] = NoAnswer]
    /\ UNCHANGED <<linkVars, netVars, mu, packet, turns, turn, last, quiet,
                   upset, crashed>>

\* sem_wait(&mu) returns.  What it returns is not looked at: assumed is that no
\* signal interrupts it (EINTR).
Acquire(t) ==
    /\ pc[t] \in Waiting
    /\ mu > 0
    /\ mu' = mu - 1
    /\ pc' = [pc EXCEPT ![t] = IF pc[t] = "wait" THEN "send" ELSE "drain"]
    /\ turns' = turns + 1
    /\ turn' = [turn EXCEPT ![t] = turns + 1]
    /\ UNCHANGED <<linkVars, netVars, packet, answer, last, quiet, upset, crashed>>

\* sem_post(&mu), and the call returns r or throws (NoAnswer).
Leave(t, r) ==
    /\ mu' = mu + 1
    /\ pc' = [pc EXCEPT ![t] = "idle"]
    /\ packet' = [packet EXCEPT ![t] = NoPacket]
    /\ answer' = [answer EXCEPT ![t] = r]

\* The request is on its way.
SendRequest(t) ==
    /\ pc[t] = "send"
    /\ peer = "device"
    /\ outbound' = Append(outbound, turn[t])
    /\ pc' = [pc EXCEPT ![t] = "recv"]
    /\ quiet' = [quiet EXCEPT ![t] =
                    /\ outbound = <<>>
                    /\ inbound = <<>>
                    /\ reply.sent = reply.of]
    /\ UNCHANGED <<linkVars, mu, packet, answer, reply, inbound, turns, turn,
                   last, upset, crashed>>

\* A mistake: the error path of sendto throws without sem_post.
SendFailsHolding(t) ==
    /\ pc[t] = "send"
    /\ pc' = [pc EXCEPT ![t] = "idle"]
    /\ UNCHANGED <<linkVars, netVars, mu, packet, answer, turns, turn, last, quiet,
                   upset, crashed>>

\* sendto fails, as it always does to the broadcast address.
SendFails(t) ==
    /\ pc[t] = "send"
    /\ Leave(t, NoAnswer)
    /\ UNCHANGED <<linkVars, netVars, turns, turn, last, quiet, upset, crashed>>

\* recvfrom takes the next datagram.
Take ==
    /\ inbound # <<>>
    /\ inbound' = Tail(inbound)
    /\ UNCHANGED <<outbound, reply>>

\* The reassembled packet is an answer of the device: it passes
\* validateChecksum and is returned.
ReturnAnswer(t, r) ==
    /\ Leave(t, r)
    /\ last' = r
    /\ UNCHANGED upset

\* The reassembled bytes are no answer of the device.  They mostly fail the
\* checksum; but it is a 16-bit sum, which a run of zeros satisfies.
ReturnMixed(t) ==
    /\ Leave(t, NoAnswer) \/ Leave(t, Junk)
    /\ upset' = TRUE
    /\ UNCHANGED last

\* Read on: the packet is not complete yet.  A packet that begins with a
\* stray fragment or mixes two replies belongs to no turn: its turn is 0.
Gather(t, p) ==
    /\ pc' = [pc EXCEPT ![t] = "gather"]
    /\ packet' = [packet EXCEPT ![t] = p]
    /\ UNCHANGED <<mu, answer, last, upset>>

\* A mistake: the datagram is looked at (MSG_PEEK) and stays in the buffer.
RecvWholePeeks(t) ==
    /\ pc[t] = "recv"
    /\ inbound # <<>>
    /\ Head(inbound).of = 1
    /\ ReturnAnswer(t, Head(inbound).turn)
    /\ UNCHANGED <<linkVars, netVars, turns, turn, quiet, crashed>>

\* The first datagram is a whole packet: LEN says packet_size == n.
RecvWhole(t) ==
    /\ pc[t] = "recv"
    /\ Take
    /\ Head(inbound).of = 1
    /\ ReturnAnswer(t, Head(inbound).turn)
    /\ UNCHANGED <<linkVars, turns, turn, quiet, crashed>>

\* The first datagram is the head of a longer packet.
RecvFirst(t) ==
    /\ pc[t] = "recv"
    /\ Take
    /\ Head(inbound).idx = 1
    /\ Head(inbound).of > 1
    /\ Gather(t, [turn |-> Head(inbound).turn, got |-> 1,
                  of |-> Head(inbound).of])
    /\ UNCHANGED <<linkVars, turns, turn, quiet, crashed>>

\* The first datagram is a fragment that an earlier call left behind, and
\* its payload is read as a header.  The LEN found there is arbitrary: the
\* packet may seem complete, may seem to need more, or may seem shorter than
\* the datagram, and then the memcpy into packet_buffer overruns it.
RecvStray(t) ==
    /\ pc[t] = "recv"
    /\ Take
    /\ Head(inbound).idx > 1
    /\ \/ ReturnMixed(t) /\ UNCHANGED crashed
       \/ /\ Gather(t, [turn |-> 0, got |-> 1, of |-> 1])
          /\ UNCHANGED crashed
       \/ crashed' = TRUE /\ UNCHANGED <<callVars, last, upset>>
    /\ UNCHANGED <<linkVars, turns, turn, quiet>>

\* Whether datagram d is the next fragment of the reply that p began with.
Continues(p, d) == d.turn = p.turn /\ d.idx = p.got + 1

\* while (offset < packet_size): one more fragment, not the last one.
GatherNext(t) ==
    /\ pc[t] = "gather"
    /\ Take
    /\ Continues(packet[t], Head(inbound))
    /\ Head(inbound).idx < packet[t].of
    /\ Gather(t, [packet[t] EXCEPT !.got = @ + 1])
    /\ UNCHANGED <<linkVars, turns, turn, quiet, crashed>>

\* The last fragment completes the packet.
GatherLast(t) ==
    /\ pc[t] = "gather"
    /\ Take
    /\ Continues(packet[t], Head(inbound))
    /\ Head(inbound).idx = packet[t].of
    /\ ReturnAnswer(t, packet[t].turn)
    /\ UNCHANGED <<linkVars, turns, turn, quiet, crashed>>

\* A datagram of another reply, or one after a lost fragment, is appended
\* all the same.  A datagram carries at most MAX_UDP_PACKET_SIZE bytes, so a
\* packet of `of` fragments is not full before `of` datagrams are in it.
GatherForeign(t) ==
    /\ pc[t] = "gather"
    /\ Take
    /\ ~Continues(packet[t], Head(inbound))
    /\ \/ Gather(t, [turn |-> 0, got |-> packet[t].got + 1, of |-> packet[t].of])
       \/ packet[t].got + 1 >= packet[t].of /\ ReturnMixed(t)
    /\ UNCHANGED <<linkVars, turns, turn, quiet, crashed>>

\* Mistakes at a receive that times out: the result is not looked at and the
\* bytes of the previous answer are parsed again; ...
TimeoutParsesOldBytes(t) ==
    /\ pc[t] \in {"recv", "gather"}
    /\ rcvtimeo > 0
    /\ Leave(t, last)
    /\ upset' = TRUE
    /\ UNCHANGED <<linkVars, netVars, turns, turn, last, quiet, crashed>>

\* ... the request is sent again; ...
TimeoutResends(t) ==
    /\ pc[t] \in {"recv", "gather"}
    /\ rcvtimeo > 0
    /\ outbound' = IF Len(outbound) < MaxTurns THEN Append(outbound, turn[t])
                   ELSE outbound
    /\ pc' = [pc EXCEPT ![t] = "recv"]
    /\ packet' = [packet EXCEPT ![t] = NoPacket]
    /\ upset' = TRUE
    /\ UNCHANGED <<linkVars, mu, answer, reply, inbound, turns, turn, last, quiet,
                   crashed>>

\* ... the receive is tried again, for ever.
TimeoutRetries(t) ==
    /\ pc[t] \in {"recv", "gather"}
    /\ rcvtimeo > 0
    /\ upset' = TRUE
    /\ UNCHANGED <<linkVars, callVars, netVars, turns, turn, last, quiet, crashed>>

\* recvfrom gives up after SO_RCVTIMEO; a timeout of 0 never does.
Timeout(t) ==
    /\ pc[t] \in {"recv", "gather"}
    /\ rcvtimeo > 0
    /\ Leave(t, NoAnswer)
    /\ upset' = TRUE
    /\ UNCHANGED <<linkVars, netVars, turns, turn, last, quiet, crashed>>

\* ClearCommunicationBuffer: while (n > 0) recvfrom ...
DrainOne(t) ==
    /\ pc[t] = "drain"
    /\ Take
    /\ UNCHANGED <<linkVars, callVars, turns, turn, last, quiet, upset, crashed>>

\* ... until a receive times out.
DrainEnd(t) ==
    /\ pc[t] = "drain"
    /\ rcvtimeo > 0
    /\ Leave(t, NoAnswer)
    /\ UNCHANGED <<linkVars, netVars, turns, turn, last, quiet, upset, crashed>>

-----------------------------------------------------------------------------
(* The device and the network.                                             *)

LoseRequest ==
    /\ outbound # <<>>
    /\ outbound' = Tail(outbound)
    /\ UNCHANGED <<linkVars, callVars, reply, inbound, turns, turn, last, quiet,
                   upset, crashed>>

\* The device takes up a request once it has sent its previous reply.
DeviceAnswers(of) ==
    /\ outbound # <<>>
    /\ reply.sent = reply.of
    /\ outbound' = Tail(outbound)
    /\ reply' = [turn |-> Head(outbound), sent |-> 0, of |-> of]
    /\ UNCHANGED <<linkVars, callVars, inbound, turns, turn, last, quiet,
                   upset, crashed>>

DeviceSends ==
    /\ reply.sent < reply.of
    /\ reply' = [reply EXCEPT !.sent = @ + 1]
    /\ inbound' = Append(inbound, [turn |-> reply.turn, idx |-> reply.sent + 1,
                                   of |-> reply.of])
    /\ UNCHANGED <<linkVars, callVars, outbound, turns, turn, last, quiet,
                   upset, crashed>>

\* The next datagram is lost on its way back.
LoseDatagram ==
    /\ reply.sent < reply.of
    /\ reply' = [reply EXCEPT !.sent = @ + 1]
    /\ UNCHANGED <<linkVars, callVars, outbound, inbound, turns, turn, last,
                   quiet, upset, crashed>>

-----------------------------------------------------------------------------

\* What a thread that has the semaphore does next.
Proceed(t) ==
    /\ ~crashed
    /\ \/ SendRequest(t) \/ SendFails(t)
       \/ RecvWhole(t) \/ RecvFirst(t) \/ RecvStray(t)
       \/ GatherNext(t) \/ GatherLast(t) \/ GatherForeign(t)
       \/ Timeout(t)
       \/ DrainOne(t) \/ DrainEnd(t)

GetTurn == ~crashed /\ \E t \in Threads : Acquire(t)

Call == ~crashed /\ \E t \in Threads : Enter(t) \/ EnterClear(t)

Environment ==
    /\ ~crashed
    /\ \/ LoseRequest
       \/ \E of \in 1..MaxFrags : DeviceAnswers(of)
       \/ DeviceSends
       \/ LoseDatagram

\* The process is gone, or every call within the bound has returned.
Done ==
    /\ crashed \/ (peer # "none" /\ ~CallsLeft /\ \A t \in Threads : pc[t] = "idle")
    /\ UNCHANGED vars

Next ==
    \/ \E host \in Hosts, timeout \in Timeouts : Connect(host, timeout)
    \/ Call
    \/ GetTurn
    \/ \E t \in Threads : Proceed(t)
    \/ Environment
    \/ Done

\* The operating system runs every thread that can run, and sem_post wakes
\* some waiter.  Neither the network nor the device owes anything.
Fairness ==
    /\ \A t \in Threads : WF_vars(Proceed(t))
    /\ WF_vars(GetTurn)

Spec == Init /\ [][Next]_vars
FairSpec == Spec /\ Fairness

-----------------------------------------------------------------------------
(* Properties.                                                             *)

PacketType == [turn : Nat, got : Nat, of : Nat]
DatagramType == [turn : Nat, idx : Nat, of : Nat]

\* Every variable holds a value of its type; in particular the kernel is
\* never given a negative timeout and the semaphore's value is 0 or 1.
TypeOK ==
    /\ peer \in {"none", "device", "broadcast"}
    /\ rcvtimeo \in Nat
    /\ mu \in {0, 1}
    /\ pc \in [Threads -> {"idle"} \cup Waiting \cup Holding]
    /\ turns \in Nat
    /\ turn \in [Threads -> Nat]
    /\ packet \in [Threads -> PacketType]
    /\ outbound \in Seq(Nat)
    /\ reply \in [turn : Nat, sent : Nat, of : Nat]
    /\ inbound \in Seq(DatagramType)
    /\ last \in Nat
    /\ answer \in [Threads -> Nat \cup {Junk}]
    /\ quiet \in [Threads -> BOOLEAN]
    /\ upset \in BOOLEAN
    /\ crashed \in BOOLEAN

\* The semaphore is neither lost nor doubled on any path through a call, the
\* throwing ones included: at most one thread is inside, and the semaphore
\* is taken exactly while one is.
SemaphoreConserved ==
    /\ \A t, u \in Threads : pc[t] \in Holding /\ pc[u] \in Holding => t = u
    /\ mu = 0 <=> \E t \in Threads : pc[t] \in Holding

\* sendAndReceive cannot tell whose answer it returns; but when nothing was
\* on its way as the request was sent, it never returns the answer to another
\* call, whatever the network loses and whatever other threads do meanwhile.
QuietStartOwnAnswer ==
    \A t \in Threads :
        pc[t] = "idle" /\ quiet[t] => answer[t] \in {NoAnswer, Junk, turn[t]}

\* As long as every request sent got an answer of the device, each caller
\* got the answer to its own request: the exchange falls out of step only
\* after a call that timed out or met a broken packet.
InStepUntilUpset ==
    ~upset => \A t \in Threads :
                 pc[t] = "idle" => answer[t] \in {NoAnswer, turn[t]}

\* The handler keeps the promise of AmptekConnectionHandler: one call at a
\* time, and answers that are never replayed and never go back in time,
\* although datagrams are lost and left over by calls that timed out.
PhaseOf(t) == CASE pc[t] = "idle" -> "idle"
                [] pc[t] \in Waiting -> "waiting"
                [] pc[t] \in Holding -> "holding"
Handler == INSTANCE ConnectionHandler WITH
    phase <- [t \in Threads |-> PhaseOf(t)]
HandlerSpec == Handler!Spec

\* With a timeout that the kernel honours every call that has its turn
\* returns, however much the network loses and whatever it is fed.
CallReturns ==
    \A t \in Threads : pc[t] \in Holding ~> pc[t] = "idle" \/ crashed

\* While a call waits for the semaphore some call gets its next turn: no
\* error path leaves the semaphore taken.
TurnsGoOn ==
    \A n \in 0..MaxTurns :
        (turns = n /\ \E t \in Threads : pc[t] \in Waiting)
            ~> turns > n \/ crashed
=============================================================================
